---------------------------- MODULE DockerSandbox ----------------------------
(***************************************************************************)
(* One sandbox of typescript/src/sandbox/docker.ts: its container, volume  *)
(* and verifier, its state.json, and those who hold a copy of that file:   *)
(* the worker that prepares it and calls its tools (session.ts), the       *)
(* runner that freezes and verifies a candidate (process-runner.ts) and    *)
(* the helper, which is the maintenance process of a stop or of a          *)
(* preservation, and afterwards an operator's commands (cli.ts).           *)
(*                                                                         *)
(* A thread works through operations: `at` is the step it is at, `todo`    *)
(* what comes after the current operation.  One action is what happens     *)
(* between two awaits that matter: a request to the daemon, or a record,   *)
(* which writes the holder's copy whole.  Files are abstracted to how      *)
(* often the workspace was written.                                        *)
(***************************************************************************)
EXTENDS Naturals, Sequences, Functions

CONSTANTS
    MaxWrites,  \* bound of the model: writes of commands to the workspace
    Nothing

ASSUME WritesAssumption == MaxWrites \in Nat

VARIABLES
    file,      \* state.json
    copy,      \* the State each holder has in memory
    at, todo,  \* the threads
    out,       \* where the helper's export goes
    docker,    \* what the daemon has of the sandbox
    kept,      \* the archives at the two destinations, by content
    live,      \* the processes of the execution
    halt,      \* ProcessTaskRunner.stop
    cancelled, \* the session was cancelled
    admission  \* the worker's box admits calls

execution == <<live, halt, cancelled, admission>>
world == <<docker, kept, execution>>
sandboxVars == <<file, copy, at, todo, out, world>>

Thread == {"task", "cancel", "runner", "helper"}
Holder(t) == IF t \in {"task", "cancel"} THEN "worker" ELSE t
Destination == {"candidate", "retained"}
Content == 0..MaxWrites

\* verifier: whether the verifier's name is among the references.
State ==
    [phase : {"prepared", "running", "stopping", "stopped", "verifying", "exporting", "archived", "cleaned"},
     id : {"main", "reader", Nothing}, verifier : BOOLEAN,
     path : Destination \cup {Nothing}, hash : Content \cup {Nothing}]

ASSUME NothingIsNone ==
    /\ Nothing \notin {"main", "reader"} \cup Destination
    /\ Nothing \notin Nat
    /\ Nothing \notin State

Fresh == [phase |-> "prepared", id |-> Nothing, verifier |-> FALSE, path |-> Nothing, hash |-> Nothing]

\* box: the container of the sandbox's name, its own or a recovery reader;
\* shell: commands run in it, also those no call waits for any more.
Daemon ==
    [box : {"absent", "created", "running", "exited", "reader"},
     verifier : {"absent", "created", "running", "exited"},
     volume : BOOLEAN, shell : BOOLEAN, content : Content]

Preparing == {"inputs", "volume", "volumeMade", "creating", "made", "starting", "started"}
Stops == {"stopVerifiers", "stopBox", "confirm"}
Exports == {"look", "copyOut", "commit", "committed"}

\* Steps at which a failing request, file operation or check throws.
Throwing ==
    Exports \cup
    {"stop", "stopVerifiers", "remove", "reader", "readerCreate", "readerMade", "verify",
     "verifierStart", "verifying", "verified", "export", "cleanup", "dropVerifiers", "dropBox", "dropVolume", "dropped"}

Place ==
    Preparing \cup Stops \cup Throwing \cup
    {"new", "binding", "ready", "calling", "polling", "settled", "ended", "gone",
     "waiting", "frozen", "load", "choose", "verifierCreate",
     "exportFailed", "off", "end", "failed", "dead"}

SandboxTypeOK ==
    /\ file \in State \cup {Nothing}
    /\ copy \in [{"worker", "runner", "helper"} -> State]
    /\ at \in [Thread -> Place]
    /\ \A t \in Thread : Range(todo[t]) \subseteq Place \cup {"wasStopped", "wasArchived"}
    /\ out \in Destination \cup {Nothing}
    /\ docker \in Daemon /\ (docker.shell => docker.box = "running")
    /\ kept \in [Destination -> Content \cup {Nothing}]
    /\ live \subseteq {"worker", "controller"}
    /\ halt \in {"no", "called", "confirmed", "unconfirmed"}
    /\ cancelled \in BOOLEAN /\ admission \in BOOLEAN
    /\ admission => "worker" \in live /\ copy["worker"].phase = "running"

SandboxInit ==
    /\ file = Nothing
    /\ copy = [h \in {"worker", "runner", "helper"} |-> Fresh]
    /\ at = [task |-> "new", cancel |-> "off", runner |-> "waiting", helper |-> "off"]
    /\ todo = [t \in Thread |-> <<>>]
    /\ out = Nothing
    /\ docker = [box |-> "absent", verifier |-> "absent", volume |-> FALSE, shell |-> FALSE, content |-> 0]
    /\ kept = [d \in Destination |-> Nothing]
    /\ live = {"worker", "controller"}
    /\ halt = "no"
    /\ cancelled = FALSE /\ admission = FALSE

-----------------------------------------------------------------------------
(* Threads, records and requests.                                          *)

My(t) == copy[Holder(t)]

Record(t, state) ==
    /\ copy' = [copy EXCEPT ![Holder(t)] = state]
    /\ file' = state

NoRecord == UNCHANGED <<file, copy>>

Perform(t, operations) ==
    /\ at' = [at EXCEPT ![t] = Head(operations)]
    /\ todo' = [todo EXCEPT ![t] = Tail(operations)]
    /\ UNCHANGED out

\* An operation returns to the next one.  A failed preparation and a tool's
\* error go on likewise; a session that cannot stop its box ends in an error.
Goto(t, step) ==
    CASE step = "return" -> Perform(t, IF todo[t] = <<>> THEN <<"end">> ELSE todo[t])
      [] step = "throw" ->
            Perform(t, IF t # "task" \/ todo[t] \in {<<"settled">>, <<"ended">>, <<"failed">>}
                       THEN <<"failed">>
                       ELSE IF Len(todo[t]) = 2 THEN <<"stop", "failed">> ELSE todo[t])
      [] OTHER -> at' = [at EXCEPT ![t] = step] /\ UNCHANGED <<todo, out>>

\* A record, after which the thread goes on.
Records(t, from, state, to) ==
    /\ at[t] = from
    /\ Record(t, state)
    /\ Goto(t, to)
    /\ UNCHANGED world

\* A request the daemon answers.
Asks(t, from, answer, to) ==
    /\ at[t] = from
    /\ docker' = answer
    /\ Goto(t, to)
    /\ NoRecord
    /\ UNCHANGED <<kept, execution>>

\* Neither.
Goes(t, from, to) ==
    /\ at[t] = from
    /\ Goto(t, to)
    /\ NoRecord
    /\ UNCHANGED world

Turns(t, from, operations) ==
    /\ at[t] = from
    /\ Perform(t, operations)
    /\ NoRecord
    /\ UNCHANGED world

\* What inspect finds by the known id, or by the name.
Found(state) ==
    CASE state.id = "main" -> docker.box \in {"created", "running", "exited"}
      [] state.id = "reader" -> docker.box = "reader"
      [] OTHER -> docker.box # "absent"

Runs(state) == Found(state) /\ docker.box = "running"

\* checkArchive; a missing receipt is written again.
ArchiveHolds(state) ==
    state.path # Nothing /\ state.hash # Nothing /\ kept[state.path] = state.hash

-----------------------------------------------------------------------------
(* prepare, in the worker.                                                 *)

Prepare == ~cancelled /\ Records("task", "new", Fresh, "inputs")
InputsTaken == Records("task", "inputs", My("task"), "volume")
VolumeCreated == Asks("task", "volume", [docker EXCEPT !.volume = TRUE], "volumeMade")
VolumeRecorded == Records("task", "volumeMade", My("task"), "creating")

\* The daemon creates a volume that a mount names and does not find.
ContainerCreated ==
    /\ docker.box = "absent"
    /\ Asks("task", "creating", [docker EXCEPT !.box = "created", !.volume = TRUE], "made")

ContainerRecorded == Records("task", "made", [My("task") EXCEPT !.id = "main"], "starting")

Started ==
    /\ docker.box = "created"
    /\ Asks("task", "starting", [docker EXCEPT !.box = "running"], "started")

Prepared ==
    /\ at["task"] = "started"
    /\ docker.box = "running"
    /\ Record("task", [My("task") EXCEPT !.phase = "running"])
    /\ admission' = TRUE
    /\ Goto("task", "binding")
    /\ UNCHANGED <<docker, kept, live, halt, cancelled>>

\* prepare_failed, and its stop: after this no one in the worker has the box.
PrepareFails ==
    /\ at["task"] \in Preparing
    /\ Record("task", My("task"))
    /\ Perform("task", <<"stop", "gone">>)
    /\ UNCHANGED world

\* SandboxSession.start: bindRun, and a stop when a cancel came meanwhile.
Bound ==
    /\ at["task"] = "binding"
    /\ Record("task", My("task"))
    /\ Perform("task", IF cancelled THEN <<"stop", "stop", "ended">> ELSE <<"ready">>)
    /\ admission' = (admission /\ ~cancelled)
    /\ UNCHANGED <<docker, kept, live, halt, cancelled>>

-----------------------------------------------------------------------------
(* stop and stopVerifiers, by any thread.  The worker's two stops queue on *)
(* one object (serial).                                                    *)

Queued(t) == t \in {"task", "cancel"} /\ \E u \in {"task", "cancel"} \ {t} : at[u] \in Stops

StopIntent(t) ==
    /\ ~Queued(t)
    /\ \/ My(t).phase \in {"archived", "cleaned"} /\ Goes(t, "stop", "return")
       \/ /\ My(t).phase \notin {"archived", "cleaned"}
          /\ Records(t, "stop", [My(t) EXCEPT !.phase = "stopping"], "stopVerifiers")

VerifiersStopped(t) ==
    Asks(t, "stopVerifiers",
         [docker EXCEPT !.verifier = IF My(t).verifier /\ @ = "running" THEN "exited" ELSE @], "stopBox")

BoxStopped(t) ==
    Asks(t, "stopBox",
         IF Runs(My(t)) THEN [docker EXCEPT !.box = "exited", !.shell = FALSE] ELSE docker, "confirm")

StopConfirmed(t) ==
    /\ ~Runs(My(t))
    /\ Records(t, "confirm", [My(t) EXCEPT !.phase = "stopped"], "return")

\* It still runs, or the daemon did not answer: stop_failed.
StopFails(t) ==
    \E step \in {"stopBox", "confirm"} : Records(t, step, My(t), "throw")

\* verifier_removed rewrites the file, if there was one to remove.
VerifiersRemoved(t, from, to) ==
    /\ at[t] = from
    /\ IF My(t).verifier /\ docker.verifier # "absent" THEN Record(t, My(t)) ELSE NoRecord
    /\ docker' = [docker EXCEPT !.verifier = IF My(t).verifier THEN "absent" ELSE @]
    /\ Goto(t, to)
    /\ UNCHANGED <<kept, execution>>

Fails(t) ==
    \E step \in Throwing :
        Goes(t, step, IF step \in Exports \/ "copyOut" \in Range(todo[t]) THEN "exportFailed" ELSE "throw")

-----------------------------------------------------------------------------
(* call, and the end of the task.                                          *)

\* The tool's reservation is refused once the runner was stopped
\* (process-runner.ts:98).
Call ==
    /\ halt = "no" /\ "controller" \in live
    /\ admission /\ My("task").phase = "running" /\ ~cancelled
    /\ Found(My("task"))
    /\ Records("task", "ready", My("task"), "calling")

Exec ==
    /\ ~cancelled /\ admission
    /\ docker.box = "running"
    /\ Asks("task", "calling", [docker EXCEPT !.shell = TRUE], "polling")

CallRefused == Goes("task", "calling", "ready")

\* A result, or the wait is over and the command may still run.
CallEnds == Records("task", "polling", My("task"), "ready")

CallAborted == cancelled /\ Turns("task", "polling", <<"stop", "ready">>)

Write ==
    /\ docker.shell /\ docker.content < MaxWrites
    /\ docker' = [docker EXCEPT !.content = @ + 1]
    /\ NoRecord
    /\ UNCHANGED <<at, todo, out, kept, execution>>

\* executeTask stops the boundary before it returns: a completed task, another
\* outcome, or an error.
TaskEnds ==
    /\ at["task"] = "ready"
    /\ \E outcome \in {"settled", "ended", "failed"} :
         /\ outcome = "settled" => ~cancelled
         /\ Perform("task", <<"stop", outcome>>)
    /\ admission' = FALSE
    /\ NoRecord
    /\ UNCHANGED <<docker, kept, live, halt, cancelled>>

HasBox ==
    /\ at["task"] \notin Preparing \cup {"new", "gone", "dead"}
    /\ todo["task"] # <<"gone">>

\* The stop message, of the runner or of the supervisor at its own deadline, or
\* the disconnected controller: session.cancel.
CancelSession ==
    /\ "worker" \in live /\ ~cancelled
    /\ cancelled' = TRUE
    /\ at' = [at EXCEPT !["cancel"] = IF HasBox THEN "stop" ELSE @]
    /\ admission' = (admission /\ ~HasBox)
    /\ NoRecord
    /\ UNCHANGED <<todo, out, docker, kept, live, halt>>

\* SIGTERM, SIGKILL, the exit after a disconnect, or a crash.
WorkerDies ==
    /\ "worker" \in live
    /\ live' = live \ {"worker"}
    /\ cancelled' = FALSE /\ admission' = FALSE
    /\ at' = [at EXCEPT !["task"] = IF @ \in {"settled", "ended"} THEN @ ELSE "dead", !["cancel"] = "dead"]
    /\ todo' = [todo EXCEPT !["task"] = <<>>, !["cancel"] = <<>>]
    /\ copy' = [copy EXCEPT !["worker"] = Fresh]
    /\ UNCHANGED <<file, out, docker, kept, halt>>

-----------------------------------------------------------------------------
(* The runner: run freezes the candidate, verify judges it.                *)

Load(t) ==
    /\ at[t] = "load"
    /\ IF file = Nothing
       THEN Perform(t, <<"end">>) /\ UNCHANGED copy
       ELSE Goto(t, "return") /\ copy' = [copy EXCEPT ![Holder(t)] = file]
    /\ UNCHANGED <<file, world>>

Freeze ==
    /\ at["task"] = "settled" /\ "controller" \in live /\ halt \in {"no", "called"}
    /\ Turns("runner", "waiting", <<"load", "stop", "stop", "export", "frozen">>)

RunReturns ==
    /\ at["task"] = "ended" /\ "controller" \in live /\ halt \in {"no", "called"}
    /\ Turns("runner", "waiting", <<"end">>)

\* eligible() lets no verification begin after a revocation.
JudgeCandidate == halt = "no" /\ Turns("runner", "frozen", <<"load", "stop", "verify">>)

\* An archived candidate is checked before and after.
Verifiable(t, archived) ==
    archived => ArchiveHolds(My(t)) /\ Found(My(t)) /\ docker.box # "running"

VerifyIntent(t) ==
    /\ at[t] = "verify"
    /\ My(t).phase \in {"stopped", "archived"}
    /\ Verifiable(t, My(t).phase = "archived") /\ docker.volume
    /\ docker' = [docker EXCEPT !.verifier = IF My(t).verifier THEN "absent" ELSE @]
    /\ Record(t, [My(t) EXCEPT !.phase = "verifying", !.verifier = TRUE])
    /\ Perform(t, <<"verifierCreate", IF My(t).phase = "archived" THEN "wasArchived" ELSE "wasStopped">>
                  \o todo[t])
    /\ UNCHANGED <<kept, execution>>

VerifierCreated(t) ==
    /\ docker.verifier = "absent"
    /\ Asks(t, "verifierCreate", [docker EXCEPT !.verifier = "created"], "verifierStart")

\* The daemon may have created what it did not confirm.
VerifierFails(t) ==
    \E created \in {docker.verifier, "created"} :
        Asks(t, "verifierCreate", [docker EXCEPT !.verifier = created], "verified")

VerifierStarted(t) ==
    /\ at[t] = "verifierStart"
    /\ docker.verifier = "created" /\ docker.volume
    /\ docker' = [docker EXCEPT !.verifier = "running"]
    /\ Record(t, My(t))
    /\ Goto(t, "verifying")
    /\ UNCHANGED <<kept, execution>>

VerifierExits ==
    /\ docker.verifier = "running"
    /\ docker' = [docker EXCEPT !.verifier = "exited"]
    /\ NoRecord
    /\ UNCHANGED <<at, todo, out, kept, execution>>

VerifierReaped(t) ==
    \E from \in {"verifierStart", "verifying"} :
        Asks(t, from, [docker EXCEPT !.verifier = "absent"], "verified")

VerifyResult(t) ==
    /\ at[t] = "verified"
    /\ LET archived == Head(todo[t]) = "wasArchived" IN
         /\ Verifiable(t, archived)
         /\ Record(t, [My(t) EXCEPT !.phase = IF archived THEN "archived" ELSE "stopped"])
    /\ Perform(t, IF Len(todo[t]) = 1 THEN <<"end">> ELSE Tail(todo[t]))
    /\ UNCHANGED world

-----------------------------------------------------------------------------
(* export, with the reader of what a lost container leaves.                *)

\* ensureRecoveryReader: at a step of recover, or before the copy.
ReaderKnown(t) == (Found(My(t)) \/ My(t).phase = "cleaned") /\ Goes(t, "reader", "return")

ReaderNeeded(t) ==
    /\ at[t] \in {"reader", "copyOut"}
    /\ ~Found(My(t)) /\ My(t).phase # "cleaned" /\ docker.volume
    /\ Record(t, [My(t) EXCEPT !.id = Nothing])
    /\ Perform(t, <<"readerCreate">> \o (IF at[t] = "copyOut" THEN <<"copyOut">> ELSE <<>>) \o todo[t])
    /\ UNCHANGED world

ReaderCreated(t) ==
    /\ docker.box = "absent"
    /\ Asks(t, "readerCreate", [docker EXCEPT !.box = "reader", !.volume = TRUE], "readerMade")

ReaderRecorded(t) == Records(t, "readerMade", [My(t) EXCEPT !.id = "reader"], "return")

\* maintenance.ts:108 reads the destination from the file.
Choose ==
    /\ at["helper"] = "choose"
    /\ out' = IF file.path # Nothing THEN file.path ELSE "retained"
    /\ at' = [at EXCEPT !["helper"] = Head(todo["helper"])]
    /\ todo' = [todo EXCEPT !["helper"] = Tail(@)]
    /\ NoRecord
    /\ UNCHANGED world

ExportIntent(t) ==
    LET dest == IF t = "runner" THEN "candidate" ELSE out IN
    \/ /\ My(t).phase = "cleaned" /\ ArchiveHolds(My(t))
       /\ Goes(t, "export", "return")
    \/ /\ My(t).phase # "cleaned" /\ My(t).path \in {Nothing, dest}
       /\ Records(t, "export", [My(t) EXCEPT !.path = dest, !.phase = "exporting"], "look")

\* A destination that is there must be this export's own.
Look(t) ==
    \/ /\ at[t] = "look" /\ kept[My(t).path] = Nothing
       /\ Goes(t, "look", "copyOut")
    \/ /\ ArchiveHolds(My(t))
       /\ Records(t, "look", [My(t) EXCEPT !.phase = "archived"], "return")

\* The copy, staged, and archive_commit_intent.
CopyOut(t) ==
    /\ Found(My(t)) /\ docker.box # "running" /\ docker.volume
    /\ Records(t, "copyOut", [My(t) EXCEPT !.hash = docker.content], "commit")

Commit(t) ==
    /\ at[t] = "commit"
    /\ kept[My(t).path] = Nothing
    /\ kept' = [kept EXCEPT ![My(t).path] = My(t).hash]
    /\ Goto(t, "committed")
    /\ NoRecord
    /\ UNCHANGED <<docker, execution>>

Committed(t) ==
    /\ ArchiveHolds(My(t))
    /\ Records(t, "committed", [My(t) EXCEPT !.phase = "archived"], "return")

ExportFailed(t) == Records(t, "exportFailed", [My(t) EXCEPT !.phase = "stopped"], "throw")

-----------------------------------------------------------------------------
(* cleanup                                                                 *)

\* The archive is not looked at again.
CleanupHeedless(t) == Records(t, "cleanup", My(t), "dropVerifiers")

CleanupIntent(t) == ArchiveHolds(My(t)) /\ Records(t, "cleanup", My(t), "dropVerifiers")

BoxDropped(t) ==
    /\ ~Runs(My(t))
    /\ Asks(t, "dropBox", [docker EXCEPT !.box = IF Found(My(t)) THEN "absent" ELSE @], "dropVolume")

InUse == docker.box # "absent" \/ docker.verifier # "absent"

\* A volume in use does not end the cleanup.
VolumeLeft(t) == Asks(t, "dropVolume", [docker EXCEPT !.volume = @ /\ InUse], "dropped")

\* The daemon keeps a volume that a container mounts.
VolumeDropped(t) ==
    /\ docker.volume => ~InUse
    /\ Asks(t, "dropVolume", [docker EXCEPT !.volume = FALSE], "dropped")

Cleaned(t) == Records(t, "dropped", [My(t) EXCEPT !.phase = "cleaned"], "return")

-----------------------------------------------------------------------------
(* ProcessTaskRunner.stop and preserve, the maintenance helper, operators. *)

HelperIdle == at["helper"] \in {"off", "end", "failed"}

\* Once the generation has settled, no helper looks after its box.
StopCalled ==
    /\ "controller" \in live /\ halt = "no"
    /\ halt' = "called"
    /\ IF at["runner"] = "waiting" THEN Perform("helper", <<"load", "stop">>) ELSE UNCHANGED <<at, todo, out>>
    /\ NoRecord
    /\ UNCHANGED <<docker, kept, live, cancelled, admission>>

StopReturns(result) ==
    /\ "controller" \in live /\ halt = "called"
    /\ halt' = result
    /\ NoRecord
    /\ UNCHANGED <<at, todo, out, docker, kept, live, cancelled, admission>>

\* A helper that failed is not asked.
StopAssumed == "worker" \notin live /\ HelperIdle /\ StopReturns("confirmed")

\* The supervisor saw the worker exit and the helper confirmed.
StopProved == "worker" \notin live /\ at["helper"] \in {"off", "end"} /\ StopReturns("confirmed")

\* The watchdog, a helper that failed, or a supervisor that could not tell.
StopUnconfirmed == HelperIdle /\ StopReturns("unconfirmed")

\* The last the controller does about the sandbox, once run and verify are over.
PreserveWork ==
    /\ "controller" \in live /\ halt \in {"confirmed", "unconfirmed"}
    /\ at["runner"] \in {"waiting", "frozen", "end", "failed"}
    /\ live' = live \ {"controller"}
    /\ at' = [at EXCEPT !["runner"] = "dead", !["helper"] = "load"]
    /\ todo' = [todo EXCEPT !["helper"] =
                   <<"stop", "remove", "reader", "choose", "stop", "export", "cleanup">>]
    /\ copy' = [copy EXCEPT !["runner"] = Fresh]
    /\ UNCHANGED <<file, out, docker, kept, halt, cancelled, admission>>

ControllerDies ==
    /\ "controller" \in live
    /\ live' = live \ {"controller"}
    /\ Perform("runner", <<"dead">>)
    /\ copy' = [copy EXCEPT !["runner"] = Fresh]
    /\ UNCHANGED <<file, docker, kept, halt, cancelled, admission>>

\* The helper's own watchdog, or a crash.
HelperDies ==
    /\ ~HelperIdle
    /\ Perform("helper", <<"failed">>)
    /\ copy' = [copy EXCEPT !["helper"] = Fresh]
    /\ UNCHANGED <<file, world>>

Commands ==
    {<<"load", "stop", "remove", "reader">>, <<"load", "stop", "export">>,
     <<"load", "stop", "verify">>, <<"load", "cleanup">>}

\* pan-agent sandbox, one command at a time and after the execution is gone.
Operate ==
    /\ live = {} /\ HelperIdle /\ file # Nothing
    /\ \E command \in Commands :
         /\ at' = [at EXCEPT !["helper"] = Head(command)]
         /\ todo' = [todo EXCEPT !["helper"] = Tail(command)]
         /\ IF "export" \in Range(command) THEN out' \in Destination ELSE out' = Nothing
    /\ NoRecord
    /\ UNCHANGED world

-----------------------------------------------------------------------------

Worker ==
    \/ Prepare \/ InputsTaken \/ VolumeCreated \/ VolumeRecorded \/ ContainerCreated
    \/ ContainerRecorded \/ Started \/ Prepared \/ PrepareFails \/ Bound
    \/ Call \/ Exec \/ CallRefused \/ CallEnds \/ CallAborted \/ Write \/ TaskEnds
    \/ CancelSession \/ WorkerDies

Operation(t) ==
    \/ Load(t) \/ Fails(t)
    \/ StopIntent(t) \/ VerifiersStopped(t) \/ BoxStopped(t) \/ StopConfirmed(t) \/ StopFails(t)
    \/ VerifyIntent(t) \/ VerifierCreated(t) \/ VerifierFails(t) \/ VerifierStarted(t)
    \/ VerifierReaped(t) \/ VerifyResult(t)
    \/ VerifiersRemoved(t, "remove", "return") \/ ReaderKnown(t) \/ ReaderNeeded(t)
    \/ ReaderCreated(t) \/ ReaderRecorded(t)
    \/ ExportIntent(t) \/ Look(t) \/ CopyOut(t) \/ Commit(t) \/ Committed(t) \/ ExportFailed(t)
    \/ CleanupIntent(t) \/ VerifiersRemoved(t, "dropVerifiers", "dropBox") \/ BoxDropped(t)
    \/ VolumeDropped(t) \/ Cleaned(t)

Outside ==
    \/ Freeze \/ RunReturns \/ JudgeCandidate \/ VerifierExits \/ Choose
    \/ StopCalled \/ StopProved \/ StopUnconfirmed \/ PreserveWork \/ ControllerDies \/ HelperDies
    \/ Operate

SandboxNext == Worker \/ Outside \/ \E t \in Thread : Operation(t)

SandboxSpec == SandboxInit /\ [][SandboxNext]_sandboxVars

-----------------------------------------------------------------------------
(* Properties                                                              *)

\* A verifier of the execution judges what the archive of the candidate
\* holds, while no container runs (docker.ts:308).
VerifiesWhatIsKept ==
    docker.verifier = "running" /\ at["runner"] = "verifying" =>
        docker.box # "running" /\ kept["candidate"] = docker.content

\* A volume is removed only when an archive holds what was last written to
\* it: checkArchive at the beginning of cleanup (docker.ts:461) stands, many
\* awaits and holders later; and what is verified is what the archive holds.
WorkSurvives ==
    /\ SandboxTypeOK
    /\ docker.content > 0 /\ ~docker.volume => \E d \in Destination : kept[d] = docker.content
    /\ VerifiesWhatIsKept

\* Where a stop was not reported as unconfirmed, "cleaned" in state.json
\* means that the daemon has nothing left of the sandbox (docker.ts:482).
CleanedIsClean ==
    file # Nothing /\ file.phase = "cleaned" /\ halt # "unconfirmed" =>
        docker.box = "absent" /\ docker.verifier = "absent" /\ ~docker.volume

\* A stop that was confirmed (process-runner.ts:158) is the end of all
\* effects in the workspace, also those of commands nobody waits for.
StopEndsEffects ==
    [][halt = "confirmed" => docker'.content = docker.content]_sandboxVars

=============================================================================

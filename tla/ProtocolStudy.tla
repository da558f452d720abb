---------------------------- MODULE ProtocolStudy ----------------------------
(***************************************************************************)
(* The fixed-context protocol studies of the Python harness.  A study is a *)
(* frozen matrix of slots, each one call of the provider and, in the first *)
(* study, at most one repair, kept in a directory of its own               *)
(* (scripts/run_protocol_reliability.py,                                   *)
(* run_protocol_max_token_sensitivity.py); what an answer is worth         *)
(* (protocol_reliability.py); and the summary of what is on disk.  The     *)
(* second study repeats the contexts whose answers the first cut off, and  *)
(* rests on the summary of the first (protocol_max_token_sensitivity.py).  *)
(*                                                                         *)
(* The runners are started again and again, one at a time, and may die     *)
(* between any two steps.  An answer keeps what its assessment looks at;   *)
(* usage, prompts and intervals are left out.  `made` counts the calls     *)
(* that left the process and belongs to the model.                         *)
(***************************************************************************)
EXTENDS Integers, Sequences, FiniteSets, SequencesExt, FiniteSetsExt

CONSTANTS
    Order,     \* the slots of both studies in the order of their digests
    Study,     \* the study of each slot
    Transport, \* its transport
    Variant,   \* the agent variant of its context
    Threshold, \* stop_after_consecutive_l0_failures
    Replies,   \* what the provider may answer to each slot
    Locks,     \* content hashes a configuration may have
    None

Studies == {"reliability", "sensitivity"}
Transports == {"json_object", "strict_function"}
Slot == ToSet(Order)

\* `name` is the action: in JSON its type and tool, else the function's name;
\* "nested" is an array or an object in its place.  `length`: the answer ended
\* at the token limit.
Message == [carrier : {"ok", "broken", "many"}, name : {"bash", "finish", "other_tool", "unknown", "nested"},
            thought : {"absent", "text", "blank"}, body : {"text", "blank", "wrong"}, length : BOOLEAN]

\* "fatal": an HTTP status no later slot would survive.
Statuses == {"ok", "fatal", "error", "none"}
Reply == [status : Statuses, message : Message \cup {None}, print : {None, "f1", "f2"}]

\* The highest of l0 .. l3 an answer passes, -1 when it passes none; whether it
\* ended at the token limit in the middle of its arguments, or elsewhere.
Call == [level : -1..3, status : Statuses, print : {None, "f1", "f2"},
         length : {"no", "cut", "odd"}]

ASSUME StudyAssumption ==
    /\ Order \in Seq(Slot) /\ IsInjective(Order) /\ Order # <<>>
    /\ Study \in [Slot -> Studies] /\ Transport \in [Slot -> Transports]
    /\ Variant \in [Slot -> {"act-only", "react"}]
    /\ \A s \in Slot : Study[s] = "sensitivity" => Transport[s] = "strict_function" /\ Variant[s] = "react"
    /\ Threshold \in Nat \ {0} /\ Replies \in [Slot -> SUBSET Reply] /\ Locks # {}
    /\ None \notin Message \cup Locks \cup Slot \cup Call \cup {"complete"}

VARIABLES
    lock,    \* the content hash of each configuration
    source,  \* the summary the second configuration names
    dir,     \* the directory of each slot, and its attempt.json
    kept,    \* what the attempt.json of a slot says
    summary, \* the summary of the first study
    made,    \* calls of the provider, per slot
    pc, study, slot, first, second, \* which runner, and its run_slot
    single, limit,                  \* --context-id and --max-slots
    prints, streak, done,           \* what the process remembers
    exit     \* how the last process ended

config == <<lock, source>>
disk == <<dir, kept, summary>>
slotvars == <<slot, first, second>>
memory == <<study, single, limit, prints, streak, done>>
vars == <<config, disk, made, pc, slotvars, memory, exit>>

Attempt == [lock : Locks, first : Call, second : Call \cup {None}]
Raises == 4  \* the assessment of an answer raises

Of(st) == {s \in Slot : Study[s] = st}
Known(st) == {s \in Of(st) : dir[s] = "kept"}
Summary == [lock : Locks, kept : [Of("reliability") -> Attempt \cup {None}]]

TypeOK ==
    /\ lock \in [Studies -> Locks] /\ source \in Summary \cup {None} /\ summary \in Summary \cup {None}
    /\ dir \in [Slot -> {"absent", "open", "torn", "kept"}]
    /\ kept \in [Slot -> Attempt \cup {None}] /\ made \in [Slot -> 0..2]
    /\ pc \in {"idle", "loop", "send", "sent", "keep", "write", "after"}
    /\ study \in Studies \cup {None} /\ slot \in Slot \cup {None}
    /\ first \in Call \cup {None} /\ second \in Call \cup {None}
    /\ single \in Slot \cup {None} /\ limit \in {None, 1}
    /\ prints \in [Transports -> SUBSET {"f1", "f2"}]
    /\ streak \in 0..Len(Order) /\ done \in 0..Len(Order)
    /\ exit \in {None, "complete", "limited", "stopped", "raised"}

Init ==
    /\ lock \in [Studies -> Locks] /\ source = None /\ summary = None
    /\ dir = [s \in Slot |-> "absent"] /\ kept = [s \in Slot |-> None] /\ made = [s \in Slot |-> 0]
    /\ pc = "idle" /\ study = None /\ slot = None /\ first = None /\ second = None
    /\ single = None /\ limit = None
    /\ prints = [t \in Transports |-> {}] /\ streak = 0 /\ done = 0
    /\ exit = None

-----------------------------------------------------------------------------
(* assess_provider_response.  A failure at one level leaves the level      *)
(* below it.                                                               *)

ThoughtFails(message, variant) ==
    message.thought # IF variant = "react" THEN "text" ELSE "absent"

\* The type of an action is looked up in a set: an array or an object raises.
JsonLevel(message, variant) ==
    CASE message.carrier # "ok" -> 0
      [] ThoughtFails(message, variant) -> 1
      [] message.name = "nested" -> Raises
      [] message.name = "unknown" \/ message.body = "wrong" -> 1
      [] message.name = "other_tool" \/ (message.name = "bash" /\ message.body = "blank") -> 2
      [] OTHER -> 3

StrictLevel(message, variant) ==
    CASE message.carrier = "many" -> 1
      [] message.carrier = "broken" \/ message.name = "nested" -> 0
      [] message.name \notin {"bash", "finish"} \/ ThoughtFails(message, variant) \/ message.body = "wrong" -> 1
      [] message.name = "bash" /\ message.body = "blank" -> 2
      [] OTHER -> 3

Level(message, s) ==
    IF Transport[s] = "json_object" THEN JsonLevel(message, Variant[s]) ELSE StrictLevel(message, Variant[s])

\* finish_reason, and where the limit fell.
Length(message) == CASE ~message.length -> "no" [] message.carrier = "broken" -> "cut" [] OTHER -> "odd"

\* No usable response is level -1, and has no metadata either.
Assessed(reply, s) ==
    IF reply.status = "ok" /\ reply.message # None
    THEN [level |-> Level(reply.message, s), status |-> "ok", print |-> reply.print, length |-> Length(reply.message)]
    ELSE [level |-> -1, status |-> reply.status, print |-> None, length |-> "no"]

\* Only a response that failed l1, l2 or l3 is repaired, in the first study.
Repairable(call) == study = "reliability" /\ call.level \in 0..2

-----------------------------------------------------------------------------
(* The matrix.                                                             *)

Calls(attempt) == {attempt.first, attempt.second} \ {None}

\* A runner that looks at the original calls only.
PrintsOfOriginal(attempt) == {attempt.first.print} \ {None}

PrintsOf(attempt) == {call.print : call \in Calls(attempt)} \ {None}

PrintsOnDisk(st) == [t \in Transports |-> UNION {PrintsOf(kept[s]) : s \in {u \in Known(st) : Transport[u] = t}}]
Drifts(p) == \E t \in Transports : Cardinality(p[t]) > 1

\* The strict slots of the first study whose first answer was cut.
StrictSlots == {s \in Of("reliability") : Transport[s] = "strict_function"}
Cut(attempts) == {s \in StrictSlots : attempts[s] # None /\ attempts[s].first.length = "cut"}

\* A check of the second study's sources that looks at the summary only.
SourceHoldsByName == source # None /\ source = summary /\ source.lock = lock["reliability"]

\* verify_source_observations: the summary is the one that was named, and the
\* attempts on disk are complete and cut where they were.
SourceHolds ==
    /\ source # None /\ source = summary /\ source.lock = lock["reliability"]
    /\ \A s \in Of("reliability") : dir[s] # "torn"
    /\ \A s \in Known("reliability") : kept[s].lock = source.lock
    /\ \A s \in StrictSlots : dir[s] = "kept" /\ kept[s].first.length # "odd"
    /\ Cut(kept) = Cut(source.kept)

Exits(how) ==
    /\ pc' = "idle" /\ exit' = how /\ study' = None
    /\ slot' = None /\ first' = None /\ second' = None
    /\ single' = None /\ limit' = None
    /\ prints' = [t \in Transports |-> {}] /\ streak' = 0 /\ done' = 0

\* An attempt.json that is no JSON raises, one of another configuration or a
\* drift stops.
Start(st, s, n) ==
    /\ pc = "idle"
    /\ s # None => Study[s] = st
    /\ IF (st = "sensitivity" /\ ~SourceHolds) \/ (\E u \in Of(st) : dir[u] = "torn") THEN Exits("raised")
       ELSE IF (\E u \in Known(st) : kept[u].lock # lock[st]) \/ Drifts(PrintsOnDisk(st)) THEN Exits("stopped")
       ELSE /\ pc' = "loop" /\ study' = st /\ single' = s /\ limit' = n
            /\ prints' = PrintsOnDisk(st) /\ streak' = 0 /\ done' = 0
            /\ exit' = None
            /\ UNCHANGED slotvars
    /\ UNCHANGED <<config, disk, made>>

Selected(s) == Study[s] = study /\ single \in {None, s}

\* The slots before it are complete.
Due(s) ==
    /\ Selected(s) /\ dir[s] # "kept"
    /\ \A i \in DOMAIN Order : \E j \in DOMAIN Order :
          Order[j] = s /\ (i < j /\ Selected(Order[i]) => dir[Order[i]] = "kept")

LimitReached == limit # None /\ done >= limit

\* A runner that goes on in the directory it finds.
BeginAgain(s) ==
    /\ pc = "loop" /\ ~LimitReached /\ Due(s)
    /\ dir' = [dir EXCEPT ![s] = "open"]
    /\ pc' = "send" /\ slot' = s
    /\ UNCHANGED <<first, second, memory, exit, config, kept, summary, made>>

\* A slot that has a directory and no attempt blocks the study.
Begin(s) ==
    /\ pc = "loop" /\ ~LimitReached /\ Due(s)
    /\ IF dir[s] = "absent"
       THEN /\ dir' = [dir EXCEPT ![s] = "open"]
            /\ pc' = "send" /\ slot' = s
            /\ UNCHANGED <<first, second, memory, exit>>
       ELSE Exits("stopped") /\ UNCHANGED dir
    /\ UNCHANGED <<config, kept, summary, made>>

\* A slot asked for by name is not run again.
Ends ==
    /\ pc = "loop"
    /\ LimitReached \/ \A s \in Slot : ~Due(s)
    /\ Exits(CASE single # None /\ done = 0 -> "stopped"
               [] single = None /\ limit = None -> "complete"
               [] OTHER -> "limited")
    /\ UNCHANGED <<config, disk, made>>

Sends ==
    /\ made' = [made EXCEPT ![slot] = @ + 1]
    /\ pc' = "sent"
    /\ UNCHANGED <<config, disk, slotvars, memory, exit>>

Send == pc = "send" /\ first = None /\ Sends

\* With the failure and the answer in the prompt.
SendRepair == pc = "send" /\ first # None /\ Sends

\* execute_protocol_call, for the original and for the repair.
Receive(reply) ==
    /\ pc = "sent" /\ reply \in Replies[slot]
    /\ LET call == Assessed(reply, slot) IN
       IF call.level = Raises THEN Exits("raised")
       ELSE /\ IF first = None
               THEN first' = call /\ UNCHANGED second /\ pc' = IF Repairable(call) THEN "send" ELSE "keep"
               ELSE second' = call /\ UNCHANGED first /\ pc' = "keep"
            /\ UNCHANGED <<slot, memory, exit>>
    /\ UNCHANGED <<config, disk, made>>

\* A file of the attempt cannot be written.
WriteFails ==
    /\ pc \in {"send", "sent", "keep", "write"}
    /\ Exits("raised")
    /\ UNCHANGED <<config, disk, made>>

\* attempt.json is created, and then written.
Create ==
    /\ pc = "keep"
    /\ dir' = [dir EXCEPT ![slot] = "torn"]
    /\ pc' = "write"
    /\ UNCHANGED <<config, kept, summary, made, slotvars, memory, exit>>

Keep ==
    /\ pc = "write"
    /\ dir' = [dir EXCEPT ![slot] = "kept"]
    /\ kept' = [kept EXCEPT ![slot] = [lock |-> lock[study], first |-> first, second |-> second]]
    /\ pc' = "after"
    /\ UNCHANGED <<config, summary, made, slotvars, memory, exit>>

\* The stop rules, once the attempt is kept.
After ==
    /\ pc = "after"
    /\ LET t == Transport[slot]
           seen == [prints EXCEPT ![t] = @ \cup PrintsOf(kept[slot])]
           failures == IF first.level >= 0 THEN 0 ELSE streak + 1
       IN IF first.status = "fatal" \/ failures >= Threshold \/ Drifts(seen)
          THEN Exits("stopped")
          ELSE /\ pc' = "loop" /\ slot' = None /\ first' = None /\ second' = None
               /\ prints' = seen /\ streak' = failures /\ done' = done + 1
               /\ UNCHANGED <<study, single, limit, exit>>
    /\ UNCHANGED <<config, disk, made>>

Crash ==
    /\ pc # "idle"
    /\ Exits("raised")
    /\ UNCHANGED <<config, disk, made>>

-----------------------------------------------------------------------------
(* The summary.                                                            *)

\* The summary of the second study calls an unfinished slot missing too.
Shown(s) ==
    CASE dir[s] = "absent" -> "missing"
      [] dir[s] = "open" -> IF Study[s] = "reliability" THEN "incomplete" ELSE "missing"
      [] OTHER -> "complete"

Rows(st) == {s \in Of(st) : Shown(s) = "complete"}

\* It raises at an attempt it cannot read, or of another configuration.
Summarizes(st) ==
    /\ \A s \in Rows(st) : dir[s] = "kept" /\ kept[s].lock = lock[st]
    /\ st = "sensitivity" => SourceHolds

Repairs(st) == Cardinality({s \in Rows(st) : kept[s].second # None})

\* What counts for the scheme with a repair, and for the one without.
Effective(attempt, repair) == IF repair /\ attempt.second # None THEN attempt.second ELSE attempt.first
Valid(st, t, repair) == {s \in Rows(st) : Transport[s] = t /\ Effective(kept[s], repair).level = 3}

\* --output of the first study's summary: the file is never written twice.
Summarize ==
    /\ pc = "idle" /\ summary = None /\ Summarizes("reliability")
    /\ summary' = [lock |-> lock["reliability"], kept |-> [s \in Of("reliability") |-> kept[s]]]
    /\ UNCHANGED <<config, dir, kept, made, pc, slotvars, memory, exit>>

\* A configuration is committed; the second names the summary there is.
Commit(st, l) ==
    /\ pc = "idle" /\ (lock[st] # l \/ (st = "sensitivity" /\ source # summary))
    /\ lock' = [lock EXCEPT ![st] = l]
    /\ source' = IF st = "sensitivity" THEN summary ELSE source
    /\ UNCHANGED <<disk, made, pc, slotvars, memory, exit>>

Next ==
    \/ \E st \in Studies, s \in Slot \cup {None}, n \in {None, 1} : Start(st, s, n)
    \/ \E s \in Slot : Begin(s)
    \/ Ends \/ Send \/ SendRepair \/ Create \/ Keep \/ After \/ WriteFails \/ Crash \/ Summarize
    \/ \E reply \in UNION {Replies[s] : s \in Slot} : Receive(reply)
    \/ \E st \in Studies, l \in Locks : Commit(st, l)

Spec == Init /\ [][Next]_vars

-----------------------------------------------------------------------------

\* The summary tells what was paid for: whatever processes died or stopped, a
\* slot the first study shows as missing was never sent, the calls a summary
\* counts are those that left for its complete slots, and a process that ended
\* well, asked for the whole matrix of a study, left nothing of it to do.  The
\* scheme with a repair never loses a valid answer.
SummaryTrue ==
    /\ TypeOK
    /\ exit = "complete" => \E st \in Studies : Rows(st) = Of(st)
    /\ \A s \in Of("reliability") : Shown(s) = "missing" => made[s] = 0
    /\ \A st \in Studies : Summarizes(st) =>
          /\ Cardinality(Rows(st)) + Repairs(st) = MapThenSumSet(LAMBDA s : made[s], Rows(st))
          /\ \A t \in Transports : Valid(st, t, FALSE) \subseteq Valid(st, t, TRUE)

\* "stops before the next slot after ... a different non-empty
\* system_fingerprint within the same transport"
\* (docs/design/protocol-reliability-v1.md): no slot is begun when two calls on
\* disk, of one attempt or of two, tell different prints, or when an attempt is
\* of another configuration, however often the runner died in between.
DriftStops ==
    [][\A st \in Studies : (\E s \in Of(st) : dir[s] = "absent" /\ dir'[s] = "open") =>
       /\ \A s \in Known(st) : kept[s].lock = lock[st]
       /\ \A s, u \in Known(st) : \A c \in Calls(kept[s]), d \in Calls(kept[u]) :
             Transport[s] = Transport[u] => None \in {c.print, d.print} \/ c.print = d.print]_vars

\* "It then proves that the selected five ReAct contexts exactly cover all 21
\* parent Strict original responses" (docs/design/
\* protocol-reliability-v1.1-max-token-sensitivity.md): what the second study
\* keeps was asked when every strict slot of the first had its attempt, of one
\* configuration, cut where the summary it names says, and none of that changes
\* afterwards.
SourceStays ==
    Known("sensitivity") # {} =>
    /\ StrictSlots \subseteq Known("reliability")
    /\ \A s, u \in StrictSlots : kept[s].lock = kept[u].lock
    /\ Cut(kept) = Cut(summary.kept)
=============================================================================

--------------------------- MODULE DeepSeekExchange ---------------------------
(***************************************************************************)
(* The Python gateway to DeepSeek (deepseek_live.py): which provider       *)
(* replies its translation admits, what candidate it makes of one, and     *)
(* which conversations it can send.  A reply and a message keep what these *)
(* decide: the finish reason, whether there is reasoning, content, calls.  *)
(***************************************************************************)
EXTENDS Integers, Sequences, FiniteSets, SequencesExt

CONSTANTS
    MaxBatch,  \* max_tool_calls_per_response
    None       \* no reasoning

Terminals == {"complete", "abstain"}
DomainTools == {"read", "write", "shell", "pty"}

\* `fits`: the arguments are an object of the tool's closed schema.
Call == [id : Nat, tool : DomainTools \cup Terminals, fits : BOOLEAN]

Text == {"none", "empty", "blank", "text", "other"}

\* `sound` is a 2xx JSON envelope with one choice and an assistant message.
Reply == [sound : BOOLEAN, finish : {"stop", "tool_calls", "length"}, reasoning : Text, content : Text, calls : Seq(Call)]

\* canonical messages: a user's, a turn of calls, one result, a final.
Message == [role : {"user", "calls", "result", "final"}, ids : Seq(Nat), reasoning : {None, "blank", "text"}]

User == [role |-> "user", ids |-> <<>>, reasoning |-> None]
Result(id) == [role |-> "result", ids |-> <<id>>, reasoning |-> None]

Ids(calls) == [i \in DOMAIN calls |-> calls[i].id]
HistoricalIds(history) ==
    UNION {ToSet(history[i].ids) : i \in {j \in DOMAIN history : history[j].role = "calls"}}

-----------------------------------------------------------------------------
(* decode_response.  `optional` is allow_optional_reasoning.               *)

\* A response contract that does not ask for the reasoning's text.
BadReasoningLoose(reply, optional) ==
    \/ reply.reasoning = "other"
    \/ ~optional /\ reply.reasoning = "none"

BadReasoning(reply, optional) ==
    \/ reply.reasoning = "other"
    \/ ~optional /\ reply.reasoning \in {"none", "empty"}

BadStop(reply) == reply.calls # <<>> \/ reply.content # "text"

BadCalls(reply, history) ==
    \/ reply.content = "other"
    \/ Len(reply.calls) \notin 1..MaxBatch
    \/ ToSet(Ids(reply.calls)) \cap HistoricalIds(history) # {}
    \/ ~IsInjective(Ids(reply.calls))
    \/ Len(reply.calls) > 1 /\ \E i \in DOMAIN reply.calls : reply.calls[i].tool \in Terminals

\* The tools of the session's profile: the others are unknown.
BadAction(reply, tools) ==
    \E i \in DOMAIN reply.calls : ~reply.calls[i].fits \/ reply.calls[i].tool \notin tools \cup Terminals

Rejects(reply, history, tools, optional) ==
    \/ ~reply.sound \/ reply.finish = "length"
    \/ BadReasoning(reply, optional)
    \/ reply.finish = "stop" /\ BadStop(reply)
    \/ reply.finish = "tool_calls" /\ (BadCalls(reply, history) \/ BadAction(reply, tools))

IsFinal(reply) == reply.finish = "stop" \/ reply.calls[1].tool \in Terminals

\* An empty reasoning is none; a blank one is kept.
Reasoning(reply) == IF reply.reasoning \in {"blank", "text"} THEN reply.reasoning ELSE None

\* The message a candidate becomes in the history.
Turn(reply) ==
    IF IsFinal(reply)
    THEN [role |-> "final", ids |-> <<>>, reasoning |-> Reasoning(reply)]
    ELSE [role |-> "calls", ids |-> Ids(reply.calls), reasoning |-> Reasoning(reply)]

\* AssistantToolCall and AssistantFinalMessage refuse a blank reasoning.
Canonical(message) == message.reasoning # "blank"

-----------------------------------------------------------------------------
(* encode_request: what it raises at.                                      *)

Paired(history) ==
    /\ \A i \in DOMAIN history : history[i].role = "calls" =>
          \A k \in DOMAIN history[i].ids :
             i + k \in DOMAIN history /\ history[i + k] = Result(history[i].ids[k])
    /\ \A j \in DOMAIN history : history[j].role = "result" =>
          \E i \in 1..j - 1 : history[i].role = "calls" /\ j - i <= Len(history[i].ids)

Complete(message, optional) ==
    /\ message.role \in {"calls", "final"} => optional \/ message.reasoning # None
    /\ message.role = "calls" => Len(message.ids) \in 1..MaxBatch

FinalsAnswered(history) ==
    \A i \in DOMAIN history : history[i].role = "final" =>
       i + 1 \in DOMAIN history /\ history[i + 1].role = "user"

Encodable(history, optional) ==
    /\ Paired(history) /\ FinalsAnswered(history)
    /\ \A i \in DOMAIN history : Complete(history[i], optional)
    /\ \A i, j \in DOMAIN history :
          i # j /\ history[i].role = "calls" /\ history[j].role = "calls"
             => ToSet(history[i].ids) \cap ToSet(history[j].ids) = {}
=============================================================================

----------------------------- MODULE MCLiveSession -----------------------------
EXTENDS LiveSession

MCKinds ==
    {[deaf |-> FALSE, holds |-> TRUE, loud |-> TRUE, away |-> FALSE],
     [deaf |-> TRUE, holds |-> FALSE, loud |-> FALSE, away |-> FALSE],
     [deaf |-> TRUE, holds |-> TRUE, loud |-> FALSE, away |-> FALSE],
     [deaf |-> FALSE, holds |-> TRUE, loud |-> FALSE, away |-> TRUE]}

Calls(calls) == [sound |-> TRUE, finish |-> "tool_calls", reasoning |-> "text", content |-> "none", calls |-> calls]
One(id, tool) == [id |-> id, tool |-> tool, fits |-> TRUE]

\* Calls, alone and in a batch, the ends, and what is refused: a reasoning of
\* each kind, an identity used before, a tool the profile has not.
MCReplies ==
    {Calls(<<One(1, "write")>>), Calls(<<One(2, "pty")>>), Calls(<<One(1, "shell")>>),
     Calls(<<One(3, "read"), One(4, "pty")>>),
     [Calls(<<One(1, "write")>>) EXCEPT !.reasoning = "empty"],
     [Calls(<<One(2, "write")>>) EXCEPT !.reasoning = "blank"],
     Calls(<<[One(5, "write") EXCEPT !.fits = FALSE]>>), [Calls(<<One(6, "complete")>>) EXCEPT !.reasoning = "none"],
     [Calls(<<>>) EXCEPT !.finish = "stop", !.content = "text"]}
=============================================================================

---------------------------- MODULE MCGeneralRuntime ----------------------------
EXTENDS GeneralRuntime

MCCovers == [s \in Scopes |-> IF s = "all" THEN Files ELSE {s}]

Data == Seed("data")
Open == [c \in Capabilities |-> {"all"}]

Base ==
    [domain |-> "data", implemented |-> <<TRUE, FALSE>>, selected |-> {1, 2}, repetitions |-> 1,
     runtime |-> Data, caller |-> Data, pack |-> Data, task |-> Data,
     required |-> Active, steps |-> 5, calls |-> 5]

\* The seeds' own tasks; a case of three that is repeated, one that is not
\* eligible and one that is not selected, where the caller keeps a capability
\* back that is not required; an open workspace; a scope that covers the task's
\* but is not its name; no limit left.
MCSetups ==
    {Base,
     [Base EXCEPT !.domain = "coding", !.runtime = Seed("coding"), !.caller = Seed("coding"), !.pack = Seed("coding"),
                  !.task = Seed("coding"), !.calls = 2],
     [Base EXCEPT !.implemented = <<TRUE, FALSE, TRUE>>, !.selected = {2, 3}, !.repetitions = 2, !.calls = 1,
                  !.required = {"write"}, !.caller = [Data EXCEPT !["read"] = {}],
                  !.runtime = [c \in Capabilities |-> Scopes]],
     [Base EXCEPT !.runtime = Open, !.caller = Open, !.pack = Open, !.task = Open, !.calls = 1],
     [Base EXCEPT !.runtime = Open],
     [Base EXCEPT !.steps = 0]}
=============================================================================

---------------------------- MODULE MCProtocolStudy ----------------------------
EXTENDS ProtocolStudy, TLC

Contents == Permutations(Locks)

\* One JSON and two strict slots, and two of the second study.
MCOrder == <<"m1", "s1", "j1", "s2", "m2">>
MCStudy == [s \in Slot |-> IF s \in {"m1", "m2"} THEN "sensitivity" ELSE "reliability"]
MCTransport == [s \in Slot |-> IF s = "j1" THEN "json_object" ELSE "strict_function"]
MCVariant == [s \in Slot |-> IF s = "j1" THEN "act-only" ELSE "react"]

Good(thought) == [carrier |-> "ok", name |-> "bash", thought |-> thought, body |-> "text", length |-> FALSE]
Says(message, print) == [status |-> "ok", message |-> message, print |-> print]
Fails(status) == [status |-> status, message |-> None, print |-> None]
Broken == [Good("text") EXCEPT !.carrier = "broken", !.length = TRUE]

\* Failures of each kind, answers of each level, cut ones and two prints.
MCReplies ==
    [m1 |-> {Fails("none"), Says(Good("text"), "f1")},
     s1 |-> {Fails("fatal"), Says(Broken, "f1"), Says(Good("text"), "f2")},
     j1 |-> {Says(Good("absent"), "f1"), Says([Good("absent") EXCEPT !.body = "blank"], "f1"),
             Says([Good("absent") EXCEPT !.name = "nested"], "f1")},
     s2 |-> {Says(Good("text"), "f1"), Says([Good("text") EXCEPT !.length = TRUE], None)},
     m2 |-> {Fails("error"), Says(Good("text"), "f2")}]
=============================================================================

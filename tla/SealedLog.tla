----------------------------- MODULE SealedLog -----------------------------
(***************************************************************************)
(* What a run archive promises (docs/adr/0015): records are appended one   *)
(* after the other and never lost or rewritten, and one seal, which        *)
(* carries the state the last record settles, ends them.                   *)
(***************************************************************************)
EXTENDS Sequences, SequencesExt

CONSTANTS Body, State, None

VARIABLES log, seal

vars == <<log, seal>>

Init == log = <<>> /\ seal = None

Record(b) ==
    /\ seal = None
    /\ log' = Append(log, b)
    /\ UNCHANGED seal

Seal ==
    /\ seal = None
    /\ log # <<>> /\ Last(log) \in State
    /\ seal' = Last(log)
    /\ UNCHANGED log

Next == Seal \/ \E b \in Body : Record(b)

Spec == Init /\ [][Next]_vars
=============================================================================

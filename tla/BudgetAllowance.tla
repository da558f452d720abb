-------------------------- MODULE BudgetAllowance --------------------------
(***************************************************************************)
(* What typescript/src/execution/README.md promises of the ledger: "atomic *)
(* whole-batch reservations, per-run/enclosing counts".  A reservation is  *)
(* one step that tests both caps and charges both counts; runs join with   *)
(* counts they restored, which the caps do not test.                       *)
(***************************************************************************)
EXTENDS Naturals

CONSTANTS Run, Kind, Count, Limits, Restorable, Outer, NoCap

VARIABLES
    joined, \* the runs that have joined
    limit,  \* the caps of each run
    spent,  \* what each run restored and reserved
    pool    \* what all runs reserved

vars == <<joined, limit, spent, pool>>

Within(n, cap) == cap # NoCap => n <= cap

Init ==
    /\ joined = {}
    /\ limit = [r \in Run |-> [k \in Kind |-> NoCap]]
    /\ spent = [r \in Run |-> [k \in Kind |-> 0]]
    /\ pool = [k \in Kind |-> 0]

Join(r, l, past) ==
    /\ r \notin joined
    /\ joined' = joined \cup {r}
    /\ limit' = [limit EXCEPT ![r] = l]
    /\ spent' = [spent EXCEPT ![r] = past]
    /\ UNCHANGED pool

Reserve(r, k, n) ==
    /\ r \in joined
    /\ Within(spent[r][k] + n, limit[r][k])
    /\ Within(pool[k] + n, Outer[k])
    /\ spent' = [spent EXCEPT ![r][k] = @ + n]
    /\ pool' = [pool EXCEPT ![k] = @ + n]
    /\ UNCHANGED <<joined, limit>>

Next ==
    \/ \E r \in Run, l \in Limits, past \in Restorable : Join(r, l, past)
    \/ \E r \in Run, k \in Kind, n \in Count : Reserve(r, k, n)

Spec == Init /\ [][Next]_vars
=============================================================================

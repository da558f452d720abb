--------------------------- MODULE MCBudgetLedger ---------------------------
(* Two runs, two queued operations and two tickets: enough for a begin, an   *)
(* admission and a foreign settlement to meet in one reservation's await.    *)
EXTENDS BudgetLedger

CONSTANTS Metered

MCCount == {1, 2}
MCLimits == {[model |-> 2, tools |-> Metered]}
MCRestorable == {[model |-> 0, tools |-> 0], [model |-> 1, tools |-> 1]}
MCOuter == [model |-> 2, tools |-> Metered]
=============================================================================

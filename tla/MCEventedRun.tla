------------------------------ MODULE MCEventedRun ------------------------------
EXTENDS EventedRun
MCPolicies ==
    {[semantic |-> FALSE, window |-> NoValue, once |-> FALSE],
     [semantic |-> TRUE, window |-> NoValue, once |-> TRUE],
     [semantic |-> TRUE, window |-> NoValue, once |-> FALSE],
     [semantic |-> TRUE, window |-> 5, once |-> FALSE]}
=============================================================================

---------------------------- MODULE MCExecution ----------------------------
EXTENDS ExecutionController
=============================================================================

----------------------------- MODULE MCExecution -----------------------------
(* The instance of Execution that Execution.cfg gives its constants.        *)
EXTENDS Execution
=============================================================================

-------------------------- MODULE MCAutomationEngine --------------------------
(* Constants for checking AutomationEngine. *)
EXTENDS AutomationEngine

MCPolicies == {NoRetries, [retries |-> 1, disables |-> TRUE]}
MCExecutions == {"x1", "x2"}

=============================================================================

------------------------ MODULE MCAutomationService ------------------------
(* An instance of AutomationService for TLC. *)
EXTENDS AutomationService
=============================================================================

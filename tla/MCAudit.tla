-------------------------------- MODULE MCAudit --------------------------------
(***************************************************************************)
(* Instances of AuditTrail for TLC.                                        *)
(***************************************************************************)
EXTENDS AuditTrailProps, MCPaidCalls
===============================================================================

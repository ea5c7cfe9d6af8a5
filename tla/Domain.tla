------------------------------- MODULE Domain -------------------------------
(***************************************************************************)
(* The enumerations of src/agent_harness/domain.py, shared by every        *)
(* module.  An approval row has no enumeration of its own in the code: its *)
(* three literals are the ones store.py and tools.py write.                *)
(***************************************************************************)

WorkflowStatus == {"pending", "running", "waiting_approval", "succeeded", "failed"}

TaskStatus == {"pending", "running", "waiting_approval", "succeeded", "failed", "blocked"}

ToolCallStatus == {"running", "waiting_approval", "succeeded", "failed", "uncertain"}

RiskLevel == {"read_only", "idempotent_write", "non_idempotent_write"}

ApprovalStatus == {"pending", "approved", "rejected"}
=============================================================================

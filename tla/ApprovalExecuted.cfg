\* Two owners and one approval; nothing fails.
CONSTANTS
  Owner = {o1, o2}
  Tenant = tenant
  Approval = {a1}
  MaxApprovalFaults = 0
  Nobody = Nobody
  NoApproval = NoApproval
SPECIFICATION ApprovalsSpec
CHECK_DEADLOCK FALSE
INVARIANTS
  RejectedIsNotExecuted

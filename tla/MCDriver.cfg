CONSTANTS
  Requests <- MCRequests
  Locks <- MCLocks
  MaxRuns = 2
SPECIFICATION Spec
INVARIANTS TypeOK RejectedLeavesNoTrace SuccessMeansDone LinkedIsGenerated
CHECK_DEADLOCK FALSE

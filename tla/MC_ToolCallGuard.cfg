SPECIFICATION Spec
CONSTANTS
  approved = approved
  refused = refused
  h1 = h1
  h2 = h2
  Hook <- MCHook
  Guard = Guard
  Args <- MCArgs
  BadArgs = BadArgs
  Approved <- MCApproved
  FailClosed = TRUE
  MaxEdits = 2
  MaxCalls = 2
INVARIANTS
  ExecutedIsApproved
PROPERTY AllowIsForLiveArguments

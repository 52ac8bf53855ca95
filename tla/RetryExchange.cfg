\* Retry decisions of two requests sharing one budget.
CONSTANTS
  r1 = r1
  r2 = r2
  Requests <- MCRequests
  MaxBufferedBytes = 2
  BodySizes <- MCBodySizes
  Statuses <- MCStatuses
  InitialBalance = 2
  DepositAmount = 1
  WithdrawAmount = 2
  DataSizes = {1}
  TrailerValues = {0, 14}
  FrameKinds <- MCKinds
  Versions <- MCVersions
  MaxFrames = 2
SYMMETRY Symmetry
SPECIFICATION Spec
INVARIANTS
  TypeOK
  RetriedOnlyReplayable
  RetryAmplificationBounded
  BudgetLedger
PROPERTIES
  RetryOnlyAfterFailure
\* Every request ends: done, bypassed or cancelled.
CHECK_DEADLOCK FALSE

\* The retry layer implements the abstract retry contract.
CONSTANTS
  r1 = r1
  r2 = r2
  Requests <- MCRequests
  MaxBufferedBytes = 2
  BodySizes <- MCBodySizes
  Statuses <- MCStatuses
  InitialBalance = 2
  DepositAmount = 1
  WithdrawAmount = 2
  DataSizes = {1}
  TrailerValues = {0, 14}
  FrameKinds <- MCKinds
  Versions <- MCLiveVersions
  MaxFrames = 2
SYMMETRY Symmetry
SPECIFICATION Spec
PROPERTIES
  RetryContractSpec
\* Every request ends: done, bypassed or cancelled.
CHECK_DEADLOCK FALSE

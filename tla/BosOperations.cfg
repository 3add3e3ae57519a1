CONSTANTS
  Templates = {cos, uan}
  MaxConsecFails = 1
  Timeout = 2
SPECIFICATION BosSpec
INVARIANTS OkMeansSessionsOver FailuresAreReported
PROPERTY EventuallyReturns

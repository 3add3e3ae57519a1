CONSTANTS
  Input <- MCInput
  MaxPushes = 1
  MaxOthers = 1
  InitContainers <- MCInitContainers
  MainContainers <- MCMainContainers
  Kind <- MCKind
  Suffix <- MCSuffix
  Headings <- MCHeadings
  Requests <- MCRequests
  Tables <- MCTables
  Components <- MCComponents
  Asked <- MCAsked
  Retries = 2
SPECIFICATION Spec
INVARIANT ConfigurationsAreWhole
INVARIANT FirstFailureIsNamed
INVARIANT ReportIsFiltered
INVARIANT PasswordsFollowDomains

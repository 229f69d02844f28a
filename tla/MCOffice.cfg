SPECIFICATION Spec
CONSTANTS
  Dispatcher = {d1, d2}
  Batch = 1
  Addressee <- AddresseeOf
  WithEmail = TRUE
  MaxDeaths = 1
  Officer = {o1, o2}
  Granted = {"STANDARD", "ENHANCED"}
  MaxEvents = 4
  MaxDecisions = 4
  MaxEmitted = 2
  Client = {c1, c2}
  CodesPerWindow = 1
  MaxAttempts = 1
  MaxTokens = 4
  Ref = {r1, r2}
  Reader = {w1}
  Window = 0
  MaxTime = 1
  MaxRuns = 1
  Starts <- FirstDueDates
  MaxLength = 26
  MaxRows = 4
  PageSizes = {1, 2}
  MaxChanges = 2
  RuleOrders <- RulesOrders
  MinContributions = 1
  MaxActive = 1
  MinTransactions = 1
  FirstHistories <- Histories
  MaxHappenings = 2
  Process = {p1, p2}
  Limit = 1
  RateWindow = 1
  MaxClock = 2
  MaxLost = 1
  AccountType <- AccountTypes
  Openings <- AnyOpening
  MaxPostings = 2
INVARIANTS
  TypeOK
  DeliveredOnce
  DecisionsRecorded
  RunAccountsForAll
  DatesKeepTheirDay
  PagesCoverTheList
  AssessedInBetween
  AdmittedWithinLimit
  ReportsExplained
PROPERTIES
  SpentStaysSpent
  EveryEventDispatched
\* The bounds are reached, and there is nothing left to do.
CHECK_DEADLOCK FALSE

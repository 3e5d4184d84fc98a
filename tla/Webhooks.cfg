SPECIFICATION FairSpec
CONSTANTS
  e1 = e1
  e2 = e2
  MaxDeliveries = 1
  Endpoints = {e1}
  EndpointOf <- MCSingle
  Moved = {e1}
  Crons = {"cron", "cron2"}
  Tester = "test"
  Limit = 1
  Retries = 1
  MaxFaults = 1
  MaxImports = 1
  NoRow = NoRow
  NoEndpoint = NoEndpoint
  NoSecret = NoSecret
INVARIANTS RetriesAreSpent SuccessIsAcknowledged EnabledEndpointsSign
PROPERTIES ConcludedIsFinal DeliveriesConclude
CHECK_DEADLOCK FALSE

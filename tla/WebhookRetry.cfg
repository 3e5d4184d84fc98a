SPECIFICATION FairSpec
CONSTANTS
  e1 = e1
  e2 = e2
  MaxDeliveries = 2
  Endpoints = {e1, e2}
  EndpointOf <- MCEndpointOf
  Moved = {}
  Crons = {"cron"}
  Tester = "test"
  Limit = 1
  Retries = 1
  MaxFaults = 0
  MaxImports = 0
  NoRow = NoRow
  NoEndpoint = NoEndpoint
  NoSecret = NoSecret
PROPERTIES FailedDeliveriesRetry
CHECK_DEADLOCK FALSE

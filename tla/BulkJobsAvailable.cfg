\* The openapi text taken literally.
CONSTANTS
  Jobs = {j1}
  Workers = {api, wrk}
  ApiProcess = api
  Total = 3
  BATCH_SIZE = 2
  Concurrency = 2
  MaxStalled = 1
SPECIFICATION Spec
INVARIANT AvailableWhenComplete
CHECK_DEADLOCK FALSE

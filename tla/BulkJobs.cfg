\* Three numbers in two batches, the API process and the worker container with a
\* slot each, so that a run that lost its lock keeps its successor waiting; one
\* redelivery.
CONSTANTS
  Jobs = {j1}
  Workers = {api, wrk}
  ApiProcess = api
  Total = 3
  BATCH_SIZE = 2
  Concurrency = 1
  MaxStalled = 1
CONSTRAINT Bounds
SPECIFICATION FairSpec
INVARIANTS TypeOK CompleteIsWhole SentIsWhole CompleteHasFile OneVerdict StoresAgree
PROPERTIES ClientView JobFinishes
CHECK_DEADLOCK FALSE

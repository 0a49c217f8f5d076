\* Three threads at most.  Either 4 jobs that are submitted over and over, or 3,
\* of which two request and read a body of at most 2 chunks.
SPECIFICATION HttpSpec
CONSTANTS
  j1 = j1
  j2 = j2
  j3 = j3
  j4 = j4
  Jobs <- MCJobs
  Workers = {w1, w2, w3}
  NoJob = NoJob
  Scripts <- MCScripts
  Chunks = 2
INVARIANTS
  TypeOK
  CountersAgree
  NobodySleepsOnWork
  QueuedJobsHaveThreads
  BodyInOrder
PROPERTIES
  KeepsPromise

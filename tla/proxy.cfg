CONSTANTS
  s1 = s1
  s2 = s2
  s3 = s3
  d1 = d1
  d2 = d2
  d3 = d3
  Requests <- MCRequests
  Workloads <- MCWorkloads
  WorkloadOf <- MCWorkloadOf
  MaxActive = 2
  MaxWaiting = 2
  WorkloadLimit <- MCWorkloadLimit
SPECIFICATION FairSpec
INVARIANT TypeOK
INVARIANT CountsMatch
INVARIANT EngineBounded
PROPERTY GateHolds
PROPERTY DrainEnds

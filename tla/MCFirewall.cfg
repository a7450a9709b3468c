SPECIFICATION Spec
CONSTANTS
  web = web
  base = base
  lo = lo
  eth = eth
  Width = 2
  MaxPort = 3
  Unset = Unset
  Bare = Bare
  Samples <- AllSamples
  Packets <- ManyPackets
  Interfaces = {lo, eth}
  Profiles = {web, base}
  Rulesets <- Declarations
  Rejected <- Refutations
  TableOf <- OwnTables
  Mains <- AllMains
  FaultKinds = {"command", "probe", "crash", "delete"}
  MaxFaults = 1
  MaxRuns = 2
  Absent = Absent
INVARIANTS
  KernelMatchesFiles
  AppliedProfilesStay
  UndoneMeansBefore
  PlanForesees
  FailsOnlyRefused
  ReadBackTells
CHECK_DEADLOCK FALSE

SPECIFICATION Spec
CONSTANTS
  Unset = Unset
  Declarations <- Profiles
  Foreign <- OtherFiles
  FaultKinds = {"command", "probe", "crash", "others"}
  MaxFaults = 2
INVARIANTS
  OthersRulesKept
  UndoneMeansUnloaded
  PlanForesees
PROPERTIES
  DoneMeansLoaded

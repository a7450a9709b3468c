SPECIFICATION Spec
CONSTANTS
  Versions = {v1, v2, broken}
  Bad = {broken}
  Kinds = {"plain", "indirect", "static", "masked", "missing"}
  FaultKinds = {"command", "crash", "edit"}
  MaxFaults = 2
  None = None
INVARIANTS
  DoneMeansDesired
  DoneMeansServed
  UndoneMeansBefore
  PlanForesees

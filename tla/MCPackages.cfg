SPECIFICATION Spec
CONSTANTS
  app = app
  lib = lib
  web = web
  Names <- Sorted
  Deps <- BothNeedLib
  Managers = {"apt", "dnf"}
  Modes <- ModeChoices
  FaultKinds = {"command", "probe", "locked", "crash", "edit"}
  MaxFaults = 1
  None = None
INVARIANTS
  UndoneMeansBefore
  PlanForesees
PROPERTIES
  CollateralDeclared

SPECIFICATION FairSpec
CONSTANTS
  conf = conf
  drop = drop
  unit = unit
  pkg = pkg
  old = old
  new = new
  newer = newer
  edited = edited
  none = none
  root = root
  admin = admin
  stopped = stopped
  running = running
  r1 = r1
  r2 = r2
  base = base
  site = site
  Profiles = {base}
  Runners = {r1}
  Objects <- TwoFiles
  Services <- NoUnits
  Bodies <- AllBodies
  Metas <- AllMetas
  Absent = none
  Root = root
  Uncaptured = Uncaptured
  StepsOf <- TwoSteps
  RunIds = {1, 2}
  InitHost <- HostAdmin
  Edits <- ByOthers
  Flags = {"local", "force"}
  FaultKinds = {"command", "save", "crash", "edit", "signal"}
  MaxFaults = 2
  ClocksAgree = TRUE
  NoJournal = NoJournal
  Nobody = Nobody
  Outside = Outside
INVARIANTS
  ManualRollbackSparesEdits
PROPERTIES
  CommandsEnd
  InterruptedRunsEndUndone

SPECIFICATION Spec
CONSTANTS
  conf = conf
  drop = drop
  unit = unit
  pkg = pkg
  old = old
  new = new
  newer = newer
  edited = edited
  none = none
  root = root
  admin = admin
  stopped = stopped
  running = running
  r1 = r1
  r2 = r2
  base = base
  site = site
  Profiles = {base}
  Runners = {r1, r2}
  Objects <- ThreeFiles
  Services <- NoUnits
  Bodies <- AllBodies
  Metas <- AllMetas
  Absent = none
  Root = root
  Uncaptured = Uncaptured
  StepsOf <- PairAndOne
  RunIds = {1, 2}
  InitHost <- HostBefore
  Edits = {}
  Flags = {"keep"}
  FaultKinds = {"command", "save", "crash", "signal"}
  MaxFaults = 2
  ClocksAgree = TRUE
  NoJournal = NoJournal
  Nobody = Nobody
  Outside = Outside
INVARIANTS
  TypeOK
  MutualExclusion
  ClaimedWhileReverting
  StoredJournalsComplete
  ChangesRecorded
  UndoneMeansRestored
  ResumeAccepted
  UndoAccepted
PROPERTIES
  JournalsAreStacked

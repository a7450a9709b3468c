SPECIFICATION Spec
CONSTANTS
  conf = conf
  drop = drop
  unit = unit
  pkg = pkg
  old = old
  new = new
  newer = newer
  edited = edited
  none = none
  root = root
  admin = admin
  stopped = stopped
  running = running
  r1 = r1
  r2 = r2
  base = base
  site = site
  Profiles = {base, site}
  Runners = {r1}
  Objects <- UnitAndPackage
  Services <- Units
  Bodies <- AllBodies
  Metas <- AllMetas
  Absent = none
  Root = root
  Uncaptured = Uncaptured
  StepsOf <- PackageAndOverlap
  RunIds = {1, 2, 3}
  InitHost <- HostBefore
  Edits = {}
  Flags = {}
  FaultKinds = {"command", "save", "crash", "signal"}
  MaxFaults = 2
  ClocksAgree = TRUE
  NoJournal = NoJournal
  Nobody = Nobody
  Outside = Outside
INVARIANTS
  JournalsChain
  RevertedMeansRestored
PROPERTIES
  ServicesRevertedLast

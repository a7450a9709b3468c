SPECIFICATION Spec
CONSTANTS
  c1 = c1
  c2 = c2
  p600 = p600
  p644 = p644
  root = root
  admin = admin
  la = la
  lb = lb
  CR = CR
  LF = LF
  Characters = {la, lb, CR, LF}
  Texts <- SomeTexts
  MaxLines = 3
  PreviewLimit = 2
  Contents = {c1, c2}
  Perms = {p600, p644}
  SetUid = {FALSE, TRUE}
  Owners = {root, admin}
  Root = root
  Unset = Unset
  Gone = Gone
  Uncaptured = Uncaptured
  Profiles <- AllProfiles
  MaxFaults = 2
  ProbesLie = TRUE
INVARIANTS
  DoneMeansDesired
  UndoneMeansBefore
  UndoSucceeds
  PlanForesees
  DiffShowsEdits

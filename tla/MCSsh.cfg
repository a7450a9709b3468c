SPECIFICATION Spec
CONSTANTS
  pubkey = pubkey
  x11 = x11
  yes = yes
  no = no
  Keys <- MCKeys
  Values <- MCValues
  KeyAuth = pubkey
  Yes = yes
  Unset = Unset
  Wants <- MCWants
  Rejected <- MCRejected
  Rests <- MCRests
  FaultKinds = {"command", "crash", "edit", "reload"}
  MaxFaults = 3
INVARIANTS
PROPERTIES
  KeyAuthKept
  DoneMeansServed
  UndoneMeansBefore

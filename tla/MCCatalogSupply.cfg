SPECIFICATION Spec
CONSTANTS
  base = base
  reported = reported
  Candidate  = {base, reported}
  Shipped    = {base}
  Reported   = {reported}
  Fetcher    = {f1, f2}
  MaxRecords = 3
  MaxTime    = 2
  f1 = f1
  f2 = f2
  None = None
  Torn = Torn
INVARIANTS FactsHaveEvidence UpdatesAreInstallable
PROPERTIES InstallsSignedAndNewer
CHECK_DEADLOCK FALSE
SYMMETRY Fetches

\* Two map attempts of one job, one of which fetches first, and a limit that
\* the two of them exceed.
SPECIFICATION FairSpec
CONSTANTS
  j1 = j1
  j2 = j2
  j3 = j3
  t1 = t1
  t2 = t2
  t3 = t3
  c1 = c1
  f1 = f1
  NoIdentity = NoIdentity
  Jobs = {j1}
  Tasks = {t1, t2}
  JobOf <- OneJobOf
  Readers = {t2}
  MapTasks = {t1, t2}
  Persisting = {t1}
  Units = 2
  Limit = 4
  Identities = {c1}
  IdentityOf <- OneIdentityOf
  Fingerprints = {f1}
  FingerprintOf <- OneFingerprintOf
  MaxRestarts = 1
INVARIANTS TypeOK BudgetSound OutputKept CleanedReleased IInv
PROPERTIES CleanupServed
CHECK_DEADLOCK FALSE

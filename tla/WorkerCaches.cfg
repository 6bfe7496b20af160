\* Three jobs on one worker, two of them with the same reusable cache.
SPECIFICATION Spec
CONSTANTS
  j1 = j1
  j2 = j2
  j3 = j3
  t1 = t1
  t2 = t2
  t3 = t3
  c1 = c1
  f1 = f1
  NoIdentity = NoIdentity
  Jobs = {j1, j2, j3}
  Tasks = {t1, t2, t3}
  JobOf <- ThreeJobOf
  Readers = {}
  MapTasks = {t3}
  Persisting = {t1}
  Units = 1
  Limit = 4
  Identities = {c1}
  IdentityOf <- ThreeIdentityOf
  Fingerprints = {f1}
  FingerprintOf <- ThreeFingerprintOf
  MaxRestarts = 0
INVARIANTS CacheShared
PROPERTY NoFilesPulled
CHECK_DEADLOCK FALSE

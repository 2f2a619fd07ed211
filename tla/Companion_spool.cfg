SPECIFICATION CompanionSpec
CONSTANTS
  r1 = r1  r2 = r2
  t1 = t1  t2 = t2
  Report = {r1, r2}
  Task = {t1, t2}
  Retention = 1
  MaxBody = 1
INVARIANTS AckedIsReceived WorkHasOwner
PROPERTIES EvidenceKept
SYMMETRY CompanionSymmetry

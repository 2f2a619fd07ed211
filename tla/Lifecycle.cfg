SPECIFICATION FairLifecycleSpec
CONSTANTS
  r1 = r1
  t1 = t1  d = d
  Report = {r1}
  Task = {t1, d}
  Drainer = d
  Retention = 0
  MaxBody = 1
PROPERTIES PlayedIsReceived SessionEnds

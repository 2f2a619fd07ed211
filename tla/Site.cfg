SPECIFICATION SiteSpec
CONSTANTS
  u1 = u1  u2 = u2  u3 = u3
  s1 = s1  s2 = s2  s3 = s3  t1 = t1
  base = base  base2 = base2  p1 = p1  p2 = p2  p3 = p3
  kim = kim  lee = lee  max = max  zed = zed
  e1 = e1  e2 = e2
  r1 = r1  r2 = r2
  User = {u1, u2, u3}
  Session = {s1, s2, s3, t1}
  UserOf <- MCUserOf
  Slug = {base, base2, p1, p2, p3}
  Candidates <- MCCandidates
  Name = {kim, lee, max, zed}
  Event = {e1, e2}
  Operation <- MCOperation
  Workload <- MCWorkload
  Request = {r1, r2}
  NoSlug = NoSlug  NoName = NoName  NoEvent = NoEvent
  MaxTime = 4
  MaxFail = 2
INVARIANTS SignedOutSoon OneAccountPerUser RacesBounded AnsweredSeat OrganizerIsStaff
SYMMETRY RequestSymmetry
CHECK_DEADLOCK FALSE

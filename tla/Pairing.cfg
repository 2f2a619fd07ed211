SPECIFICATION FairPairSpec
CONSTANTS
  A = A  B = B
  i1 = i1
  c1 = c1  c2 = c2
  h1 = h1  h2 = h2
  Account = {A, B}
  Inst = {i1}
  Code = {c1, c2}
  Call = {h1, h2}
  MaxIssue = 2
  MaxFail = 1
  NoAccount = NoAccount  NoCode = NoCode  NoInst = NoInst  NoCall = NoCall
INVARIANTS CredentialApproved SingleUse RevokeIsFinal StoredCredentialLives
PROPERTIES ApprovalIsFinal PairEnds
CHECK_DEADLOCK FALSE

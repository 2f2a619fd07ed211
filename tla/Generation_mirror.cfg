SPECIFICATION FairGenSpec
CONSTANTS
  A = A  B = B  C = C
  a1 = a1  b1 = b1  c1 = c1
  m1 = m1  m2 = m2
  iA = iA  iB = iB  iC = iC
  n1 = n1  n2 = n2
  x = x  z = z
  r1 = r1  r2 = r2
  Account = {A, B, C}
  Character = {a1, b1, c1}
  Owner <- MCOwner
  Match = {m1, m2}
  Doc <- MirrorDoc
  Report <- MirrorReport
  Installation = {iA, iB, iC}
  Nonce = {n1, n2}
  Claim = {x, z}
  WinnerOf <- MCWinnerOf
  Mismatched <- MirrorOnly
  Credential <- PairCredential
  Request = {r1}
  Tier0 <- AllWitnessed
  Crashes = FALSE
  NoInst = NoInst  NoDoc = NoDoc  NoReport = NoReport  NoClaim = NoClaim  NoCred = NoCred
  NoWinner = NoWinner  NoMatch = NoMatch
PROPERTIES EventuallyCounted

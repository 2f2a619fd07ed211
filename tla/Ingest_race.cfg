SPECIFICATION Spec
CONSTANTS
  A = A  B = B  C = C
  a1 = a1  a2 = a2  b1 = b1  c1 = c1
  m1 = m1  m2 = m2
  iA = iA  iB = iB  iC = iC
  n1 = n1  n2 = n2
  x = x  y = y
  r1 = r1  r2 = r2
  Account = {A, B, C}
  Character = {a1, a2, b1, c1}
  Owner <- MCOwner
  Match = {m1, m2}
  Doc <- DuelDoc
  Report <- DuelReport
  Installation = {iA, iB, iC}
  Nonce = {n1, n2}
  Claim = {x, y}
  Credential <- DuelCredential
  Request = {r1, r2}
  Tier0 <- AllWitnessed
  Crashes = TRUE
  NoInst = NoInst  NoDoc = NoDoc  NoReport = NoReport  NoClaim = NoClaim  NoCred = NoCred
INVARIANTS OneRowPerNonce RatedOnlyWhenAgreed HeldOnlyWhenContested GamesAreAgreed
PROPERTIES ReceiptImmutable VerdictNeverFlips ImplementsEvidenceLog
SYMMETRY HandlerSymmetry

SPECIFICATION FairUpdSpec
CONSTANTS
  i1 = i1  i2 = i2
  n1 = n1
  k1 = k1
  Inst = {i1, i2}
  Nonce = {n1}
  Home = i1
  Row = {k1}
  MaxGen = 2
  Standing <- MCStanding
  Sync = {1, 2}
  Verdict = {"awaiting_peer", "corroborated"}
  MaxReceipts = 1
  MaxChanges = 2
INVARIANTS AckIsGenuine DisplayIsRecent LabelNotBefore
PROPERTIES CaughtUp
CHECK_DEADLOCK FALSE

SPECIFICATION OpeningsSpec
CONSTANTS
  Vaults = {home}
  Runs = {first, second}
  Verdicts = {upheld}
  Salts = {salt, pepper}
  MaxFaults = 2
  Scorers = {s1, s2}
  Modules = {m1, m2}
  Scores = {88, 101}
  NoHash = NoHash
  NoOpening = NoOpening
INVARIANTS SentIsRevealable RevealedOnChain ProtocolCommitmentsOpen
PROPERTY CommitmentsOpen
CHECK_DEADLOCK FALSE

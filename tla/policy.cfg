SPECIFICATION StorySpec
CONSTANTS
  a = a
  b = b
  g = g
  r = r
  Passports <- MCPassports
  Submitters = {a}
  Evidence <- MCEvidence
  Challenges <- MCChallenges
  Groups = {g}
  Runners = {r}
  RecordLists <- MCRecordLists
  PassportSybilMedium = 2
  PassportSybilHigh = 3
  ModuleSpamBlockWindow = 2
  ModuleSpamHigh = 3
  ValidatorCollusionHigh = 2
  MaxBlock = 5
  MaxInputs = 5
INVARIANTS PolicyIsGrounded SpamIsAFullWindow
PROPERTY GatesOnlyTighten
CHECK_DEADLOCK FALSE

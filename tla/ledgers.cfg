SPECIFICATION LedgersSpec
CONSTANTS
  p = p
  o = o
  Passports = {p}
  Owners = {o}
  Policies <- MCPolicies
  Reasons <- MCReasons
  Slips = {0, 5}
  MaxOperations = 3
  MaxActions = 2
  Holders = {o1, o2}
  Challenges <- MCChallenges
  Slack = 1
  MaxCheckpoints = 2
  MaxRecords = 2
  Kinds = {kind1, kind2}
  Schemas = {schema1, schema2}
  Texts = {text}
  Accounts = {owner, other}
  Owner = owner
  Statuses = {"Draft", "Canonical", "Rejected"}
  MaxEvents = 4
  Digests = {one, another}
  MaxFiles = 4
INVARIANTS
  EachActionOnce CreditAgrees
  CheckpointsAgree
  AuditedKindsAgree
  ClaimsAreSound
CHECK_DEADLOCK FALSE

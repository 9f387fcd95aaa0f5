SPECIFICATION ReportsSpec
CONSTANTS
  Owners = {o1, o2}
  Keys = {k1, k2, k3}
  Metadata = {m1}
  MaxEvents = 4
  Validators = {v1, v2, v3}
  VerdictHashes = {h1, h2}
  ReportHashes = {t1}
  Quorums = {2, 3}
  MaxDrafts = 1
  v1 = v1
  v2 = v2
  Accounts = {v1, v2}
  Files <- EvidenceFiles
  MaxEvidence = 2
  MaxChallenges = 2
  MaxBundle = 2
SYMMETRY VerdictHashSymmetry
INVARIANTS
  HistoriesAgree
  ReportsTellTheEnd HonestReportPasses
  OutcomesAgree HighConfidenceIsEarned
CHECK_DEADLOCK FALSE

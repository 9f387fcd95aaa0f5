SPECIFICATION SmallSpec
CONSTANTS
    owner = owner
    rep = rep
    chal = chal
    reg1 = reg1
    mod = mod
    b1 = b1
    g1 = g1
    why = why
    Accounts = {owner, rep, chal}
    Owner = owner
    Validators = {rep}
    Registries = {reg1}
    NoAddress = NoAddress
    Candidates = {chal, reg1}
    Modules = {mod}
    Bundles = {b1}
    Groups = {g1, g2}
    NoGroup = NoGroup
    Reasons = {why}
    Windows = {0, 1}
    EvidenceIds <- MCEvidence
    ChallengeIds <- MCChallenges
    AdjudicatorConfirmationDelay = 1
    MaxTime = 2
INVARIANTS
    ReportBackedByEvidence
    ValidatorReportsQualified
    PenalisedOnce
    ChallengedInWindow
    ReputationMatchesLog
PROPERTIES
    DisputesAreFinal
CHECK_DEADLOCK FALSE

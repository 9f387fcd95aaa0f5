SPECIFICATION DeployedSpec
CONSTANTS
    owner = owner
    rep = rep
    chal = chal
    reg1 = reg1
    reg2 = reg2
    mod = mod
    b1 = b1
    g1 = g1
    why = why
    v2 = v2
    Accounts = {owner, rep, chal, v1}
    Owner = owner
    Validators = {v1}
    Registries = {reg1, reg2}
    NoAddress = NoAddress
    Candidates = {reg2}
    Modules = {mod}
    Bundles = {b1}
    Groups = {g1}
    NoGroup = NoGroup
    Reasons = {why}
    Windows = {0}
    EvidenceIds <- Evidences
    ChallengeIds <- Challenges
    AdjudicatorConfirmationDelay = 1
    MaxTime = 6
    MinQuorum = 1
    MaxQuorum = 2
    DefaultQuorum = 1
    QuorumInputs = {1}
    ResponsePeriod = 1
    CommitPeriod = 1
    RevealPeriod = 1
    theRegistry = reg1
    theChallenge <- Challenged
PROPERTIES
    LegacyBlockedOnceStarted
CHECK_DEADLOCK FALSE

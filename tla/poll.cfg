SPECIFICATION DeployedSpec
CONSTANTS
    owner = owner
    rep = rep
    chal = chal
    reg1 = reg1
    reg2 = reg2
    mod = mod
    b1 = b1
    g1 = g1
    why = why
    v2 = v2
    Accounts = {owner, rep, chal, v1, v2, v3}
    Owner = owner
    Validators = {v1, v2, v3}
    Registries = {reg1}
    NoAddress = NoAddress
    Candidates = {}
    Modules = {mod}
    Bundles = {b1}
    Groups = {g1}
    NoGroup = NoGroup
    Reasons = {why}
    Windows = {0}
    EvidenceIds <- Evidences
    ChallengeIds <- Challenges
    AdjudicatorConfirmationDelay = 1
    MaxTime = 7
    MinQuorum = 2
    MaxQuorum = 3
    DefaultQuorum = 3
    QuorumInputs = {1, 2, 3, 4}
    ResponsePeriod = 1
    CommitPeriod = 2
    RevealPeriod = 1
    theRegistry = reg1
    theChallenge <- Challenged
INVARIANTS
    TypeOK
    Blinded
    VerdictsAreCommitted
    AnnouncedDeadlinesHold
    QuorumBacked
PROPERTIES
    ClosedForGood
    ImplementsSealedBallot
SYMMETRY ValidatorSymmetry
CHECK_DEADLOCK FALSE

SPECIFICATION SmallSpec
CONSTANTS
    foundation = foundation
    adj = adj
    rep = rep
    chal = chal
    mod = mod
    b1 = b1
    why = why
    why2 = why2
    Addresses = {foundation, adj, rep, chal}
    Foundation = {foundation}
    Adjudicators = {adj}
    Voters = {rep, chal}
    Responders = {rep}
    Modules = {mod}
    Bundles = {b1}
    Groups = {g1}
    NoGroup = NoGroup
    Windows = {0, 1}
    EvidenceIds <- Filings
    ChallengeIds <- MCChallenges
    MinQuorum = 1
    MaxQuorum = 2
    DefaultQuorum = 2
    QuorumInputs = {0, 1, 2, 3}
    ResponsePeriod = 1
    CommitPeriod = 1
    RevealPeriod = 1
    Nobody = Nobody
    thePoll <- Dispute
    MaxTime = 5
INVARIANTS
    Blinded
    CountStands
    RecordsAgree
PROPERTIES
    DisputesAreFinal
    PollIsSealedBallot
    PollsClose
CHECK_DEADLOCK FALSE

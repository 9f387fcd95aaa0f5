---------------------------- MODULE MCConsortium ----------------------------
(***************************************************************************)
(* A small instance of ConsortiumAdjudication.  A behaviour is one of      *)
(* filing: a sender, who may be profiled, files evidence of every type; or *)
(* of voting: a receipt is challenged in the first block, or not at all,   *)
(* and its reporter and the challenger vote; or of resolving: two accounts *)
(* challenge the receipt and nobody votes.                                 *)
(***************************************************************************)
EXTENDS ConsortiumAdjudication

CONSTANTS foundation, adj, rep, chal, mod, b1, why, why2

Receipt == EvidenceId(mod, b1, rep, "UserSignedReceipt")
Filings == {EvidenceId(m, b1, rep, t) : m \in Modules, t \in EvidenceTypes}
Dispute == [evidence |-> Receipt, challenger |-> chal, reason |-> why]
Second  == [evidence |-> Receipt, challenger |-> rep, reason |-> why2]

MCChallenges == {Dispute, Second}

-----------------------------------------------------------------------------
NothingElseFiled ==
    /\ modules = {} /\ reports = {}
    /\ profiles = [a \in Addresses |-> NoProfile]
    /\ \A e \in EvidenceIds \ {Receipt} : evidence[e] = NoEvidence
    /\ evidence[Receipt].window = 0 /\ evidence[Receipt].group = NoGroup

Filing ==
    /\ now <= 2
    /\ challenges = [c \in ChallengeIds |-> NoChallenge]
    /\ \A v \in Voters \ {rep} : profiles[v] = NoProfile
    /\ PollInit

Voting ==
    /\ NothingElseFiled
    /\ challenges[Dispute].submittedAt <= 1
    /\ challenges[Second] = NoChallenge /\ polls[Second] = NoPoll

Resolving ==
    /\ NothingElseFiled
    /\ \A c \in ChallengeIds : challenges[c].submittedAt <= 1
    /\ polls[Second].responseSubmittedAt = 0
    /\ \A c \in ChallengeIds, v \in Voters : commitments[c][v] = NoCommitment

\* Which of them a behaviour is, is open until a call decides it.
SmallSpec == Init /\ [][Next /\ (Filing \/ Voting \/ Resolving)']_vars /\ Fairness

=============================================================================

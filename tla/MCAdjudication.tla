--------------------------- MODULE MCAdjudication ---------------------------
(***************************************************************************)
(* Small instances of ChallengeAdjudication.  Most runs start where the    *)
(* deployment scripts leave the chain, DeployedInit: validators registered *)
(* and profiled, one receipt, one challenge of it, reg1 the adjudicator.   *)
(***************************************************************************)
EXTENDS AdjudicationBallot, TLC

CONSTANTS owner, rep, chal, reg1, reg2, mod, b1, g1, why

Receipt   == EvidenceId(mod, b1, rep, "UserSignedReceipt")
Challenged == ChallengeId(Receipt, chal, why)
Evidences  == {Receipt}
Challenges == {Challenged}

\* The state after: registerIdentity and setValidatorProfile for every
\* validator, submitModule, submitEvidence and proposeAdjudicator(reg1) at time
\* 1, confirmAdjudicator and submitChallenge one delay later.
DeployedInit ==
    /\ now = 1 + AdjudicatorConfirmationDelay
    /\ identities = [v \in Validators |-> "Validator"]
    /\ modules = Modules
    /\ adjudicator = reg1
    /\ pendingAdjudicator = NoAddress
    /\ adjudicatorProposedAt = 0
    /\ validatorProfiles = [v \in Validators |->
            [exists |-> TRUE, allowed |-> TRUE, group |-> g1]]
    /\ reports = {}
    /\ evidence = [e \in EvidenceIds |->
            [status |-> "Active", group |-> g1, window |-> 0]]
    /\ challenges = [c \in ChallengeIds |->
            [status |-> "Submitted", submittedAt |-> now, resolvedAt |-> 0]]
    /\ alreadyInvalidated = {}
    /\ testnetReputation = [a \in Accounts |-> 0]
    /\ adjudicationStarted = [r \in Registries |-> {}]
    /\ PollInit

DeployedSpec == DeployedInit /\ [][Next]_vars

ValidatorSymmetry == Permutations(Validators)

-----------------------------------------------------------------------------
(* The end of a challenge, in one of two stories: the owner hands the      *)
(* registry over to a second contract while one validator votes in both;   *)
(* or the first contract stays, two validators vote in it and its quorum   *)
(* changes.                                                                *)
CONSTANT v2

OneVoter ==
    /\ \A r \in Registries : quorum[r] = DefaultQuorum
    /\ \A r \in Registries : commitments[r][Challenged][v2] = NoCommitment
    /\ validatorProfiles[v2] = [exists |-> TRUE, allowed |-> TRUE, group |-> g1]

\* Anyone may still expire the empty poll of the second contract.
OneContract ==
    /\ adjudicator = reg1 /\ pendingAdjudicator = NoAddress
    /\ quorum[reg2] = DefaultQuorum
    /\ adjudications[reg2][Challenged].responseSubmittedAt = 0
    /\ \A v \in Validators : commitments[reg2][Challenged][v] = NoCommitment

EndingSpec ==
    DeployedInit /\ [][Next /\ (OneVoter \/ OneContract)']_vars /\ Fairness
=============================================================================

----------------------- MODULE MCVerificationRegistry -----------------------
(***************************************************************************)
(* A small instance of VerificationRegistry.  A behaviour is one of        *)
(* filing: a prospective validator and the owner file evidence of every    *)
(* type about one module, and nothing is challenged; or one of disputes:   *)
(* the reporter and the challenger file a receipt each, the first is       *)
(* challenged by both, the second by the reporter, and the adjudicator may *)
(* change.                                                                 *)
(***************************************************************************)
EXTENDS VerificationRegistry

CONSTANTS owner, rep, chal, reg1, mod, b1, g1, why

Receipt(a) == EvidenceId(mod, b1, a, "UserSignedReceipt")

Filed ==
    {EvidenceId(mod, b1, rep, t) : t \in EvidenceTypes \ {"FoundationSeedReport"}}
        \cup {EvidenceId(mod, b1, owner, "FoundationSeedReport")}

Disputed == {Receipt(rep), Receipt(chal)}

MCEvidence == Filed \cup Disputed

MCChallenges == {ChallengeId(Receipt(rep), a, why) : a \in {chal, rep}}
                    \cup {ChallengeId(Receipt(chal), rep, why)}

-----------------------------------------------------------------------------
Filing ==
    /\ now = 1
    /\ adjudicator = NoAddress /\ pendingAdjudicator = NoAddress
    /\ \A e \in EvidenceIds : evidence[e].window = 0
    /\ \A c \in ChallengeIds : challenges[c] = NoChallenge
    /\ evidence[Receipt(chal)] = NoEvidence

Disputing ==
    /\ \A v \in Validators : identities[v] = "Unknown" /\ validatorProfiles[v] = NoProfile
    /\ reports = {}
    /\ \A e \in EvidenceIds \ Disputed : evidence[e] = NoEvidence
    /\ \A e \in Disputed : evidence[e].group \in {NoGroup, g1}

\* Which of the two a behaviour is, is open until a call decides it.
SmallSpec == RegistryInit /\ [][RegistryNext /\ (Filing \/ Disputing)']_registryVars

=============================================================================

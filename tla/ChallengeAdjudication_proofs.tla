-------------------- MODULE ChallengeAdjudication_proofs --------------------
(***************************************************************************)
(* Proofs about ChallengeAdjudication, for any number of contracts,        *)
(* validators and challenges and any periods: its types, its votes, its    *)
(* results, that challenges end, and that each adjudication is a           *)
(* SealedBallot.                                                           *)
(***************************************************************************)
EXTENDS AdjudicationBallot, VerificationRegistry_proofs

-----------------------------------------------------------------------------
(* Types                                                                     *)

\* Votes can be counted.
LEMMA CountType ==
    ASSUME NEW r \in Registries, NEW c \in ChallengeIds, NEW claim
    PROVE  EffectiveVerdictCount(r, c, claim) \in Nat
<1>1. IsFiniteSet(Validators)
  BY FS_Subset, AddressAssumption
<1>2. IsFiniteSet(Voters(r, c, claim))
  BY <1>1, FS_Subset DEF Voters
<1>3. QED BY <1>2, FS_CardinalityType DEF EffectiveVerdictCount

\* The deadlines of a poll are times, and later than the challenge.
LEMMA DeadlineTypes ==
    ASSUME TypeOK, NEW r \in Registries, NEW c \in ChallengeIds
    PROVE  /\ AdjudicationDeadlines(r, c) \in Deadlines
           /\ AdjudicationDeadlines(r, c).responseBy > challenges[c].submittedAt
           /\ AdjudicationDeadlines(r, c).commitBy < AdjudicationDeadlines(r, c).revealBy
           /\ AdjudicationDeadlines(r, c) # NoDeadlines
<1>1. /\ challenges[c].submittedAt \in Nat
      /\ adjudications[r][c].responseSubmittedAt \in Nat
  BY DEF TypeOK, RegistryTypeOK, Challenge, Adjudication
<1>2. QED BY <1>1, PeriodAssumption DEF AdjudicationDeadlines, Deadlines, NoDeadlines

\* A new contract has no votes.
LEMMA PollInitTypes == RegistryTypeOK /\ PollInit => TypeOK
<1>1. NoAdjudication \in Adjudication
  BY DEF NoAdjudication, Adjudication, NoDeadlines, Deadlines
<1>2. NoCommitment \in Commitment /\ NoVerdict \in Verdict
  BY DEF NoCommitment, Commitment, NoVerdict, Verdict
<1>3. QED BY <1>1, <1>2, QuorumAssumption DEF PollInit, TypeOK

\* Writing well-typed values into an adjudication record, transaction by
\* transaction.
LEMMA RespondedType ==
    ASSUME NEW adj \in Adjudication, NEW m \in Nat, NEW n \in Nat
    PROVE  [adj EXCEPT !.responseSubmittedAt = n, !.responseCount = m] \in Adjudication
BY DEF Adjudication

LEMMA CommittedType ==
    ASSUME NEW adj \in Adjudication, NEW m \in Nat, NEW d \in Deadlines
    PROVE  [adj EXCEPT !.commitmentCount = m, !.announced = d] \in Adjudication
BY DEF Adjudication

LEMMA RevealedType ==
    ASSUME NEW adj \in Adjudication, NEW m \in Nat
    PROVE  [adj EXCEPT !.revealCount = m] \in Adjudication
BY DEF Adjudication

LEMMA FinalizedType ==
    ASSUME NEW adj \in Adjudication, NEW m \in Nat, NEW n \in Nat, NEW claim \in Verdicts
    PROVE  [adj EXCEPT !.finalized = TRUE, !.outcome = claim, !.finalizedAt = n,
                       !.effectiveVerdictCount = m] \in Adjudication
BY DEF Adjudication

LEMMA ExpiredType ==
    ASSUME NEW adj \in Adjudication, NEW n \in Nat
    PROVE  [adj EXCEPT !.expired = TRUE, !.expiredAt = n] \in Adjudication
BY DEF Adjudication

\* A stored adjudication record can be read, and its counters counted up.
LEMMA StoredAdjudication ==
    ASSUME TypeOK, NEW r \in Registries, NEW c \in ChallengeIds
    PROVE  /\ adjudications[r][c] \in Adjudication
           /\ adjudications[r][c].responseCount + 1 \in Nat
           /\ adjudications[r][c].commitmentCount + 1 \in Nat
           /\ adjudications[r][c].revealCount + 1 \in Nat
           /\ adjudications[r][c].announced \in Deadlines
           /\ now \in Nat
<1>1. adjudications[r][c] \in Adjudication /\ now \in Nat
  BY DEF TypeOK, RegistryTypeOK
<1>2. QED BY <1>1 DEF Adjudication

\* Storing a well-typed record.
LEMMA SetTypes ==
    ASSUME TypeOK, NEW r \in Registries, NEW c \in ChallengeIds, NEW adj \in Adjudication,
           SetAdjudication(r, c, adj)
    PROVE  adjudications' \in [Registries -> [ChallengeIds -> Adjudication]]
BY DEF TypeOK, SetAdjudication

\* Marking a challenge as started.
LEMMA StartTypes ==
    ASSUME RegistryTypeOK, NEW r \in Registries, NEW c \in ChallengeIds, Start(r, c),
           UNCHANGED <<now, adjudicatorVars, peopleVars, intakeVars, disputeVars>>
    PROVE  RegistryTypeOK'
BY DEF Start, RegistryTypeOK, adjudicatorVars, peopleVars, intakeVars, disputeVars

\* Every transaction of an adjudication contract keeps all the types.
LEMMA PollTypes ==
    ASSUME TypeOK, NEW r \in Registries, PollCall(r)
    PROVE  TypeOK'
<1>0. ASSUME UNCHANGED registryVars PROVE RegistryTypeOK'
  BY <1>0 DEF registryVars, adjudicatorVars, peopleVars, intakeVars, disputeVars,
              TypeOK, RegistryTypeOK
<1>1. ASSUME NEW a \in Accounts, NEW q \in QuorumInputs, SetQuorum(a, r, q)
      PROVE  TypeOK'
  BY <1>0, <1>1 DEF SetQuorum, LegalQuorum, TypeOK
<1>2. ASSUME NEW a \in Accounts, NEW c \in ChallengeIds, SubmitResponse(a, r, c)
      PROVE  TypeOK'
  <2>1. RegistryTypeOK'
    BY <1>2, StartTypes DEF SubmitResponse, TypeOK
  <2>2. [adjudications[r][c] EXCEPT !.responseSubmittedAt = now, !.responseCount = @ + 1]
            \in Adjudication
    BY StoredAdjudication, RespondedType
  <2>3. adjudications' \in [Registries -> [ChallengeIds -> Adjudication]]
    BY <1>2, <2>2, SetTypes DEF SubmitResponse
  <2>4. QED BY <1>2, <2>1, <2>3 DEF SubmitResponse, TypeOK
<1>3. ASSUME NEW v \in Validators, NEW c \in ChallengeIds, NEW b \in Bindings,
             CommitVerdict(v, r, c, b)
      PROVE  TypeOK'
  <2>1. RegistryTypeOK'
    BY <1>3, StartTypes DEF CommitVerdict, TypeOK
  <2>2. Announcement(r, c) \in Deadlines
    BY StoredAdjudication, DeadlineTypes DEF Announcement
  <2>3. [adjudications[r][c] EXCEPT !.commitmentCount = @ + 1,
                                    !.announced = Announcement(r, c)] \in Adjudication
    BY <2>2, StoredAdjudication, CommittedType
  <2>4. adjudications' \in [Registries -> [ChallengeIds -> Adjudication]]
    BY <1>3, <2>3, SetTypes DEF CommitVerdict
  <2>5. [binds |-> b, committedAt |-> now, revealed |-> FALSE] \in Commitment
    BY StoredAdjudication DEF Commitment
  <2>6. commitments' \in [Registries -> [ChallengeIds -> [Validators -> Commitment]]]
    BY <1>3, <2>5 DEF CommitVerdict, TypeOK
  <2>7. QED BY <1>3, <2>1, <2>4, <2>6 DEF CommitVerdict, TypeOK
<1>4. ASSUME NEW v \in Validators, NEW c \in ChallengeIds, NEW claim \in Verdicts,
             RevealVerdict(v, r, c, claim)
      PROVE  TypeOK'
  <2>1. [adjudications[r][c] EXCEPT !.revealCount = @ + 1] \in Adjudication
    BY StoredAdjudication, RevealedType
  <2>2. adjudications' \in [Registries -> [ChallengeIds -> Adjudication]]
    BY <1>4, <2>1, SetTypes DEF RevealVerdict
  <2>3. VerdictRecord(v, claim) \in Verdict
    BY StoredAdjudication DEF VerdictRecord, Verdict, TypeOK, RegistryTypeOK, Profile
  <2>4. verdicts' \in [Registries -> [ChallengeIds -> [Validators -> Verdict]]]
    BY <1>4, <2>3 DEF RevealVerdict, TypeOK
  <2>5. commitments' \in [Registries -> [ChallengeIds -> [Validators -> Commitment]]]
    <3>1. [commitments[r][c][v] EXCEPT !.revealed = TRUE] \in Commitment
      <4>1. commitments[r][c][v] \in Commitment
        BY DEF TypeOK
      <4>2. QED BY <4>1 DEF Commitment
    <3>2. commitments' = [commitments EXCEPT ![r][c][v] =
                            [commitments[r][c][v] EXCEPT !.revealed = TRUE]]
      BY <1>4 DEF RevealVerdict
    <3>3. QED BY <3>1, <3>2 DEF TypeOK
  <2>6. QED BY <1>0, <1>4, <2>2, <2>4, <2>5 DEF RevealVerdict, TypeOK
<1>5. ASSUME NEW c \in ChallengeIds, NEW claim \in Verdicts, FinalizeChallenge(r, c, claim)
      PROVE  TypeOK'
  <2>1. RegistryTypeOK'
    BY <1>5, SettleTypes
       DEF FinalizeChallenge, ResolveChallengeFromAdjudicator, TypeOK, RegistryTypeOK
  <2>2. [adjudications[r][c] EXCEPT !.finalized = TRUE, !.outcome = claim,
            !.finalizedAt = now,
            !.effectiveVerdictCount = EffectiveVerdictCount(r, c, claim)] \in Adjudication
    BY StoredAdjudication, CountType, FinalizedType
  <2>3. adjudications' \in [Registries -> [ChallengeIds -> Adjudication]]
    BY <1>5, <2>2, SetTypes DEF FinalizeChallenge
  <2>4. QED BY <1>5, <2>1, <2>3 DEF FinalizeChallenge, TypeOK
<1>6. ASSUME NEW c \in ChallengeIds, ExpireChallengeNoQuorum(r, c)
      PROVE  TypeOK'
  <2>1. [adjudications[r][c] EXCEPT !.expired = TRUE, !.expiredAt = now] \in Adjudication
    BY StoredAdjudication, ExpiredType
  <2>2. adjudications' \in [Registries -> [ChallengeIds -> Adjudication]]
    BY <1>6, <2>1, SetTypes DEF ExpireChallengeNoQuorum
  <2>3. QED BY <1>0, <1>6, <2>2 DEF ExpireChallengeNoQuorum, TypeOK
<1>7. QED BY PollCall(r), <1>1, <1>2, <1>3, <1>4, <1>5, <1>6 DEF PollCall

\* A step of the registry alone.
LEMMA RegistryStepTypes ==
    ASSUME TypeOK, RegistryStep
    PROVE  TypeOK'
BY CallTypes, TickTypes DEF TypeOK, RegistryStep, pollVars

LEMMA StutterTypes ==
    ASSUME TypeOK, UNCHANGED vars
    PROVE  TypeOK'
BY DEF TypeOK, vars, pollVars, registryVars, adjudicatorVars, peopleVars, intakeVars,
       disputeVars, RegistryTypeOK

\* Every variable keeps its type, and the quorum its legal range.
THEOREM TypeCorrect == Spec => []TypeOK
<1>1. Init => TypeOK
  BY InitTypes, PollInitTypes DEF Init
<1>2. TypeOK /\ [Next]_vars => TypeOK'
  BY PollTypes, RegistryStepTypes, StutterTypes DEF Next
<1>3. QED BY <1>1, <1>2, PTL DEF Spec

-----------------------------------------------------------------------------
(* The registry among these adjudication contracts.                        *)

\* A transaction of an adjudication contract is, for the registry, a start on an
\* open challenge, a call that settles one, or nothing.
LEMMA PollIsContract ==
    ASSUME NEW r \in Registries, PollCall(r)
    PROVE  AdjudicationContract(r) \/ UNCHANGED registryVars
<1>1. ASSUME NEW a \in Accounts, NEW q \in QuorumInputs, SetQuorum(a, r, q)
      PROVE  UNCHANGED registryVars
  BY <1>1 DEF SetQuorum
<1>2. ASSUME NEW a \in Accounts, NEW c \in ChallengeIds, SubmitResponse(a, r, c)
      PROVE  AdjudicationContract(r)
  BY <1>2 DEF SubmitResponse, Adjudicable, Start, AdjudicationContract
<1>3. ASSUME NEW v \in Validators, NEW c \in ChallengeIds, NEW b \in Bindings,
             CommitVerdict(v, r, c, b)
      PROVE  AdjudicationContract(r)
  BY <1>3 DEF CommitVerdict, Adjudicable, Start, AdjudicationContract
<1>4. ASSUME NEW v \in Validators, NEW c \in ChallengeIds, NEW claim \in Verdicts,
             RevealVerdict(v, r, c, claim)
      PROVE  UNCHANGED registryVars
  BY <1>4 DEF RevealVerdict
<1>5. ASSUME NEW c \in ChallengeIds, NEW claim \in Verdicts, FinalizeChallenge(r, c, claim)
      PROVE  AdjudicationContract(r)
  BY <1>5 DEF FinalizeChallenge, AdjudicationContract
<1>6. ASSUME NEW c \in ChallengeIds, ExpireChallengeNoQuorum(r, c)
      PROVE  UNCHANGED registryVars
  BY <1>6 DEF ExpireChallengeNoQuorum
<1>7. QED BY PollCall(r), <1>1, <1>2, <1>3, <1>4, <1>5, <1>6 DEF PollCall

LEMMA StepIsRegistryStep ==
    ASSUME [Next]_vars
    PROVE  [RegistryNext]_registryVars
<1>1. CASE RegistryStep
  BY <1>1 DEF RegistryStep, RegistryNext
<1>2. CASE \E r \in Registries : PollCall(r)
  BY <1>2, PollIsContract DEF RegistryNext
<1>3. CASE UNCHANGED vars
  BY <1>3 DEF vars
<1>4. QED BY <1>1, <1>2, <1>3 DEF Next

\* The adjudication contracts do to the registry what it relies on, and no more.
THEOREM RegistryReliance == Spec => RegistryReliesRightly
<1>1. [Next]_vars => [RegistryNext]_registryVars
  BY StepIsRegistryStep
<1>2. QED BY <1>1, PTL DEF Spec, RegistryReliesRightly

\* The composed system is a registry among contracts it can rely on.
THEOREM ImplementsRegistry == Spec => RegistrySpec
<1>1. Init => RegistryInit
  BY DEF Init
<1>2. [Next]_vars => [RegistryNext]_registryVars
  BY StepIsRegistryStep
<1>3. QED BY <1>1, <1>2, PTL DEF Spec, RegistrySpec

\* So what is proved of the registry holds of the whole, for instance that the
\* reputation adds up when challenges are settled by votes.
COROLLARY ReputationAddsUpWithVotes == Spec => []ReputationMatchesLog
BY ImplementsRegistry, ReputationAddsUp

-----------------------------------------------------------------------------
(* The votes are blind, bound to their commitments and on time, and an     *)
(* announced deadline stands.  None of the three invariants is inductive:  *)
(* the deadlines are computed from a challenge that may not exist yet and a *)
(* response that may still come.  PollInv adds what excludes both: a poll is *)
(* untouched before its challenge is submitted, and once a commitment has  *)
(* announced the deadlines no response is possible any more.               *)
(*                                                                         *)
(* The results agree with the registry, are backed by a quorum, are final, *)
(* and are the only way to settle what the current adjudicator has started *)
(* on.  Their invariant joins the agreement with the count: a challenge that *)
(* some contract finalized carries a verdict, so every later transaction   *)
(* about it, in any contract, finds it no longer Submitted.                *)

\* A poll nobody has sent a transaction to.
Untouched(r, c) ==
    /\ adjudications[r][c] = NoAdjudication
    /\ \A v \in Validators : /\ commitments[r][c][v] = NoCommitment
                             /\ verdicts[r][c][v] = NoVerdict

\* One validator's vote: opened iff there is a verdict, inside both windows.
VoteInv(r, c, v) ==
    /\ commitments[r][c][v].revealed <=> Revealed(r, c, v)
    /\ Committed(r, c, v) =>
            /\ adjudications[r][c].announced # NoDeadlines
            /\ challenges[c].submittedAt <= commitments[r][c][v].committedAt
            /\ commitments[r][c][v].committedAt <= AdjudicationDeadlines(r, c).commitBy
            /\ identities[v] = "Validator"
    /\ Revealed(r, c, v) =>
            /\ verdicts[r][c][v].claim = commitments[r][c][v].binds
            /\ verdicts[r][c][v].revealedAt > AdjudicationDeadlines(r, c).commitBy
            /\ verdicts[r][c][v].revealedAt <= AdjudicationDeadlines(r, c).revealBy
            /\ verdicts[r][c][v].revealedAt <= now

PollInv(r, c) ==
    /\ challenges[c].status = "Unknown" => Untouched(r, c)
    /\ challenges[c].status # "Unknown" => challenges[c].submittedAt <= now
    /\ adjudications[r][c].announced # NoDeadlines =>
            /\ adjudications[r][c].announced = AdjudicationDeadlines(r, c)
            /\ ~ ResponseOpen(r, c)
    /\ \A v \in Validators : VoteInv(r, c, v)

VotesInv == TypeOK /\ \A r \in Registries, c \in ChallengeIds : PollInv(r, c)

-----------------------------------------------------------------------------
(* What the registry may do to a poll                                        *)

\* Time does not run backwards and an identity keeps its role.
WorldAdvances ==
    /\ now' = now \/ now' = now + 1
    /\ \A v \in Validators : identities[v] = "Validator" => identities'[v] = "Validator"

\* A challenge is submitted, settled or left alone.
ChallengeAdvances(c) ==
    \/ UNCHANGED challenges[c]
    \/ /\ challenges[c].status = "Unknown"
       /\ challenges'[c].status = "Submitted"
       /\ challenges'[c].submittedAt = now
       /\ now' = now
    \/ /\ challenges[c].status = "Submitted"
       /\ challenges'[c].status \in Verdicts
       /\ challenges'[c].submittedAt = challenges[c].submittedAt

\* Settling a challenge does nothing else to a poll.
LEMMA SettleEffect ==
    ASSUME TypeOK, NEW d \in ChallengeIds, NEW verdict \in Verdicts,
           SettleChallenge(d, verdict)
    PROVE  WorldAdvances /\ \A c \in ChallengeIds : ChallengeAdvances(c)
<1>1. WorldAdvances
  BY DEF SettleChallenge, WorldAdvances, peopleVars
<1>2. challenges \in [ChallengeIds -> Challenge]
  BY DEF TypeOK, RegistryTypeOK
<1>3. ASSUME NEW c \in ChallengeIds
      PROVE  ChallengeAdvances(c)
  <2>1. challenges[d] \in Challenge /\ challenges[d].status = "Submitted"
    BY <1>2 DEF SettleChallenge, Unresolved
  <2>2. challenges' = [challenges EXCEPT ![d] =
                            [challenges[d] EXCEPT !.status = verdict, !.resolvedAt = now]]
    BY DEF SettleChallenge
  <2>3. [challenges[d] EXCEPT !.status = verdict, !.resolvedAt = now].status = verdict
    BY <2>1 DEF Challenge
  <2>4. [challenges[d] EXCEPT !.status = verdict, !.resolvedAt = now].submittedAt
            = challenges[d].submittedAt
    BY <2>1 DEF Challenge
  <2>5. CASE c = d
    BY <1>2, <2>1, <2>2, <2>3, <2>4, <2>5 DEF ChallengeAdvances
  <2>6. CASE c # d
    BY <1>2, <2>2, <2>6 DEF ChallengeAdvances
  <2>7. QED BY <2>5, <2>6
<1>4. QED BY <1>1, <1>3

\* Neither does any other transaction of the registry, nor time.
LEMMA RegistryEffect ==
    ASSUME TypeOK, RegistryCall \/ Tick
    PROVE  WorldAdvances /\ \A c \in ChallengeIds : ChallengeAdvances(c)
<1> USE DEF adjudicatorVars, peopleVars, intakeVars, disputeVars
<1>1. ASSUME UNCHANGED <<now, peopleVars, challenges>>
      PROVE  WorldAdvances /\ \A c \in ChallengeIds : ChallengeAdvances(c)
  BY <1>1 DEF WorldAdvances, ChallengeAdvances
<1>2. CASE Tick
  BY <1>2 DEF Tick, WorldAdvances, ChallengeAdvances
<1>3. ASSUME NEW v \in Validators, NEW role \in Roles, RegisterIdentity(v, role)
      PROVE  WorldAdvances /\ \A c \in ChallengeIds : ChallengeAdvances(c)
  BY <1>3 DEF RegisterIdentity, WorldAdvances, ChallengeAdvances, TypeOK, RegistryTypeOK
<1>4. ASSUME NEW m \in Modules, SubmitModule(m)
      PROVE  UNCHANGED <<now, peopleVars, challenges>>
  BY <1>4 DEF SubmitModule
<1>5. ASSUME NEW a \in Accounts, NEW v \in Validators, NEW g \in Groups, NEW ok \in BOOLEAN,
             SetValidatorProfile(a, v, g, ok)
      PROVE  WorldAdvances /\ \A c \in ChallengeIds : ChallengeAdvances(c)
  BY <1>5 DEF SetValidatorProfile, WorldAdvances, ChallengeAdvances
<1>6. ASSUME NEW a \in Accounts, NEW x \in Candidates, ProposeAdjudicator(a, x)
      PROVE  UNCHANGED <<now, peopleVars, challenges>>
  BY <1>6 DEF ProposeAdjudicator
<1>7. ASSUME NEW a \in Accounts, ConfirmAdjudicator(a)
      PROVE  UNCHANGED <<now, peopleVars, challenges>>
  BY <1>7 DEF ConfirmAdjudicator
<1>8. ASSUME NEW a \in Accounts, NEW m \in Modules, NEW b \in Bundles, SubmitReport(a, m, b)
      PROVE  UNCHANGED <<now, peopleVars, challenges>>
  BY <1>8 DEF SubmitReport
<1>9. ASSUME NEW a \in Accounts, NEW m \in Modules, NEW b \in Bundles, NEW t \in EvidenceTypes,
             NEW g \in Groups, NEW w \in Windows, SubmitEvidence(a, m, b, t, g, w)
      PROVE  UNCHANGED <<now, peopleVars, challenges>>
  BY <1>9 DEF SubmitEvidence
<1>10. ASSUME NEW a \in Accounts, NEW e \in EvidenceIds, InvalidateEvidence(a, e)
       PROVE  UNCHANGED <<now, peopleVars, challenges>>
  BY <1>10 DEF InvalidateEvidence
<1>11. ASSUME NEW a \in Accounts, NEW e \in EvidenceIds, NEW reason \in Reasons,
              SubmitChallenge(a, e, reason)
       PROVE  WorldAdvances /\ \A c \in ChallengeIds : ChallengeAdvances(c)
  BY <1>11 DEF SubmitChallenge, WorldAdvances, ChallengeAdvances, TypeOK, RegistryTypeOK
<1>12. ASSUME NEW a \in Accounts, NEW c \in ChallengeIds, NEW v \in Verdicts,
              ResolveChallenge(a, c, v) \/ ResolveChallengeFromAdjudicator(a, c, v)
       PROVE  WorldAdvances /\ \A d \in ChallengeIds : ChallengeAdvances(d)
  BY <1>12, SettleEffect DEF ResolveChallenge, ResolveChallengeFromAdjudicator
<1>13. QED
  BY RegistryCall \/ Tick, <1>1, <1>2, <1>3, <1>4, <1>5, <1>6, <1>7, <1>8, <1>9, <1>10,
     <1>11, <1>12 DEF RegistryCall

-----------------------------------------------------------------------------
(* PollInv is inductive                                                      *)

\* A poll keeps its invariant while only the world around it changes.
LEMMA PollFrame ==
    ASSUME VotesInv, NEW r \in Registries, NEW c \in ChallengeIds,
           WorldAdvances, ChallengeAdvances(c),
           UNCHANGED <<adjudications[r][c], commitments[r][c], verdicts[r][c]>>
    PROVE  PollInv(r, c)'
<1> USE DEF VotesInv
<1>1. PollInv(r, c) /\ now \in Nat
      /\ challenges[c].submittedAt \in Nat
      /\ adjudications[r][c].responseSubmittedAt \in Nat
  BY DEF TypeOK, RegistryTypeOK, Challenge, Adjudication
<1>2. CASE challenges[c].status = "Unknown"
  <2>1. Untouched(r, c) /\ Untouched(r, c)'
    BY <1>1, <1>2 DEF PollInv, Untouched
  <2>2. challenges'[c].status # "Unknown" => challenges'[c].submittedAt <= now'
    BY <1>1, <1>2 DEF ChallengeAdvances
  <2>3. adjudications'[r][c].announced = NoDeadlines
    BY <2>1 DEF Untouched, NoAdjudication
  <2>4. \A v \in Validators : VoteInv(r, c, v)'
    BY <2>1 DEF Untouched, VoteInv, Committed, Revealed, NoCommitment, NoVerdict
  <2>5. QED BY <2>1, <2>2, <2>3, <2>4 DEF PollInv
<1>3. CASE challenges[c].status # "Unknown"
  <2>1. /\ challenges'[c].submittedAt = challenges[c].submittedAt
        /\ challenges'[c].status # "Unknown"
    BY <1>3 DEF ChallengeAdvances, Verdicts
  <2>2. AdjudicationDeadlines(r, c)' = AdjudicationDeadlines(r, c)
    BY <2>1 DEF AdjudicationDeadlines
  <2>3. now' >= now /\ now' \in Nat
    BY <1>1 DEF WorldAdvances
  <2>4. ~ ResponseOpen(r, c) => ~ ResponseOpen(r, c)'
    BY <1>1, <2>2, <2>3, DeadlineTypes DEF ResponseOpen, Deadlines
  <2>5. challenges'[c].submittedAt <= now'
    BY <1>1, <1>3, <2>1, <2>3 DEF PollInv
  <2>6. \A v \in Validators : VoteInv(r, c, v)'
    <3> SUFFICES ASSUME NEW v \in Validators PROVE VoteInv(r, c, v)'
      OBVIOUS
    <3>1. VoteInv(r, c, v) /\ verdicts[r][c][v].revealedAt \in Nat
      BY <1>1 DEF PollInv, TypeOK, Verdict
    <3>2. verdicts[r][c][v].revealedAt <= now => verdicts[r][c][v].revealedAt <= now'
      BY <1>1, <2>3, <3>1
    <3>3. QED BY <2>1, <2>2, <3>1, <3>2 DEF VoteInv, Committed, Revealed, WorldAdvances
  <2>7. QED BY <1>1, <2>1, <2>2, <2>4, <2>5, <2>6 DEF PollInv
<1>4. QED BY <1>2, <1>3

\* A transaction of contract r about challenge d leaves every other poll alone.
LEMMA OtherPolls ==
    ASSUME VotesInv, NEW r \in Registries, NEW d \in ChallengeIds,
           WorldAdvances, \A c \in ChallengeIds : ChallengeAdvances(c),
           \A q \in Registries, c \in ChallengeIds : q # r \/ c # d =>
                UNCHANGED <<adjudications[q][c], commitments[q][c], verdicts[q][c]>>,
           PollInv(r, d)'
    PROVE  \A q \in Registries, c \in ChallengeIds : PollInv(q, c)'
BY PollFrame

\* A response comes before the first commitment, so the deadlines it moves are
\* nobody's yet.
LEMMA ResponseKeepsVotes ==
    ASSUME VotesInv, NEW r \in Registries, NEW d \in ChallengeIds, NEW a \in Accounts,
           SubmitResponse(a, r, d)
    PROVE  \A q \in Registries, c \in ChallengeIds : PollInv(q, c)'
<1> DEFINE old == adjudications[r][d]
           new == adjudications'[r][d]
<1>1. PollInv(r, d) /\ old \in Adjudication /\ challenges[d].status = "Submitted"
      /\ now \in Nat \ {0}
  BY DEF VotesInv, TypeOK, RegistryTypeOK, SubmitResponse, Adjudicable
<1>2. UNCHANGED <<now, identities, challenges, commitments, verdicts>>
  BY DEF SubmitResponse, peopleVars, disputeVars
<1>3. new = [old EXCEPT !.responseSubmittedAt = now, !.responseCount = old.responseCount + 1]
  BY DEF SubmitResponse, SetAdjudication, VotesInv, TypeOK
<1>4. new.responseSubmittedAt = now /\ new.announced = old.announced
  BY <1>1, <1>3 DEF Adjudication
<1>5. old.announced = NoDeadlines
  BY <1>1 DEF PollInv, SubmitResponse
<1>6. \A v \in Validators : ~ Committed(r, d, v) /\ ~ Revealed(r, d, v)
  <2> SUFFICES ASSUME NEW v \in Validators PROVE ~ Committed(r, d, v) /\ ~ Revealed(r, d, v)
    OBVIOUS
  <2>1. VoteInv(r, d, v)
    BY <1>1 DEF PollInv
  <2>2. QED BY <1>5, <2>1 DEF VoteInv, Committed, Revealed
<1>7. \A v \in Validators : VoteInv(r, d, v)'
  BY <1>1, <1>2, <1>6 DEF PollInv, VoteInv, Committed, Revealed
<1>8. PollInv(r, d)'
  BY <1>1, <1>2, <1>4, <1>5, <1>7 DEF PollInv
<1>9. \A q \in Registries, c \in ChallengeIds : q # r \/ c # d =>
            UNCHANGED <<adjudications[q][c], commitments[q][c], verdicts[q][c]>>
  BY <1>2 DEF SubmitResponse, SetAdjudication, VotesInv, TypeOK
<1>10. WorldAdvances /\ \A c \in ChallengeIds : ChallengeAdvances(c)
  BY <1>2 DEF WorldAdvances, ChallengeAdvances
<1>11. QED BY <1>8, <1>9, <1>10, OtherPolls

\* A commitment is accepted when no response can come any more, announces the
\* deadlines, and is timed by them.
LEMMA CommitKeepsVotes ==
    ASSUME VotesInv, NEW r \in Registries, NEW d \in ChallengeIds, NEW w \in Validators,
           NEW b \in Bindings, CommitVerdict(w, r, d, b)
    PROVE  \A q \in Registries, c \in ChallengeIds : PollInv(q, c)'
<1> DEFINE old == adjudications[r][d]
           new == adjudications'[r][d]
<1>1. PollInv(r, d) /\ old \in Adjudication /\ challenges[d].status = "Submitted"
      /\ now \in Nat \ {0}
  BY DEF VotesInv, TypeOK, RegistryTypeOK, CommitVerdict, Adjudicable
<1>2. UNCHANGED <<now, identities, challenges, verdicts>>
  BY DEF CommitVerdict, peopleVars, disputeVars
<1>3. new = [old EXCEPT !.commitmentCount = old.commitmentCount + 1,
                        !.announced = Announcement(r, d)]
  BY DEF CommitVerdict, SetAdjudication, VotesInv, TypeOK
<1>4. new.responseSubmittedAt = old.responseSubmittedAt /\ new.announced = Announcement(r, d)
  BY <1>1, <1>3 DEF Adjudication
<1>5. Announcement(r, d) = AdjudicationDeadlines(r, d)
      /\ AdjudicationDeadlines(r, d)' = AdjudicationDeadlines(r, d)
      /\ AdjudicationDeadlines(r, d) # NoDeadlines
  BY <1>1, <1>2, <1>4, DeadlineTypes DEF Announcement, PollInv, AdjudicationDeadlines, VotesInv
<1>6. ~ ResponseOpen(r, d)'
  BY <1>2, <1>4, <1>5 DEF CommitVerdict, CommitOpen, ResponseOpen
<1>7. commitments'[r][d] = [commitments[r][d] EXCEPT ![w] =
            [binds |-> b, committedAt |-> now, revealed |-> FALSE]]
  BY DEF CommitVerdict, VotesInv, TypeOK
<1>8. commitments[r][d] \in [Validators -> Commitment] /\ verdicts[r][d][w] \in Verdict
  BY DEF VotesInv, TypeOK
<1>9. ~ Revealed(r, d, w)
  <2>1. VoteInv(r, d, w) /\ commitments[r][d][w].binds = "None"
    BY <1>1 DEF PollInv, CommitVerdict
  <2>2. QED BY <2>1 DEF VoteInv, Revealed
<1>10. ASSUME NEW v \in Validators PROVE VoteInv(r, d, v)'
  <2>1. VoteInv(r, d, v)
    BY <1>1 DEF PollInv
  <2>2. CASE v = w
    <3>1. commitments'[r][d][v] = [binds |-> b, committedAt |-> now, revealed |-> FALSE]
      BY <1>7, <1>8, <2>2
    <3>2. ~ Revealed(r, d, v)'
      BY <1>2, <1>9, <2>2 DEF Revealed
    <3>3. /\ challenges'[d].submittedAt <= commitments'[r][d][v].committedAt
          /\ commitments'[r][d][v].committedAt <= AdjudicationDeadlines(r, d)'.commitBy
      BY <1>1, <1>2, <1>5, <3>1 DEF PollInv, CommitVerdict, CommitOpen
    <3>4. identities'[v] = "Validator"
      BY <1>2, <2>2 DEF CommitVerdict, MayVote, IsQualifiedValidator
    <3>5. QED BY <1>4, <1>5, <3>1, <3>2, <3>3, <3>4 DEF VoteInv
  <2>3. CASE v # w
    <3>1. commitments'[r][d][v] = commitments[r][d][v]
      BY <1>7, <1>8, <2>3
    <3>2. QED BY <1>2, <1>4, <1>5, <2>1, <3>1 DEF VoteInv, Committed, Revealed
  <2>4. QED BY <2>2, <2>3
<1>11. PollInv(r, d)'
  BY <1>1, <1>2, <1>4, <1>5, <1>6, <1>10 DEF PollInv
<1>12. \A q \in Registries, c \in ChallengeIds : q # r \/ c # d =>
            UNCHANGED <<adjudications[q][c], commitments[q][c], verdicts[q][c]>>
  BY <1>2 DEF CommitVerdict, SetAdjudication, VotesInv, TypeOK
<1>13. WorldAdvances /\ \A c \in ChallengeIds : ChallengeAdvances(c)
  BY <1>2 DEF WorldAdvances, ChallengeAdvances
<1>14. QED BY <1>11, <1>12, <1>13, OtherPolls

\* A verdict is what its validator sealed, and comes after the commit deadline.
LEMMA RevealKeepsVotes ==
    ASSUME VotesInv, NEW r \in Registries, NEW d \in ChallengeIds, NEW w \in Validators,
           NEW claim \in Verdicts, RevealVerdict(w, r, d, claim)
    PROVE  \A q \in Registries, c \in ChallengeIds : PollInv(q, c)'
<1> DEFINE old == adjudications[r][d]
           new == adjudications'[r][d]
           com == commitments[r][d][w]
<1>1. PollInv(r, d) /\ old \in Adjudication /\ challenges[d].status = "Submitted"
      /\ now \in Nat \ {0}
  BY DEF VotesInv, TypeOK, RegistryTypeOK, RevealVerdict, Adjudicable
<1>2. UNCHANGED <<now, identities, challenges>>
  BY DEF RevealVerdict, registryVars, peopleVars, disputeVars
<1>3. new = [old EXCEPT !.revealCount = old.revealCount + 1]
  BY DEF RevealVerdict, SetAdjudication, VotesInv, TypeOK
<1>4. new.responseSubmittedAt = old.responseSubmittedAt /\ new.announced = old.announced
  BY <1>1, <1>3 DEF Adjudication
<1>5. AdjudicationDeadlines(r, d)' = AdjudicationDeadlines(r, d)
  BY <1>2, <1>4 DEF AdjudicationDeadlines
<1>6. commitments[r][d] \in [Validators -> Commitment] /\ verdicts[r][d] \in [Validators -> Verdict]
  BY DEF VotesInv, TypeOK
<1>7. commitments'[r][d] = [commitments[r][d] EXCEPT ![w] = [com EXCEPT !.revealed = TRUE]]
  BY DEF RevealVerdict, VotesInv, TypeOK
<1>8. verdicts'[r][d] = [verdicts[r][d] EXCEPT ![w] = VerdictRecord(w, claim)]
  BY DEF RevealVerdict, VotesInv, TypeOK
<1>9. com \in Commitment /\ com.binds = claim
  BY <1>6 DEF RevealVerdict, Opens
<1>10. ASSUME NEW v \in Validators PROVE VoteInv(r, d, v)'
  <2>1. VoteInv(r, d, v)
    BY <1>1 DEF PollInv
  <2>2. CASE v = w
    <3>1. commitments'[r][d][v] = [com EXCEPT !.revealed = TRUE]
      BY <1>6, <1>7, <2>2
    <3>2. /\ commitments'[r][d][v].binds = claim
          /\ commitments'[r][d][v].committedAt = com.committedAt
          /\ commitments'[r][d][v].revealed = TRUE
      BY <1>9, <3>1 DEF Commitment
    <3>3. verdicts'[r][d][v] = VerdictRecord(w, claim)
      BY <1>6, <1>8, <2>2
    <3>4. verdicts'[r][d][v].claim = claim /\ verdicts'[r][d][v].revealedAt = now
      BY <3>3 DEF VerdictRecord
    <3>5. /\ verdicts'[r][d][v].revealedAt > AdjudicationDeadlines(r, d)'.commitBy
          /\ verdicts'[r][d][v].revealedAt <= AdjudicationDeadlines(r, d)'.revealBy
      BY <1>5, <3>4 DEF RevealVerdict, RevealOpen
    <3>6. Committed(r, d, v) /\ Revealed(r, d, v)'
      BY <1>9, <2>2, <3>4 DEF Committed, Revealed, Verdicts
    <3>7. verdicts'[r][d][v].revealedAt <= now'
      BY <1>1, <1>2, <3>4
    <3>8. QED BY <1>2, <1>4, <1>5, <2>1, <2>2, <3>2, <3>4, <3>5, <3>6, <3>7
              DEF VoteInv, Committed
  <2>3. CASE v # w
    <3>1. commitments'[r][d][v] = commitments[r][d][v] /\ verdicts'[r][d][v] = verdicts[r][d][v]
      BY <1>6, <1>7, <1>8, <2>3
    <3>2. QED BY <1>2, <1>4, <1>5, <2>1, <3>1 DEF VoteInv, Committed, Revealed
  <2>4. QED BY <2>2, <2>3
<1>11. ResponseOpen(r, d)' <=> ResponseOpen(r, d)
  BY <1>2, <1>4, <1>5 DEF ResponseOpen
<1>12. PollInv(r, d)'
  BY <1>1, <1>2, <1>4, <1>5, <1>10, <1>11 DEF PollInv
<1>13. \A q \in Registries, c \in ChallengeIds : q # r \/ c # d =>
            UNCHANGED <<adjudications[q][c], commitments[q][c], verdicts[q][c]>>
  BY DEF RevealVerdict, SetAdjudication, VotesInv, TypeOK
<1>14. WorldAdvances /\ \A c \in ChallengeIds : ChallengeAdvances(c)
  BY <1>2 DEF WorldAdvances, ChallengeAdvances
<1>15. QED BY <1>12, <1>13, <1>14, OtherPolls

\* Finalizing settles the challenge and writes the result, expiring only the
\* latter; the votes stay as they are.
LEMMA ClosingKeepsVotes ==
    ASSUME VotesInv, NEW r \in Registries, NEW d \in ChallengeIds,
           CloseAdjudication(r, d)
    PROVE  \A q \in Registries, c \in ChallengeIds : PollInv(q, c)'
<1> DEFINE old == adjudications[r][d]
           new == adjudications'[r][d]
<1>1. PollInv(r, d) /\ old \in Adjudication /\ challenges[d].status = "Submitted"
  BY DEF VotesInv, TypeOK, RegistryTypeOK, CloseAdjudication, FinalizeChallenge,
         ExpireChallengeNoQuorum, Adjudicable
<1>2. UNCHANGED <<now, identities, commitments, verdicts>>
  BY DEF CloseAdjudication, FinalizeChallenge, ExpireChallengeNoQuorum,
         ResolveChallengeFromAdjudicator, SettleChallenge, registryVars, peopleVars
<1>3. WorldAdvances /\ \A c \in ChallengeIds : ChallengeAdvances(c)
  <2>1. CASE ExpireChallengeNoQuorum(r, d)
    BY <1>2, <2>1 DEF ExpireChallengeNoQuorum, registryVars, disputeVars, WorldAdvances,
                      ChallengeAdvances
  <2>2. ASSUME NEW claim \in Verdicts, FinalizeChallenge(r, d, claim)
        PROVE  WorldAdvances /\ \A c \in ChallengeIds : ChallengeAdvances(c)
    BY <2>2, SettleEffect DEF VotesInv, FinalizeChallenge, ResolveChallengeFromAdjudicator
  <2>3. QED BY <2>1, <2>2 DEF CloseAdjudication
<1>4. new.responseSubmittedAt = old.responseSubmittedAt /\ new.announced = old.announced
  <2>1. CASE ExpireChallengeNoQuorum(r, d)
    <3>1. new = [old EXCEPT !.expired = TRUE, !.expiredAt = now]
      BY <2>1 DEF ExpireChallengeNoQuorum, SetAdjudication, VotesInv, TypeOK
    <3>2. QED BY <1>1, <3>1 DEF Adjudication
  <2>2. ASSUME NEW claim \in Verdicts, FinalizeChallenge(r, d, claim)
        PROVE  new.responseSubmittedAt = old.responseSubmittedAt
               /\ new.announced = old.announced
    <3>1. new = [old EXCEPT !.finalized = TRUE, !.outcome = claim, !.finalizedAt = now,
                    !.effectiveVerdictCount = EffectiveVerdictCount(r, d, claim)]
      BY <2>2 DEF FinalizeChallenge, SetAdjudication, VotesInv, TypeOK
    <3>2. QED BY <1>1, <3>1 DEF Adjudication
  <2>3. QED BY <2>1, <2>2 DEF CloseAdjudication
<1>5. challenges'[d].submittedAt = challenges[d].submittedAt
      /\ challenges'[d].status # "Unknown"
  BY <1>1, <1>3 DEF ChallengeAdvances, Verdicts
<1>6. AdjudicationDeadlines(r, d)' = AdjudicationDeadlines(r, d)
      /\ (ResponseOpen(r, d)' <=> ResponseOpen(r, d))
  BY <1>2, <1>4, <1>5 DEF AdjudicationDeadlines, ResponseOpen
<1>7. \A v \in Validators : VoteInv(r, d, v)'
  BY <1>1, <1>2, <1>4, <1>5, <1>6 DEF PollInv, VoteInv, Committed, Revealed
<1>8. PollInv(r, d)'
  BY <1>1, <1>2, <1>4, <1>5, <1>6, <1>7 DEF PollInv
<1>9. \A q \in Registries, c \in ChallengeIds : q # r \/ c # d =>
            UNCHANGED <<adjudications[q][c], commitments[q][c], verdicts[q][c]>>
  <2>1. PICK adj : SetAdjudication(r, d, adj)
    BY DEF CloseAdjudication, FinalizeChallenge, ExpireChallengeNoQuorum
  <2>2. QED BY <1>2, <2>1 DEF SetAdjudication, VotesInv, TypeOK
<1>10. QED BY <1>3, <1>8, <1>9, OtherPolls

\* Every step of the composed system keeps the inductive invariant.
LEMMA VotesInvInductive == VotesInv /\ [Next]_vars => VotesInv'
<1> SUFFICES ASSUME VotesInv, [Next]_vars
             PROVE  VotesInv'
  OBVIOUS
<1> USE DEF VotesInv
<1>1. TypeOK'
  BY PollTypes, RegistryStepTypes, StutterTypes DEF Next
<1>2. CASE RegistryStep \/ UNCHANGED vars
  <2>1. WorldAdvances /\ \A c \in ChallengeIds : ChallengeAdvances(c)
    BY <1>2, RegistryEffect DEF RegistryStep, vars, registryVars, peopleVars, disputeVars,
                                WorldAdvances, ChallengeAdvances
  <2>2. UNCHANGED <<adjudications, commitments, verdicts>>
    BY <1>2 DEF RegistryStep, vars, pollVars
  <2>3. \A r \in Registries, c \in ChallengeIds : PollInv(r, c)'
    BY <2>1, <2>2, PollFrame
  <2>4. QED BY <1>1, <2>3
<1>3. ASSUME NEW r \in Registries, PollCall(r)
      PROVE  \A q \in Registries, c \in ChallengeIds : PollInv(q, c)'
  <2>1. ASSUME NEW a \in Accounts, NEW x \in QuorumInputs, SetQuorum(a, r, x)
        PROVE  \A q \in Registries, c \in ChallengeIds : PollInv(q, c)'
    <3>1. WorldAdvances /\ \A c \in ChallengeIds : ChallengeAdvances(c)
      BY <2>1 DEF SetQuorum, registryVars, peopleVars, disputeVars, WorldAdvances,
                  ChallengeAdvances
    <3>2. QED BY <2>1, <3>1, PollFrame DEF SetQuorum
  <2>2. ASSUME NEW c \in ChallengeIds, CloseAdjudication(r, c)
        PROVE  \A q \in Registries, d \in ChallengeIds : PollInv(q, d)'
    BY <2>2, ClosingKeepsVotes
  <2>3. QED BY <1>3, <2>1, <2>2, ResponseKeepsVotes, CommitKeepsVotes, RevealKeepsVotes
            DEF PollCall, CloseAdjudication
<1>4. QED BY <1>1, <1>2, <1>3 DEF Next

\* Nothing has happened yet.
LEMMA VotesInvInit == Init => VotesInv
<1> SUFFICES ASSUME Init PROVE VotesInv
  OBVIOUS
<1>1. TypeOK
  BY InitTypes, PollInitTypes DEF Init
<1>2. ASSUME NEW r \in Registries, NEW c \in ChallengeIds PROVE PollInv(r, c)
  <2>1. challenges[c].status = "Unknown"
    BY DEF Init, RegistryInit, NoChallenge
  <2>2. Untouched(r, c)
    BY DEF Init, PollInit, Untouched
  <2>3. adjudications[r][c].announced = NoDeadlines
    BY <2>2 DEF Untouched, NoAdjudication
  <2>4. \A v \in Validators : VoteInv(r, c, v)
    BY <2>2 DEF Untouched, VoteInv, Committed, Revealed, NoCommitment, NoVerdict
  <2>5. QED BY <2>1, <2>2, <2>3, <2>4 DEF PollInv
<1>3. QED BY <1>1, <1>2 DEF VotesInv

\* The inductive invariant holds in every reachable state.
THEOREM VotesInvCorrect == Spec => []VotesInv
BY VotesInvInit, VotesInvInductive, PTL DEF Spec

-----------------------------------------------------------------------------
(* What a reader of the contract wants to know                               *)

\* No validator commits with a verdict of the same poll in sight: the commit
\* deadline lies between any commitment and any verdict.
THEOREM VotesAreBlind == Spec => []Blinded
<1>1. VotesInv => Blinded
  <2> SUFFICES ASSUME VotesInv, NEW r \in Registries, NEW c \in ChallengeIds,
                      NEW v \in Validators, NEW w \in Validators,
                      Committed(r, c, v), Revealed(r, c, w)
               PROVE  commitments[r][c][v].committedAt < verdicts[r][c][w].revealedAt
    BY DEF Blinded
  <2>1. VoteInv(r, c, v) /\ VoteInv(r, c, w)
    BY DEF VotesInv, PollInv
  <2>2. /\ commitments[r][c][v].committedAt \in Nat
        /\ verdicts[r][c][w].revealedAt \in Nat
        /\ AdjudicationDeadlines(r, c).commitBy \in Nat
    BY DeadlineTypes DEF VotesInv, TypeOK, Commitment, Verdict, Deadlines
  <2>3. QED BY <2>1, <2>2 DEF VoteInv
<1>2. QED BY <1>1, VotesInvCorrect, PTL

\* A verdict is the one its validator committed to, and both came in their windows.
THEOREM VotesAreBound == Spec => []VerdictsAreCommitted
<1>1. VotesInv => VerdictsAreCommitted
  BY DEF VotesInv, PollInv, VoteInv, VerdictsAreCommitted
<1>2. QED BY <1>1, VotesInvCorrect, PTL

\* Deadlines that were announced are never moved.
THEOREM DeadlinesStand == Spec => []AnnouncedDeadlinesHold
<1>1. VotesInv => AnnouncedDeadlinesHold
  BY DEF VotesInv, PollInv, VoteInv, AnnouncedDeadlinesHold
<1>2. QED BY <1>1, VotesInvCorrect, PTL

-----------------------------------------------------------------------------
(* The results                                                               *)

\* What a finalized adjudication of challenge c says is so.
ResultInv(c) ==
    \A r \in Registries :
        adjudications[r][c].finalized =>
            /\ adjudications[r][c].outcome \in Verdicts
            /\ challenges[c].status = adjudications[r][c].outcome
            /\ challenges[c].resolvedAt = adjudications[r][c].finalizedAt
            /\ ~ adjudications[r][c].expired
            /\ adjudications[r][c].effectiveVerdictCount >= MinQuorum
            /\ adjudications[r][c].effectiveVerdictCount =
                    Cardinality(Voters(r, c, adjudications[r][c].outcome))
            /\ \A q \in Registries : adjudications[q][c].finalized => q = r

ResultsInv == TypeOK /\ \A c \in ChallengeIds : ResultInv(c)

\* No contract has finalized a challenge that is still to be decided.
LEMMA SubmittedIsUndecided ==
    ASSUME NEW c \in ChallengeIds, ResultInv(c), challenges[c].status = "Submitted"
    PROVE  \A r \in Registries : ~ adjudications[r][c].finalized
BY DEF ResultInv, Verdicts

\* Results survive what leaves the poll's records alone.
LEMMA ResultFrame ==
    ASSUME NEW c \in ChallengeIds, ResultInv(c), ChallengeAdvances(c),
           \A r \in Registries : UNCHANGED <<adjudications[r][c], verdicts[r][c]>>
    PROVE  ResultInv(c)'
<1> SUFFICES ASSUME NEW r \in Registries, adjudications'[r][c].finalized
             PROVE  /\ adjudications'[r][c].outcome \in Verdicts
                    /\ challenges'[c].status = adjudications'[r][c].outcome
                    /\ challenges'[c].resolvedAt = adjudications'[r][c].finalizedAt
                    /\ ~ adjudications'[r][c].expired
                    /\ adjudications'[r][c].effectiveVerdictCount >= MinQuorum
                    /\ adjudications'[r][c].effectiveVerdictCount =
                            Cardinality(Voters(r, c, adjudications[r][c].outcome))'
                    /\ \A q \in Registries : adjudications'[q][c].finalized => q = r
  BY DEF ResultInv
<1>1. adjudications[r][c].finalized /\ challenges[c].status \in Verdicts
  BY DEF ResultInv
<1>2. challenges'[c] = challenges[c]
  BY <1>1 DEF ChallengeAdvances, Verdicts
<1>3. Voters(r, c, adjudications[r][c].outcome)' = Voters(r, c, adjudications[r][c].outcome)
  BY DEF Voters
<1>4. QED BY <1>1, <1>2, <1>3 DEF ResultInv

\* Only finalizeChallenge writes "finalized".
LEMMA FinalizedKept ==
    ASSUME NEW adj \in Adjudication, NEW x, NEW y
    PROVE  /\ [adj EXCEPT !.responseSubmittedAt = x, !.responseCount = y].finalized = adj.finalized
           /\ [adj EXCEPT !.commitmentCount = x, !.announced = y].finalized = adj.finalized
           /\ [adj EXCEPT !.revealCount = x].finalized = adj.finalized
           /\ [adj EXCEPT !.expired = TRUE, !.expiredAt = x].finalized = adj.finalized
BY DEF Adjudication

\* A response, a commitment or a reveal finds no result and leaves none.
LEMMA VotingKeepsResults ==
    ASSUME ResultsInv, NEW r \in Registries, NEW d \in ChallengeIds,
           \/ \E a \in Accounts : SubmitResponse(a, r, d)
           \/ \E v \in Validators, b \in Bindings : CommitVerdict(v, r, d, b)
           \/ \E v \in Validators, claim \in Verdicts : RevealVerdict(v, r, d, claim)
    PROVE  \A c \in ChallengeIds : ResultInv(c)'
<1> DEFINE old == adjudications[r][d]
           new == adjudications'[r][d]
<1>1. challenges[d].status = "Submitted" /\ old \in Adjudication
  BY DEF ResultsInv, TypeOK, SubmitResponse, CommitVerdict, RevealVerdict, Adjudicable
<1>2. UNCHANGED challenges
  BY DEF SubmitResponse, CommitVerdict, RevealVerdict, registryVars, disputeVars
<1>3. PICK adj : SetAdjudication(r, d, adj) /\ adj.finalized = old.finalized
  <2>1. ASSUME NEW a \in Accounts, SubmitResponse(a, r, d)
        PROVE  \E adj : SetAdjudication(r, d, adj) /\ adj.finalized = old.finalized
    <3> DEFINE adj == [old EXCEPT !.responseSubmittedAt = now, !.responseCount = @ + 1]
    <3>1. SetAdjudication(r, d, adj)
      BY <2>1 DEF SubmitResponse
    <3>2. adj.finalized = old.finalized
      BY <1>1, FinalizedKept
    <3>3. QED BY <3>1, <3>2
  <2>2. ASSUME NEW v \in Validators, NEW b \in Bindings, CommitVerdict(v, r, d, b)
        PROVE  \E adj : SetAdjudication(r, d, adj) /\ adj.finalized = old.finalized
    <3> DEFINE adj == [old EXCEPT !.commitmentCount = @ + 1, !.announced = Announcement(r, d)]
    <3>1. SetAdjudication(r, d, adj)
      BY <2>2 DEF CommitVerdict
    <3>2. adj.finalized = old.finalized
      BY <1>1, FinalizedKept
    <3>3. QED BY <3>1, <3>2
  <2>3. ASSUME NEW v \in Validators, NEW claim \in Verdicts, RevealVerdict(v, r, d, claim)
        PROVE  \E adj : SetAdjudication(r, d, adj) /\ adj.finalized = old.finalized
    <3> DEFINE adj == [old EXCEPT !.revealCount = @ + 1]
    <3>1. SetAdjudication(r, d, adj)
      BY <2>3 DEF RevealVerdict
    <3>2. adj.finalized = old.finalized
      BY <1>1, FinalizedKept
    <3>3. QED BY <3>1, <3>2
  <2>4. QED BY <2>1, <2>2, <2>3
<1>4. \A q \in Registries : ~ adjudications'[q][d].finalized
  BY <1>1, <1>3, SubmittedIsUndecided DEF SetAdjudication, ResultsInv, TypeOK
<1>5. ResultInv(d)'
  BY <1>4 DEF ResultInv
<1>6. ASSUME NEW c \in ChallengeIds, c # d
      PROVE  ResultInv(c)'
  <2>1. \A q \in Registries : UNCHANGED <<adjudications[q][c], verdicts[q][c]>>
    BY <1>3, <1>6 DEF SetAdjudication, ResultsInv, TypeOK, SubmitResponse, CommitVerdict,
                      RevealVerdict
  <2>2. QED BY <1>2, <2>1, ResultFrame DEF ResultsInv, ChallengeAdvances
<1>7. QED BY <1>5, <1>6

\* What is true of the record and of the challenge once finalizeChallenge is done.
LEMMA FinalizeEffect ==
    ASSUME TypeOK, NEW r \in Registries, NEW d \in ChallengeIds, NEW claim \in Verdicts,
           FinalizeChallenge(r, d, claim)
    PROVE  /\ adjudications'[r][d].finalized
           /\ adjudications'[r][d].outcome = claim
           /\ adjudications'[r][d].finalizedAt = now
           /\ adjudications'[r][d].effectiveVerdictCount = EffectiveVerdictCount(r, d, claim)
           /\ ~ adjudications'[r][d].expired
           /\ challenges'[d].status = claim
           /\ challenges'[d].resolvedAt = now
           /\ \A q \in Registries, c \in ChallengeIds :
                    q # r \/ c # d => adjudications'[q][c] = adjudications[q][c]
<1> DEFINE old == adjudications[r][d]
           new == adjudications'[r][d]
<1>1. old \in Adjudication /\ ~ old.expired /\ challenges[d] \in Challenge
  BY DEF TypeOK, RegistryTypeOK, FinalizeChallenge, Adjudicable, IsOpen
<1>2. new = [old EXCEPT !.finalized = TRUE, !.outcome = claim, !.finalizedAt = now,
                !.effectiveVerdictCount = EffectiveVerdictCount(r, d, claim)]
  BY DEF FinalizeChallenge, SetAdjudication, TypeOK
<1>3. /\ new.finalized /\ new.outcome = claim /\ new.finalizedAt = now
      /\ new.effectiveVerdictCount = EffectiveVerdictCount(r, d, claim)
      /\ new.expired = old.expired
  BY <1>1, <1>2 DEF Adjudication
<1>4. challenges'[d] = [challenges[d] EXCEPT !.status = claim, !.resolvedAt = now]
  BY DEF FinalizeChallenge, ResolveChallengeFromAdjudicator, SettleChallenge, TypeOK,
         RegistryTypeOK
<1>5. challenges'[d].status = claim /\ challenges'[d].resolvedAt = now
  BY <1>1, <1>4 DEF Challenge
<1>6. \A q \in Registries, c \in ChallengeIds :
            q # r \/ c # d => adjudications'[q][c] = adjudications[q][c]
  BY DEF FinalizeChallenge, SetAdjudication, TypeOK
<1>7. QED BY <1>1, <1>3, <1>5, <1>6

\* The first result of a challenge is written together with its settlement.
LEMMA FinalizeKeepsResults ==
    ASSUME ResultsInv, NEW r \in Registries, NEW d \in ChallengeIds, NEW claim \in Verdicts,
           FinalizeChallenge(r, d, claim)
    PROVE  \A c \in ChallengeIds : ResultInv(c)'
<1>1. TypeOK /\ challenges[d].status = "Submitted"
  BY DEF ResultsInv, FinalizeChallenge, Adjudicable
<1>2. UNCHANGED verdicts
  BY DEF FinalizeChallenge
<1>3. \A q \in Registries : q # r => ~ adjudications'[q][d].finalized
  BY <1>1, SubmittedIsUndecided, FinalizeEffect DEF ResultsInv
<1>4. EffectiveVerdictCount(r, d, claim) >= MinQuorum
  <2>1. quorum[r] \in Nat /\ quorum[r] >= MinQuorum /\ MinQuorum \in Nat
    BY <1>1, QuorumAssumption DEF TypeOK
  <2>2. EffectiveVerdictCount(r, d, claim) >= quorum[r]
    BY DEF FinalizeChallenge
  <2>3. QED BY <2>1, <2>2, CountType
<1>5. EffectiveVerdictCount(r, d, claim) = Cardinality(Voters(r, d, claim)')
  BY <1>2 DEF EffectiveVerdictCount, Voters
<1>6. ResultInv(d)'
  <2> SUFFICES ASSUME NEW q \in Registries, adjudications'[q][d].finalized
               PROVE  /\ adjudications'[q][d].outcome \in Verdicts
                      /\ challenges'[d].status = adjudications'[q][d].outcome
                      /\ challenges'[d].resolvedAt = adjudications'[q][d].finalizedAt
                      /\ ~ adjudications'[q][d].expired
                      /\ adjudications'[q][d].effectiveVerdictCount >= MinQuorum
                      /\ adjudications'[q][d].effectiveVerdictCount =
                              Cardinality(Voters(q, d, adjudications[q][d].outcome)')
                      /\ \A x \in Registries : adjudications'[x][d].finalized => x = q
    BY DEF ResultInv
  <2>1. q = r
    BY <1>3
  <2>2. Voters(q, d, adjudications[q][d].outcome)' = Voters(r, d, claim)'
    BY <1>1, <2>1, FinalizeEffect DEF Voters
  <2>3. QED BY <1>1, <1>3, <1>4, <1>5, <2>1, <2>2, FinalizeEffect
<1>7. ASSUME NEW c \in ChallengeIds, c # d
      PROVE  ResultInv(c)'
  <2>1. \A q \in Registries : UNCHANGED <<adjudications[q][c], verdicts[q][c]>>
    BY <1>1, <1>2, <1>7, FinalizeEffect
  <2>2. ChallengeAdvances(c)
    BY <1>1, SettleEffect DEF FinalizeChallenge, ResolveChallengeFromAdjudicator
  <2>3. QED BY <2>1, <2>2, ResultFrame DEF ResultsInv
<1>8. QED BY <1>6, <1>7

\* Expiry closes a poll without a result.
LEMMA ExpiryKeepsResults ==
    ASSUME ResultsInv, NEW r \in Registries, NEW d \in ChallengeIds,
           ExpireChallengeNoQuorum(r, d)
    PROVE  \A c \in ChallengeIds : ResultInv(c)'
<1> DEFINE old == adjudications[r][d]
<1>1. TypeOK /\ challenges[d].status = "Submitted" /\ old \in Adjudication
  BY DEF ResultsInv, ExpireChallengeNoQuorum, Adjudicable, TypeOK
<1>2. UNCHANGED <<challenges, verdicts>>
  BY DEF ExpireChallengeNoQuorum, registryVars, disputeVars
<1>3. PICK adj : SetAdjudication(r, d, adj) /\ adj.finalized = old.finalized
  BY <1>1, FinalizedKept DEF ExpireChallengeNoQuorum
<1>4. \A q \in Registries : ~ adjudications'[q][d].finalized
  BY <1>1, <1>3, SubmittedIsUndecided DEF SetAdjudication, ResultsInv, TypeOK
<1>5. ResultInv(d)'
  BY <1>4 DEF ResultInv
<1>6. ASSUME NEW c \in ChallengeIds, c # d
      PROVE  ResultInv(c)'
  <2>1. \A q \in Registries : UNCHANGED <<adjudications[q][c], verdicts[q][c]>>
    BY <1>1, <1>2, <1>3, <1>6 DEF SetAdjudication, TypeOK
  <2>2. QED BY <1>2, <2>1, ResultFrame DEF ResultsInv, ChallengeAdvances
<1>7. QED BY <1>5, <1>6

\* The inductive invariant holds in every reachable state.
THEOREM ResultsInvCorrect == Spec => []ResultsInv
<1>1. Init => ResultsInv
  <2> SUFFICES ASSUME Init PROVE ResultsInv
    OBVIOUS
  <2>1. TypeOK
    BY InitTypes, PollInitTypes DEF Init
  <2>2. \A r \in Registries, c \in ChallengeIds : ~ adjudications[r][c].finalized
    BY DEF Init, PollInit, NoAdjudication
  <2>3. QED BY <2>1, <2>2 DEF ResultsInv, ResultInv
<1>2. ResultsInv /\ [Next]_vars => ResultsInv'
  <2> SUFFICES ASSUME ResultsInv, [Next]_vars
               PROVE  ResultsInv'
    OBVIOUS
  <2> USE DEF ResultsInv
  <2>1. TypeOK'
    BY PollTypes, RegistryStepTypes, StutterTypes DEF Next
  <2>2. CASE RegistryStep \/ UNCHANGED vars
    <3>1. \A c \in ChallengeIds : ChallengeAdvances(c)
      BY <2>2, RegistryEffect DEF RegistryStep, vars, registryVars, disputeVars,
                                  ChallengeAdvances
    <3>2. UNCHANGED <<adjudications, verdicts>>
      BY <2>2 DEF RegistryStep, vars, pollVars
    <3>3. QED BY <2>1, <3>1, <3>2, ResultFrame
  <2>3. ASSUME NEW r \in Registries, NEW a \in Accounts, NEW x \in QuorumInputs,
               SetQuorum(a, r, x)
        PROVE  \A c \in ChallengeIds : ResultInv(c)'
    <3>1. UNCHANGED <<challenges, adjudications, verdicts>>
      BY <2>3 DEF SetQuorum, registryVars, disputeVars
    <3>2. QED BY <3>1, ResultFrame DEF ChallengeAdvances
  <2>4. ASSUME NEW r \in Registries, PollCall(r)
        PROVE  \A c \in ChallengeIds : ResultInv(c)'
    BY <2>3, <2>4, VotingKeepsResults, FinalizeKeepsResults, ExpiryKeepsResults DEF PollCall
  <2>5. QED BY <2>1, <2>2, <2>4 DEF Next
<1>3. QED BY <1>1, <1>2, PTL DEF Spec

\* A finalized adjudication and the registry agree, and no second contract
\* finalized the same challenge.
THEOREM ResultsAgree == Spec => []FinalizedAgrees
<1>1. ResultsInv => FinalizedAgrees
  BY DEF ResultsInv, ResultInv, FinalizedAgrees
<1>2. QED BY <1>1, ResultsInvCorrect, PTL

\* A result has at least MinQuorum verdicts behind it, and its count stays right.
THEOREM ResultsHaveQuorum == Spec => []QuorumBacked
<1>1. ResultsInv => QuorumBacked
  BY DEF ResultsInv, ResultInv, QuorumBacked
<1>2. QED BY <1>1, ResultsInvCorrect, PTL

-----------------------------------------------------------------------------
(* What no step does                                                         *)

\* The vote transactions are about one open poll and write only its records.
LEMMA PollCallsAreLocal ==
    ASSUME TypeOK, NEW r \in Registries, PollCall(r),
           NEW q \in Registries, NEW c \in ChallengeIds, ~ IsOpen(q, c)
    PROVE  UNCHANGED <<adjudications[q][c], commitments[q][c], verdicts[q][c]>>
<1> USE DEF TypeOK, SetAdjudication
<1>1. ASSUME NEW a \in Accounts, NEW x \in QuorumInputs, SetQuorum(a, r, x)
      PROVE  UNCHANGED <<adjudications[q][c], commitments[q][c], verdicts[q][c]>>
  BY <1>1 DEF SetQuorum
<1>2. ASSUME NEW d \in ChallengeIds, NEW a \in Accounts, SubmitResponse(a, r, d)
      PROVE  UNCHANGED <<adjudications[q][c], commitments[q][c], verdicts[q][c]>>
  BY <1>2 DEF SubmitResponse, Adjudicable
<1>3. ASSUME NEW d \in ChallengeIds, NEW v \in Validators, NEW b \in Bindings,
             CommitVerdict(v, r, d, b)
      PROVE  UNCHANGED <<adjudications[q][c], commitments[q][c], verdicts[q][c]>>
  BY <1>3 DEF CommitVerdict, Adjudicable
<1>4. ASSUME NEW d \in ChallengeIds, NEW v \in Validators, NEW claim \in Verdicts,
             RevealVerdict(v, r, d, claim)
      PROVE  UNCHANGED <<adjudications[q][c], commitments[q][c], verdicts[q][c]>>
  <2>1. IsOpen(r, d)
    BY <1>4 DEF RevealVerdict, Adjudicable
  <2>2. PICK com, ver, adj :
            /\ commitments' = [commitments EXCEPT ![r][d][v] = com]
            /\ verdicts' = [verdicts EXCEPT ![r][d][v] = ver]
            /\ adjudications' = [adjudications EXCEPT ![r][d] = adj]
    <3>1. commitments' = [commitments EXCEPT ![r][d][v] =
                            [commitments[r][d][v] EXCEPT !.revealed = TRUE]]
      BY <1>4 DEF RevealVerdict
    <3>2. verdicts' = [verdicts EXCEPT ![r][d][v] = VerdictRecord(v, claim)]
      BY <1>4 DEF RevealVerdict
    <3>3. \E adj : adjudications' = [adjudications EXCEPT ![r][d] = adj]
      BY <1>4 DEF RevealVerdict
    <3>4. QED BY <3>1, <3>2, <3>3
  <2>3. q # r \/ c # d
    BY <2>1
  <2>4. QED BY <2>2, <2>3
<1>5. ASSUME NEW d \in ChallengeIds, NEW claim \in Verdicts, FinalizeChallenge(r, d, claim)
      PROVE  UNCHANGED <<adjudications[q][c], commitments[q][c], verdicts[q][c]>>
  BY <1>5 DEF FinalizeChallenge, Adjudicable
<1>6. ASSUME NEW d \in ChallengeIds, ExpireChallengeNoQuorum(r, d)
      PROVE  UNCHANGED <<adjudications[q][c], commitments[q][c], verdicts[q][c]>>
  BY <1>6 DEF ExpireChallengeNoQuorum, Adjudicable
<1>7. QED BY <1>1, <1>2, <1>3, <1>4, <1>5, <1>6 DEF PollCall

\* A closed poll never changes again.
THEOREM ClosedPollsStay == Spec => ClosedForGood
<1>1. TypeOK /\ [Next]_vars =>
        [\A r \in Registries, c \in ChallengeIds : ~ IsOpen(r, c) =>
            UNCHANGED <<adjudications[r][c], commitments[r][c], verdicts[r][c]>>]_vars
  <2> SUFFICES ASSUME TypeOK, [Next]_vars,
                      NEW q \in Registries, NEW c \in ChallengeIds, ~ IsOpen(q, c)
               PROVE  UNCHANGED <<adjudications[q][c], commitments[q][c], verdicts[q][c]>>
    OBVIOUS
  <2>1. CASE RegistryStep \/ UNCHANGED vars
    BY <2>1 DEF RegistryStep, vars, pollVars
  <2>2. CASE \E r \in Registries : PollCall(r)
    BY <2>2, PollCallsAreLocal
  <2>3. QED BY <2>1, <2>2 DEF Next
<1>2. QED BY <1>1, TypeCorrect, PTL DEF Spec, ClosedForGood

\* People cannot settle a challenge that the current adjudicator, a contract,
\* has started on: the owner is refused, and no account is the adjudicator.
LEMMA PeopleDoNotSettle ==
    ASSUME TypeOK, RegistryStep \/ UNCHANGED vars, NEW c \in ChallengeIds,
           StartedByAdjudicator(c)
    PROVE  ~ Settled(c)
<1> USE DEF adjudicatorVars, peopleVars, intakeVars, disputeVars, StartedByAdjudicator
<1>1. ASSUME UNCHANGED challenges
      PROVE  ~ Settled(c)
  BY <1>1 DEF Settled
<1>2. CASE Tick \/ UNCHANGED vars
  BY <1>1, <1>2 DEF Tick, vars, registryVars
<1>3. ASSUME NEW a \in Accounts, NEW e \in EvidenceIds, NEW reason \in Reasons,
             SubmitChallenge(a, e, reason)
      PROVE  ~ Settled(c)
  BY <1>3 DEF SubmitChallenge, Settled, TypeOK, RegistryTypeOK
<1>4. ASSUME NEW a \in Accounts, NEW d \in ChallengeIds, NEW v \in Verdicts,
             ResolveChallenge(a, d, v)
      PROVE  ~ Settled(c)
  <2>1. d # c
    BY <1>4, AddressAssumption DEF ResolveChallenge, NotStarted, Addresses
  <2>2. challenges'[c] = challenges[c]
    BY <1>4, <2>1 DEF ResolveChallenge, SettleChallenge, TypeOK, RegistryTypeOK
  <2>3. QED BY <2>2 DEF Settled
<1>5. ASSUME NEW a \in Accounts, NEW d \in ChallengeIds, NEW v \in Verdicts,
             ResolveChallengeFromAdjudicator(a, d, v)
      PROVE  ~ Settled(c)
  BY <1>5, AddressAssumption DEF ResolveChallengeFromAdjudicator
<1>6. CASE RegistryCall
  <2>1. ASSUME NEW v \in Validators, NEW role \in Roles, RegisterIdentity(v, role)
        PROVE  ~ Settled(c)
    BY <1>1, <2>1 DEF RegisterIdentity
  <2>2. ASSUME NEW m \in Modules, SubmitModule(m)
        PROVE  ~ Settled(c)
    BY <1>1, <2>2 DEF SubmitModule
  <2>3. ASSUME NEW a \in Accounts, NEW v \in Validators, NEW g \in Groups, NEW ok \in BOOLEAN,
               SetValidatorProfile(a, v, g, ok)
        PROVE  ~ Settled(c)
    BY <1>1, <2>3 DEF SetValidatorProfile
  <2>4. ASSUME NEW a \in Accounts, NEW x \in Candidates, ProposeAdjudicator(a, x)
        PROVE  ~ Settled(c)
    BY <1>1, <2>4 DEF ProposeAdjudicator
  <2>5. ASSUME NEW a \in Accounts, ConfirmAdjudicator(a)
        PROVE  ~ Settled(c)
    BY <1>1, <2>5 DEF ConfirmAdjudicator
  <2>6. ASSUME NEW a \in Accounts, NEW m \in Modules, NEW b \in Bundles, SubmitReport(a, m, b)
        PROVE  ~ Settled(c)
    BY <1>1, <2>6 DEF SubmitReport
  <2>7. ASSUME NEW a \in Accounts, NEW m \in Modules, NEW b \in Bundles,
               NEW t \in EvidenceTypes, NEW g \in Groups, NEW w \in Windows,
               SubmitEvidence(a, m, b, t, g, w)
        PROVE  ~ Settled(c)
    BY <1>1, <2>7 DEF SubmitEvidence
  <2>8. ASSUME NEW a \in Accounts, NEW e \in EvidenceIds, InvalidateEvidence(a, e)
        PROVE  ~ Settled(c)
    BY <1>1, <2>8 DEF InvalidateEvidence
  <2>9. QED BY <1>3, <1>4, <1>5, <1>6, <2>1, <2>2, <2>3, <2>4, <2>5, <2>6, <2>7, <2>8
            DEF RegistryCall
<1>7. QED BY <1>2, <1>6 DEF RegistryStep

\* A transaction of a contract settles a challenge only by finalizing it, and
\* only if that contract is the adjudicator.
LEMMA ContractsSettleByVote ==
    ASSUME TypeOK, NEW r \in Registries, PollCall(r), NEW c \in ChallengeIds, Settled(c)
    PROVE  SettledByVote(c)
<1>1. PICK d \in ChallengeIds, claim \in Verdicts : FinalizeChallenge(r, d, claim)
  BY DEF PollCall, Settled, SetQuorum, SubmitResponse, CommitVerdict, RevealVerdict,
         ExpireChallengeNoQuorum, registryVars, disputeVars
<1>2. r = adjudicator /\ SettleChallenge(d, claim)
  BY <1>1 DEF FinalizeChallenge, ResolveChallengeFromAdjudicator
<1>3. c = d
  BY <1>2 DEF Settled, SettleChallenge, TypeOK, RegistryTypeOK
<1>4. ~ adjudications[r][c].finalized /\ ~ adjudications[r][c].expired
  BY <1>1, <1>3 DEF FinalizeChallenge, Adjudicable, IsOpen
<1>5. EffectiveVerdictCount(r, c, claim) >= quorum[r]
  BY <1>1, <1>3 DEF FinalizeChallenge
<1>6. QED BY <1>1, <1>2, <1>3, <1>4, <1>5, FinalizeEffect DEF SettledByVote

\* What the current adjudicator has started on is settled by its vote only.
THEOREM StartedNeedsVote == Spec => StartedSettledByVote
<1>1. TypeOK /\ [Next]_vars =>
        [\A c \in ChallengeIds :
            Settled(c) /\ StartedByAdjudicator(c) => SettledByVote(c)]_vars
  <2> SUFFICES ASSUME TypeOK, [Next]_vars, NEW c \in ChallengeIds,
                      Settled(c), StartedByAdjudicator(c)
               PROVE  SettledByVote(c)
    OBVIOUS
  <2>1. QED BY PeopleDoNotSettle, ContractsSettleByVote DEF Next
<1>2. QED BY <1>1, TypeCorrect, PTL DEF Spec, StartedSettledByVote

\* No contract but the registered one has started on a challenge: no handover with
\* challenges under way.
NoneStartedElsewhere ==
    \A r \in Registries, c \in ChallengeIds : c \in adjudicationStarted[r] => r = adjudicator

\* The README's sentence on the owner's direct resolution is right as long as the
\* adjudicator is not replaced with challenges under way, and with the run that breaks
\* it this says that the handover is what breaks it.
THEOREM LegacyBlockedWithoutHandover ==
    Spec /\ []NoneStartedElsewhere => LegacyBlockedOnceStarted
<1>1. NoneStartedElsewhere
      /\ [\A c \in ChallengeIds :
            Settled(c) /\ StartedByAdjudicator(c) => SettledByVote(c)]_vars
      => [\A c \in ChallengeIds :
            Settled(c) /\ (\E r \in Registries : c \in adjudicationStarted[r])
            => \E r \in Registries : /\ ~ adjudications[r][c].finalized
                                     /\ adjudications'[r][c].finalized]_vars
  BY DEF NoneStartedElsewhere, StartedByAdjudicator, SettledByVote
<1>. QED BY <1>1, StartedNeedsVote, PTL DEF StartedSettledByVote, LegacyBlockedOnceStarted

-----------------------------------------------------------------------------
(* Challenges end.  Safety first: an overdue challenge can be closed, stays *)
(* overdue and is ended by whatever closes it.  Then the clock and the      *)
(* fairness of the closing transactions do the rest.                        *)

\* The composition keeps what the registry alone keeps of its disputes.
LEMMA DisputesKept == Spec => []DisputesInv
BY ImplementsRegistry, DisputesInvCorrect, PTL

Undecided(r, c) == /\ challenges[c].status = "Submitted" /\ adjudicator = r
                   /\ ~ adjudications[r][c].expired

Overdue(r, c) == now > AdjudicationDeadlines(r, c).revealBy

Ended(r, c) == \/ challenges[c].status \in Verdicts
               \/ adjudications[r][c].expired
               \/ adjudicator # r

\* Either some verdict has its quorum or none has, and the registry takes the one
\* that has: the challenge is unresolved there and names evidence it knows.
LEMMA OverdueCloses ==
    ASSUME ResultsInv, DisputesInv, NEW r \in Registries, NEW c \in ChallengeIds,
           Undecided(r, c), Overdue(r, c)
    PROVE  Closable(r, c)
<1>1. Adjudicable(r, c)
  BY SubmittedIsUndecided DEF Undecided, Adjudicable, IsOpen, ResultsInv
<1>2. Unresolved(c) /\ evidence[c.evidence].status # "Unknown"
  BY DEF Undecided, Unresolved, DisputesInv, ChallengedInWindow
<1>3. CASE NoQuorum(r, c)
  BY <1>1, <1>3 DEF Closable, Expirable, Overdue
<1>4. CASE ~ NoQuorum(r, c)
  <2>1. PICK claim \in Verdicts : ~ (EffectiveVerdictCount(r, c, claim) < quorum[r])
    BY <1>4 DEF NoQuorum
  <2>2. quorum[r] \in Nat
    BY QuorumAssumption DEF ResultsInv, TypeOK
  <2>3. EffectiveVerdictCount(r, c, claim) >= quorum[r]
    BY <2>1, <2>2, CountType
  <2>. QED BY <1>1, <1>2, <2>3 DEF Closable, Finalizable, Undecided
<1>. QED BY <1>3, <1>4

\* An overdue challenge of the confirmed adjudicator is never stuck.
THEOREM OverdueIsNeverStuck == Spec => []OverdueIsClosable
<1>1. ResultsInv /\ DisputesInv => OverdueIsClosable
  BY OverdueCloses DEF OverdueIsClosable, Undecided, Overdue
<1>. QED BY <1>1, ResultsInvCorrect, DisputesKept, PTL

\* What any step does to the clock and to a challenge.
LEMMA StepEffect ==
    ASSUME TypeOK, [Next]_vars
    PROVE  (now' = now \/ now' = now + 1) /\ \A c \in ChallengeIds : ChallengeAdvances(c)
<1>1. CASE RegistryStep
  BY <1>1, RegistryEffect DEF RegistryStep, WorldAdvances
<1>2. CASE UNCHANGED vars
  BY <1>2 DEF vars, registryVars, disputeVars, ChallengeAdvances
<1>3. ASSUME NEW q \in Registries, PollCall(q)
      PROVE  (now' = now \/ now' = now + 1) /\ \A c \in ChallengeIds : ChallengeAdvances(c)
  <2>1. ASSUME NEW d \in ChallengeIds, NEW claim \in Verdicts, FinalizeChallenge(q, d, claim)
        PROVE  (now' = now \/ now' = now + 1) /\ \A c \in ChallengeIds : ChallengeAdvances(c)
    BY <2>1, SettleEffect DEF FinalizeChallenge, ResolveChallengeFromAdjudicator, WorldAdvances
  <2>2. CASE UNCHANGED <<now, challenges>>
    BY <2>2 DEF ChallengeAdvances
  <2>. QED BY <1>3, <2>1, <2>2 DEF PollCall, SetQuorum, SubmitResponse, CommitVerdict,
              RevealVerdict, ExpireChallengeNoQuorum, registryVars, disputeVars
<1>. QED BY <1>1, <1>2, <1>3 DEF Next

\* Until a challenge is ended it is undecided.
LEMMA UndecidedOrEnded ==
    ASSUME TypeOK, [Next]_vars, NEW r \in Registries, NEW c \in ChallengeIds, Undecided(r, c)
    PROVE  Undecided(r, c)' \/ Ended(r, c)'
BY StepEffect DEF ChallengeAdvances, Undecided, Ended

\* Only submitResponse writes the time of the response, and not after the deadlines.
LEMMA ResponseKept ==
    ASSUME NEW adj \in Adjudication, NEW x, NEW y, NEW z, NEW u
    PROVE  /\ [adj EXCEPT !.commitmentCount = x, !.announced = y].responseSubmittedAt
                = adj.responseSubmittedAt
           /\ [adj EXCEPT !.revealCount = x].responseSubmittedAt = adj.responseSubmittedAt
           /\ [adj EXCEPT !.expired = x, !.expiredAt = y].responseSubmittedAt
                = adj.responseSubmittedAt
           /\ [adj EXCEPT !.finalized = x, !.outcome = y, !.finalizedAt = z,
                          !.effectiveVerdictCount = u].responseSubmittedAt
                = adj.responseSubmittedAt
BY DEF Adjudication

LEMMA NoLateResponse ==
    ASSUME TypeOK, NEW q \in Registries, NEW r \in Registries, NEW c \in ChallengeIds,
           PollCall(q), Overdue(r, c)
    PROVE  adjudications'[r][c].responseSubmittedAt = adjudications[r][c].responseSubmittedAt
<1> DEFINE old == adjudications[r][c]
           Kept == adjudications'[r][c].responseSubmittedAt = old.responseSubmittedAt
<1>1. ASSUME NEW d \in ChallengeIds, NEW adj, SetAdjudication(q, d, adj),
             (q = r /\ d = c) => adj.responseSubmittedAt = old.responseSubmittedAt
      PROVE  Kept
  BY <1>1 DEF SetAdjudication, TypeOK
<1>2. \A d \in ChallengeIds : adjudications[q][d] \in Adjudication
  BY DEF TypeOK
<1>3. ASSUME NEW a \in Accounts, NEW d \in ChallengeIds, SubmitResponse(a, q, d)
      PROVE  Kept
  <2>1. /\ AdjudicationDeadlines(q, d) \in Deadlines /\ now \in Nat
        /\ AdjudicationDeadlines(q, d).responseBy < AdjudicationDeadlines(q, d).revealBy
           \/ adjudications[q][d].responseSubmittedAt # 0
    <3>1. challenges[d].submittedAt \in Nat
      BY DEF TypeOK, RegistryTypeOK, Challenge
    <3>. QED BY <3>1, DeadlineTypes, PeriodAssumption DEF AdjudicationDeadlines, TypeOK, RegistryTypeOK
  <2>2. now <= AdjudicationDeadlines(q, d).responseBy /\ adjudications[q][d].responseSubmittedAt = 0
    BY <1>3 DEF SubmitResponse, ResponseOpen
  <2>3. q # r \/ d # c
    BY <2>1, <2>2 DEF Overdue, Deadlines
  <2>. QED BY <1>1, <1>3, <2>3 DEF SubmitResponse
<1>4. ASSUME NEW v \in Validators, NEW d \in ChallengeIds, NEW b \in Bindings,
             CommitVerdict(v, q, d, b)
      PROVE  Kept
  <2> DEFINE adj == [adjudications[q][d] EXCEPT !.commitmentCount = @ + 1,
                                                !.announced = Announcement(q, d)]
  <2>1. SetAdjudication(q, d, adj)
    BY <1>4 DEF CommitVerdict
  <2>2. adj.responseSubmittedAt = adjudications[q][d].responseSubmittedAt
    BY <1>2, ResponseKept
  <2> HIDE DEF adj
  <2>. QED BY <1>1, <2>1, <2>2
<1>5. ASSUME NEW v \in Validators, NEW d \in ChallengeIds, NEW claim \in Verdicts,
             RevealVerdict(v, q, d, claim)
      PROVE  Kept
  <2> DEFINE adj == [adjudications[q][d] EXCEPT !.revealCount = @ + 1]
  <2>1. SetAdjudication(q, d, adj)
    BY <1>5 DEF RevealVerdict
  <2>2. adj.responseSubmittedAt = adjudications[q][d].responseSubmittedAt
    BY <1>2, ResponseKept
  <2> HIDE DEF adj
  <2>. QED BY <1>1, <2>1, <2>2
<1>6. ASSUME NEW d \in ChallengeIds, NEW claim \in Verdicts, FinalizeChallenge(q, d, claim)
      PROVE  Kept
  <2> DEFINE adj == [adjudications[q][d] EXCEPT
                        !.finalized = TRUE, !.outcome = claim, !.finalizedAt = now,
                        !.effectiveVerdictCount = EffectiveVerdictCount(q, d, claim)]
  <2>1. SetAdjudication(q, d, adj)
    BY <1>6 DEF FinalizeChallenge
  <2>2. adj.responseSubmittedAt = adjudications[q][d].responseSubmittedAt
    BY <1>2, ResponseKept
  <2> HIDE DEF adj
  <2>. QED BY <1>1, <2>1, <2>2
<1>7. ASSUME NEW d \in ChallengeIds, ExpireChallengeNoQuorum(q, d)
      PROVE  Kept
  <2> DEFINE adj == [adjudications[q][d] EXCEPT !.expired = TRUE, !.expiredAt = now]
  <2>1. SetAdjudication(q, d, adj)
    BY <1>7 DEF ExpireChallengeNoQuorum
  <2>2. adj.responseSubmittedAt = adjudications[q][d].responseSubmittedAt
    BY <1>2, ResponseKept
  <2> HIDE DEF adj
  <2>. QED BY <1>1, <2>1, <2>2
<1>. QED BY <1>3, <1>4, <1>5, <1>6, <1>7 DEF PollCall, SetQuorum

\* No deadline that has passed is moved.
LEMMA OverdueStays ==
    ASSUME TypeOK, [Next]_vars, NEW r \in Registries, NEW c \in ChallengeIds,
           Undecided(r, c), Overdue(r, c)
    PROVE  Overdue(r, c)'
<1>1. adjudications'[r][c].responseSubmittedAt = adjudications[r][c].responseSubmittedAt
  <2>1. CASE RegistryStep \/ UNCHANGED vars
    BY <2>1 DEF RegistryStep, vars, pollVars
  <2>. QED BY <2>1, NoLateResponse DEF Next
<1>2. challenges'[c].submittedAt = challenges[c].submittedAt
  BY StepEffect DEF ChallengeAdvances, Undecided
<1>3. AdjudicationDeadlines(r, c)' = AdjudicationDeadlines(r, c)
  BY <1>1, <1>2 DEF AdjudicationDeadlines
<1>4. AdjudicationDeadlines(r, c).revealBy \in Nat /\ now \in Nat
  BY DeadlineTypes DEF Deadlines, TypeOK, RegistryTypeOK
<1>. QED BY <1>3, <1>4, StepEffect DEF Overdue

\* Both closing transactions end the challenge.
LEMMA ClosingEnds ==
    ASSUME TypeOK, NEW r \in Registries, NEW c \in ChallengeIds, CloseAdjudication(r, c)
    PROVE  Ended(r, c)'
<1>1. ASSUME NEW claim \in Verdicts, FinalizeChallenge(r, c, claim)
      PROVE  Ended(r, c)'
  BY <1>1, FinalizeEffect DEF Ended
<1>2. CASE ExpireChallengeNoQuorum(r, c)
  BY <1>2 DEF ExpireChallengeNoQuorum, SetAdjudication, Ended, TypeOK, Adjudication
<1>. QED BY <1>1, <1>2 DEF CloseAdjudication

\* The clock gets past every deadline: MaxTime, the model's, is late enough.
DeadlinesPass == \A r \in Registries, c \in ChallengeIds : []<>Overdue(r, c)

\* No challenge hangs, for any number of contracts, validators and periods: in fair
\* behaviours whose clock passes the deadlines a challenge of the confirmed
\* adjudicator is settled or expires, or the adjudicator is replaced.  That the
\* guard of the closing transactions enables them is ENABLED, beyond the provers.
THEOREM ChallengesEnd ==
    Spec /\ Fairness /\ []ClosableIsEnabled /\ DeadlinesPass => ChallengesClose
<1>1. ASSUME NEW r \in Registries, NEW c \in ChallengeIds
      PROVE  /\ Spec /\ WF_vars(CloseAdjudication(r, c)) /\ []<>Overdue(r, c)
             /\ [](Closable(r, c) => ENABLED <<CloseAdjudication(r, c)>>_vars)
             => (Undecided(r, c) ~> Ended(r, c))
  <2>1. TypeOK /\ [Next]_vars /\ Undecided(r, c) => Undecided(r, c)' \/ Ended(r, c)'
    BY UndecidedOrEnded
  <2>2. TypeOK /\ [Next]_vars /\ Undecided(r, c) /\ Overdue(r, c) => Overdue(r, c)'
    BY OverdueStays
  <2>3. ResultsInv /\ DisputesInv /\ Undecided(r, c) /\ Overdue(r, c) => Closable(r, c)
    BY OverdueCloses
  <2>4. TypeOK /\ <<CloseAdjudication(r, c)>>_vars => Ended(r, c)'
    BY ClosingEnds
  <2>. QED BY <2>1, <2>2, <2>3, <2>4, TypeCorrect, ResultsInvCorrect, DisputesKept, PTL
           DEF Spec
<1>2. ASSUME NEW r \in Registries, NEW c \in ChallengeIds
      PROVE  Fairness /\ []ClosableIsEnabled /\ DeadlinesPass =>
                /\ WF_vars(CloseAdjudication(r, c)) /\ []<>Overdue(r, c)
                /\ [](Closable(r, c) => ENABLED <<CloseAdjudication(r, c)>>_vars)
  <2>1. ClosableIsEnabled => ClosableIsSendable(r, c)
    BY DEF ClosableIsEnabled
  <2>2. Closers => ClosesInTime(r, c)
    BY DEF Closers
  <2>3. DeadlinesPass => []<>Overdue(r, c)
    BY DEF DeadlinesPass
  <2>. QED BY <2>1, <2>2, <2>3, PTL DEF Fairness, ClosesInTime, ClosableIsSendable
<1>3. ASSUME NEW r \in Registries, NEW c \in ChallengeIds
      PROVE  (Undecided(r, c) ~> Ended(r, c)) =>
             ((challenges[c].status = "Submitted" /\ adjudicator = r)
                ~> \/ challenges[c].status \in Verdicts
                   \/ adjudications[r][c].expired
                   \/ adjudicator # r)
  <2>1. challenges[c].status = "Submitted" /\ adjudicator = r => Undecided(r, c) \/ Ended(r, c)
    BY DEF Undecided, Ended
  <2>2. Ended(r, c) => \/ challenges[c].status \in Verdicts
                       \/ adjudications[r][c].expired
                       \/ adjudicator # r
    BY DEF Ended
  <2>. QED BY <2>1, <2>2, PTL
<1>4. ASSUME NEW r \in Registries, NEW c \in ChallengeIds
      PROVE  Spec /\ Fairness /\ []ClosableIsEnabled /\ DeadlinesPass =>
             ((challenges[c].status = "Submitted" /\ adjudicator = r)
                ~> \/ challenges[c].status \in Verdicts
                   \/ adjudications[r][c].expired
                   \/ adjudicator # r)
  BY <1>1, <1>2, <1>3, PTL
<1>. QED BY <1>4 DEF ChallengesClose

-----------------------------------------------------------------------------
(* Every adjudication implements SealedBallot: its commitments, reveals,   *)
(* finalization and expiry are the ballot's steps, and everything else in the *)
(* system is a stutter of the ballot.                                      *)

\* A step that leaves one poll's records alone is a stutter of its ballot.
LEMMA PollUntouchedStutters ==
    ASSUME UNCHANGED <<adjudications[theRegistry][theChallenge],
                       commitments[theRegistry][theChallenge]>>
    PROVE  UNCHANGED Ballot!ballotVars
BY DEF Ballot!ballotVars, SealedView, OpenedView, ResultView

\* The ballot of an open poll is undecided, and the other way round.
LEMMA OpenIsPending ==
    ASSUME IsOpen(theRegistry, theChallenge)
    PROVE  ResultView = "Pending"
BY DEF IsOpen, ResultView

\* While commitments are accepted none is open.
LEMMA NothingOpenedYet ==
    ASSUME VotesInv, CommitOpen(theRegistry, theChallenge)
    PROVE  OpenedView = {}
<1> SUFFICES ASSUME NEW v \in Validators,
                    commitments[theRegistry][theChallenge][v].revealed
             PROVE  FALSE
  BY DEF OpenedView
<1>1. VoteInv(theRegistry, theChallenge, v)
  BY PollAssumption DEF VotesInv, PollInv
<1>2. /\ verdicts[theRegistry][theChallenge][v].revealedAt \in Nat
      /\ AdjudicationDeadlines(theRegistry, theChallenge).commitBy \in Nat
      /\ now \in Nat
  BY DeadlineTypes, PollAssumption DEF VotesInv, TypeOK, RegistryTypeOK, Verdict, Deadlines
<1>3. QED BY <1>1, <1>2 DEF VoteInv, CommitOpen

\* A commitment is a seal.
LEMMA CommitSeals ==
    ASSUME VotesInv, NEW v \in Validators, NEW b \in Bindings,
           CommitVerdict(v, theRegistry, theChallenge, b)
    PROVE  Ballot!Next
<1> USE PollAssumption
<1>1. ResultView = "Pending" /\ OpenedView = {}
  BY OpenIsPending, NothingOpenedYet DEF CommitVerdict, Adjudicable
<1>2. commitments'[theRegistry][theChallenge] =
            [commitments[theRegistry][theChallenge] EXCEPT ![v] =
                [binds |-> b, committedAt |-> now, revealed |-> FALSE]]
  BY DEF CommitVerdict, VotesInv, TypeOK
<1>3. commitments[theRegistry][theChallenge] \in [Validators -> Commitment]
  BY DEF VotesInv, TypeOK
<1>4. SealedView' = [SealedView EXCEPT ![v] = b]
  <2>1. \A w \in Validators : commitments'[theRegistry][theChallenge][w].binds =
            IF w = v THEN b ELSE commitments[theRegistry][theChallenge][w].binds
    BY <1>2, <1>3
  <2>2. QED BY <2>1 DEF SealedView
<1>5. OpenedView' = OpenedView
  BY <1>1, <1>2, <1>3 DEF OpenedView
<1>6. ResultView' = ResultView
  <2> DEFINE old == adjudications[theRegistry][theChallenge]
  <2>1. old \in Adjudication
    BY DEF VotesInv, TypeOK
  <2>2. adjudications'[theRegistry][theChallenge] =
            [old EXCEPT !.commitmentCount = old.commitmentCount + 1,
                        !.announced = Announcement(theRegistry, theChallenge)]
    BY DEF CommitVerdict, SetAdjudication, VotesInv, TypeOK
  <2>3. /\ adjudications'[theRegistry][theChallenge].finalized = old.finalized
        /\ adjudications'[theRegistry][theChallenge].expired = old.expired
        /\ adjudications'[theRegistry][theChallenge].outcome = old.outcome
    BY <2>1, <2>2 DEF Adjudication
  <2>4. QED BY <2>3 DEF ResultView
<1>7. SealedView[v] = "None"
  BY DEF CommitVerdict, SealedView
<1>8. Ballot!Seal(v, b)
  BY <1>1, <1>4, <1>5, <1>6, <1>7 DEF Ballot!Seal
<1>9. QED BY <1>8 DEF Ballot!Next, Bindings

\* A reveal opens the seal.
LEMMA RevealOpens ==
    ASSUME VotesInv, NEW v \in Validators, NEW claim \in Verdicts,
           RevealVerdict(v, theRegistry, theChallenge, claim)
    PROVE  Ballot!Next
<1> USE PollAssumption
<1> DEFINE com == commitments[theRegistry][theChallenge][v]
<1>1. ResultView = "Pending"
  BY OpenIsPending DEF RevealVerdict, Adjudicable
<1>2. commitments'[theRegistry][theChallenge] =
            [commitments[theRegistry][theChallenge] EXCEPT ![v] = [com EXCEPT !.revealed = TRUE]]
  BY DEF RevealVerdict, VotesInv, TypeOK
<1>3. commitments[theRegistry][theChallenge] \in [Validators -> Commitment]
  BY DEF VotesInv, TypeOK
<1>4. com \in Commitment /\ com.binds = claim /\ ~ com.revealed
  BY <1>3 DEF RevealVerdict, Opens
<1>5. commitments'[theRegistry][theChallenge][v] = [com EXCEPT !.revealed = TRUE]
  BY <1>2, <1>3
<1>6. commitments'[theRegistry][theChallenge][v].binds = com.binds
      /\ commitments'[theRegistry][theChallenge][v].revealed = TRUE
  BY <1>4, <1>5 DEF Commitment
<1>7. \A w \in Validators : w # v =>
            commitments'[theRegistry][theChallenge][w] = commitments[theRegistry][theChallenge][w]
  BY <1>2, <1>3
<1>8. SealedView' = SealedView
  BY <1>6, <1>7 DEF SealedView
<1>9. OpenedView' = OpenedView \cup {v}
  BY <1>6, <1>7 DEF OpenedView
<1>10. ResultView' = ResultView
  <2> DEFINE old == adjudications[theRegistry][theChallenge]
  <2>1. old \in Adjudication
    BY DEF VotesInv, TypeOK
  <2>2. adjudications'[theRegistry][theChallenge] =
            [old EXCEPT !.revealCount = old.revealCount + 1]
    BY DEF RevealVerdict, SetAdjudication, VotesInv, TypeOK
  <2>3. /\ adjudications'[theRegistry][theChallenge].finalized = old.finalized
        /\ adjudications'[theRegistry][theChallenge].expired = old.expired
        /\ adjudications'[theRegistry][theChallenge].outcome = old.outcome
    BY <2>1, <2>2 DEF Adjudication
  <2>4. QED BY <2>3 DEF ResultView
<1>11. v \notin OpenedView /\ SealedView[v] \in Verdicts
  BY <1>4 DEF OpenedView, SealedView
<1>12. Ballot!Open(v)
  BY <1>1, <1>8, <1>9, <1>10, <1>11 DEF Ballot!Open
<1>13. QED BY <1>12 DEF Ballot!Next

\* Finalization decides: the verdicts counted are the opened seals.
LEMMA FinalizeDecides ==
    ASSUME VotesInv, NEW claim \in Verdicts,
           FinalizeChallenge(theRegistry, theChallenge, claim)
    PROVE  Ballot!Next
<1> USE PollAssumption
<1>1. ResultView = "Pending" /\ TypeOK
  BY OpenIsPending DEF FinalizeChallenge, Adjudicable, VotesInv
<1>2. UNCHANGED <<SealedView, OpenedView>>
  BY DEF FinalizeChallenge, SealedView, OpenedView
<1>3. ResultView' = claim
  BY <1>1, FinalizeEffect DEF ResultView
<1>4. Ballot!Support(claim) = Voters(theRegistry, theChallenge, claim)
  <2>1. ASSUME NEW v \in Validators
        PROVE  v \in Ballot!Support(claim) <=> v \in Voters(theRegistry, theChallenge, claim)
    <3>1. VoteInv(theRegistry, theChallenge, v)
      BY DEF VotesInv, PollInv
    <3>2. v \in Ballot!Support(claim) <=>
                /\ commitments[theRegistry][theChallenge][v].revealed
                /\ commitments[theRegistry][theChallenge][v].binds = claim
      BY DEF Ballot!Support, OpenedView, SealedView
    <3>3. QED BY <3>1, <3>2 DEF VoteInv, Revealed, Voters, Verdicts
  <2>2. Ballot!Support(claim) \subseteq Validators
    BY DEF Ballot!Support, OpenedView
  <2>3. QED BY <2>1, <2>2 DEF Voters
<1>5. EffectiveVerdictCount(theRegistry, theChallenge, claim) >= MinQuorum
  <2>1. /\ quorum[theRegistry] \in Nat /\ quorum[theRegistry] >= MinQuorum
        /\ MinQuorum \in Nat
    BY <1>1, QuorumAssumption DEF TypeOK
  <2>2. EffectiveVerdictCount(theRegistry, theChallenge, claim) >= quorum[theRegistry]
    BY DEF FinalizeChallenge
  <2>3. QED BY <2>1, <2>2, CountType
<1>6. Ballot!Decide(claim)
  <2>1. Cardinality(Ballot!Support(claim)) >= MinQuorum
    BY <1>4, <1>5 DEF EffectiveVerdictCount
  <2>2. Ballot!Cardinality(Ballot!Support(claim)) = Cardinality(Ballot!Support(claim))
    BY DEF Ballot!Cardinality, Cardinality
  <2>3. QED BY <1>1, <1>2, <1>3, <2>1, <2>2 DEF Ballot!Decide
<1>7. QED BY <1>6 DEF Ballot!Next

\* Expiry lets the ballot lapse.
LEMMA ExpiryLapses ==
    ASSUME VotesInv, ExpireChallengeNoQuorum(theRegistry, theChallenge)
    PROVE  Ballot!Next
<1> USE PollAssumption
<1> DEFINE old == adjudications[theRegistry][theChallenge]
<1>1. ResultView = "Pending" /\ ~ old.finalized /\ old \in Adjudication
  BY OpenIsPending DEF ExpireChallengeNoQuorum, Adjudicable, IsOpen, VotesInv, TypeOK
<1>2. UNCHANGED <<SealedView, OpenedView>>
  BY DEF ExpireChallengeNoQuorum, SealedView, OpenedView
<1>3. adjudications'[theRegistry][theChallenge] =
            [old EXCEPT !.expired = TRUE, !.expiredAt = now]
  BY DEF ExpireChallengeNoQuorum, SetAdjudication, VotesInv, TypeOK
<1>4. /\ ~ adjudications'[theRegistry][theChallenge].finalized
      /\ adjudications'[theRegistry][theChallenge].expired
  BY <1>1, <1>3 DEF Adjudication
<1>5. ResultView' = "Lapsed"
  BY <1>4 DEF ResultView
<1>6. Ballot!Lapse
  BY <1>1, <1>2, <1>5 DEF Ballot!Lapse
<1>7. QED BY <1>6 DEF Ballot!Next

\* A response changes neither seals nor result.
LEMMA ResponseStutters ==
    ASSUME VotesInv, NEW a \in Accounts, SubmitResponse(a, theRegistry, theChallenge)
    PROVE  UNCHANGED Ballot!ballotVars
<1> USE PollAssumption
<1> DEFINE old == adjudications[theRegistry][theChallenge]
<1>1. old \in Adjudication
  BY DEF VotesInv, TypeOK
<1>2. adjudications'[theRegistry][theChallenge] =
            [old EXCEPT !.responseSubmittedAt = now, !.responseCount = old.responseCount + 1]
  BY DEF SubmitResponse, SetAdjudication, VotesInv, TypeOK
<1>3. /\ adjudications'[theRegistry][theChallenge].finalized = old.finalized
      /\ adjudications'[theRegistry][theChallenge].expired = old.expired
      /\ adjudications'[theRegistry][theChallenge].outcome = old.outcome
  BY <1>1, <1>2 DEF Adjudication
<1>4. ResultView' = ResultView
  BY <1>3 DEF ResultView
<1>5. QED BY <1>4 DEF SubmitResponse, Ballot!ballotVars, SealedView, OpenedView

\* Transactions about other polls do not show.
LEMMA OthersStutter ==
    ASSUME VotesInv, NEW r \in Registries, NEW c \in ChallengeIds,
           r # theRegistry \/ c # theChallenge,
           \/ \E a \in Accounts : SubmitResponse(a, r, c)
           \/ \E v \in Validators, b \in Bindings : CommitVerdict(v, r, c, b)
           \/ \E v \in Validators, claim \in Verdicts : RevealVerdict(v, r, c, claim)
           \/ \E claim \in Verdicts : FinalizeChallenge(r, c, claim)
           \/ ExpireChallengeNoQuorum(r, c)
    PROVE  UNCHANGED Ballot!ballotVars
<1> USE PollAssumption DEF VotesInv, TypeOK
<1>1. PICK adj : SetAdjudication(r, c, adj)
  BY DEF SubmitResponse, CommitVerdict, RevealVerdict, FinalizeChallenge,
         ExpireChallengeNoQuorum
<1>2. UNCHANGED adjudications[theRegistry][theChallenge]
  BY <1>1 DEF SetAdjudication
<1>3. \/ UNCHANGED commitments
      \/ \E v \in Validators : \E com :
            commitments' = [commitments EXCEPT ![r][c][v] = com]
  <2>1. ASSUME NEW v \in Validators, NEW claim \in Verdicts, RevealVerdict(v, r, c, claim)
        PROVE  commitments' = [commitments EXCEPT ![r][c][v] =
                                [commitments[r][c][v] EXCEPT !.revealed = TRUE]]
    BY <2>1 DEF RevealVerdict
  <2>2. QED BY <2>1 DEF SubmitResponse, CommitVerdict, FinalizeChallenge,
                        ExpireChallengeNoQuorum
<1>4. UNCHANGED commitments[theRegistry][theChallenge]
  <2>1. ASSUME NEW v \in Validators, NEW com,
               commitments' = [commitments EXCEPT ![r][c][v] = com]
        PROVE  UNCHANGED commitments[theRegistry][theChallenge]
    BY <2>1
  <2>2. QED BY <1>3, <2>1
<1>5. QED BY <1>2, <1>4, PollUntouchedStutters

\* Each adjudication implements the abstract ballot.
THEOREM AdjudicationImplementsBallot == Spec => ImplementsSealedBallot
<1> USE PollAssumption
<1>1. Init => Ballot!Init
  BY DEF Init, PollInit, NoAdjudication, NoCommitment, Ballot!Init, SealedView, OpenedView,
         ResultView
<1>2. VotesInv /\ [Next]_vars => [Ballot!Next]_Ballot!ballotVars
  <2> SUFFICES ASSUME VotesInv, [Next]_vars
               PROVE  Ballot!Next \/ UNCHANGED Ballot!ballotVars
    OBVIOUS
  <2>1. CASE RegistryStep \/ UNCHANGED vars
    BY <2>1, PollUntouchedStutters DEF RegistryStep, vars, pollVars
  <2>2. ASSUME NEW r \in Registries, NEW a \in Accounts, NEW x \in QuorumInputs,
               SetQuorum(a, r, x)
        PROVE  UNCHANGED Ballot!ballotVars
    BY <2>2, PollUntouchedStutters DEF SetQuorum
  <2>3. ASSUME NEW r \in Registries, PollCall(r)
        PROVE  Ballot!Next \/ UNCHANGED Ballot!ballotVars
    BY <2>2, <2>3, CommitSeals, RevealOpens, FinalizeDecides, ExpiryLapses,
       ResponseStutters, OthersStutter DEF PollCall
  <2>4. QED BY <2>1, <2>3 DEF Next
<1>3. QED BY <1>1, <1>2, VotesInvCorrect, PTL DEF Spec, ImplementsSealedBallot, Ballot!Spec

=============================================================================

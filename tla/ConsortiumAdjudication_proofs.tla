-------------------- MODULE ConsortiumAdjudication_proofs --------------------
(***************************************************************************)
(* The ChainMaker port: its polls are blind and the count written with a   *)
(* result stands, its records agree and a settled challenge keeps its      *)
(* verdict, whatever is upgraded, settled or closed in between; each poll  *)
(* ends and is a SealedBallot.  For any accounts, voters, challenges and   *)
(* periods.                                                                *)
(***************************************************************************)
EXTENDS ConsortiumAdjudication, FiniteSetTheorems, TLAPS

\* Nobody can respond any more, so the deadlines stand.
ResponseClosed(c) ==
    now > Deadlines(c).responseBy \/ polls[c].responseSubmittedAt # 0

\* A vote is inside its window, and a poll without a challenge has none.
VoteInv(c, v) ==
    /\ commitments[c][v].binds # "None" =>
            /\ challenges[c].status # "Unknown"
            /\ ResponseClosed(c)
            /\ commitments[c][v].committedAt <= Deadlines(c).commitBy
    /\ verdicts[c][v].claim # "None" =>
            /\ challenges[c].status # "Unknown"
            /\ ResponseClosed(c)
            /\ Deadlines(c).commitBy < verdicts[c][v].revealedAt

PollVotes(c) ==
    /\ challenges[c].status = "Unknown" => polls[c].responseSubmittedAt = 0
    /\ \A v \in Voters : VoteInv(c, v)

VotesInv == \A c \in ChallengeIds : PollVotes(c)

\* Who has a profile has a group, and what is challenged is stored.
ProfilesHaveGroups == \A a \in Addresses : profiles[a].exists => profiles[a].group \in Groups

ChallengedIsStored ==
    \A c \in ChallengeIds :
        challenges[c].status # "Unknown" => evidence[c.evidence].status # "Unknown"

FilingsInv == /\ ReportBackedByEvidence /\ ValidatorReportsProfiled
              /\ ProfilesHaveGroups /\ ChallengedIsStored

\* A verdict is what its voter sealed, and is not from the future.
SealInv(c, v) ==
    verdicts[c][v].claim # "None" =>
        /\ commitments[c][v].binds = verdicts[c][v].claim
        /\ commitments[c][v].revealed
        /\ verdicts[c][v].revealedAt <= now

SealsInv == \A c \in ChallengeIds, v \in Voters : SealInv(c, v)

IInv == TypeOK /\ VotesInv /\ SealsInv /\ CountStands /\ UpheldEvidenceFalls /\ FilingsInv

-----------------------------------------------------------------------------
(* Types *)

\* A count of voters is a number.
LEMMA CountIsNat ==
  ASSUME NEW c \in ChallengeIds, NEW claim
  PROVE  EffectiveVerdictCount(c, claim) \in Nat
<1>1. IsFiniteSet({v \in Voters : verdicts[c][v].claim = claim})
  BY ConsortiumAssumption, FS_Subset
<1>. QED
  BY <1>1, FS_CardinalityType DEF EffectiveVerdictCount

\* A challenge's evidence is evidence, and its deadlines are numbers in order.
LEMMA ChallengeTypes ==
  ASSUME TypeOK, NEW c \in ChallengeIds
  PROVE  /\ c.evidence \in EvidenceIds
         /\ Deadlines(c).responseBy \in Nat /\ Deadlines(c).commitBy \in Nat
         /\ Deadlines(c).revealBy \in Nat
<1>1. challenges[c] \in Challenge /\ polls[c] \in Poll
  BY DEF TypeOK
<1>. QED
  BY <1>1, ConsortiumAssumption DEF Deadlines, Challenge, Poll

\* Settling a challenge keeps the types, and changes one status and perhaps that of
\* its evidence.
LEMMA SettleEffect ==
  ASSUME TypeOK, NEW c \in ChallengeIds, NEW verdict \in Verdicts, Settle(c, verdict)
  PROVE  /\ challenges' \in [ChallengeIds -> Challenge] /\ evidence' \in [EvidenceIds -> Evidence]
         /\ challenges[c].status = "Submitted"
         /\ challenges' = [challenges EXCEPT ![c] =
                [status |-> verdict, submittedAt |-> challenges[c].submittedAt]]
         /\ \A e \in EvidenceIds :
                \/ evidence'[e] = evidence[e]
                \/ evidence'[e].status = "Invalidated"
         /\ \A e \in EvidenceIds \ {c.evidence} : evidence'[e] = evidence[e]
         /\ \A e \in EvidenceIds : evidence'[e].group = evidence[e].group
         /\ verdict = "Upheld" => evidence'[c.evidence].status = "Invalidated"
         /\ UNCHANGED <<now, modules, profiles, reports, pollVars>>
<1>1. /\ challenges[c] \in Challenge /\ c.evidence \in EvidenceIds
      /\ evidence[c.evidence] \in Evidence
  BY ChallengeTypes DEF TypeOK
<1>. DEFINE settled == [status |-> verdict, submittedAt |-> challenges[c].submittedAt]
            down    == [evidence[c.evidence] EXCEPT !.status = "Invalidated"]
<1>2. [challenges[c] EXCEPT !.status = verdict] = settled /\ settled \in Challenge
  BY <1>1 DEF Challenge
<1>3. down \in Evidence /\ down.status = "Invalidated" /\ down.group = evidence[c.evidence].group
  BY <1>1 DEF Evidence
<1>4. challenges' = [challenges EXCEPT ![c] = settled]
  BY <1>2 DEF Settle
<1>5. \/ evidence' = evidence /\ verdict # "Upheld"
      \/ evidence' = [evidence EXCEPT ![c.evidence] = down]
  BY DEF Settle, Uphold
<1>. HIDE DEF settled, down
<1>6. challenges' \in [ChallengeIds -> Challenge] /\ evidence' \in [EvidenceIds -> Evidence]
  BY <1>2, <1>3, <1>4, <1>5 DEF TypeOK
<1>7. \A e \in EvidenceIds : evidence'[e] = evidence[e] \/ evidence'[e].status = "Invalidated"
  BY <1>1, <1>3, <1>5 DEF TypeOK
<1>8. verdict = "Upheld" => evidence'[c.evidence].status = "Invalidated"
  BY <1>1, <1>3, <1>5 DEF TypeOK
<1>9. /\ \A e \in EvidenceIds \ {c.evidence} : evidence'[e] = evidence[e]
      /\ \A e \in EvidenceIds : evidence'[e].group = evidence[e].group
  BY <1>1, <1>3, <1>5 DEF TypeOK
<1>. QED
  BY <1>4, <1>6, <1>7, <1>8, <1>9 DEF Settle, settled, TypeOK

\* A response keeps the types.
LEMMA ResponseTypes ==
  ASSUME TypeOK, NEW c \in ChallengeIds, NEW a \in Addresses, SubmitResponse(a, c)
  PROVE  TypeOK'
<1>1. polls[c] \in Poll /\ now \in Nat
  BY DEF TypeOK
<1>. DEFINE poll == [polls[c] EXCEPT
          !.started = TRUE, !.respondent = a, !.responseSubmittedAt = now]
<1>2. poll \in Poll
  BY <1>1 DEF Poll
<1>3. polls' = [polls EXCEPT ![c] = poll]
  BY DEF SubmitResponse
<1>. HIDE DEF poll
<1>4. polls' \in [ChallengeIds -> Poll]
  BY <1>2, <1>3 DEF TypeOK
<1>. QED
  BY <1>4 DEF SubmitResponse, TypeOK, registryVars

\* So does a commitment,
LEMMA CommitTypes ==
  ASSUME TypeOK, NEW c \in ChallengeIds, NEW v \in Voters,
         NEW b \in Verdicts \cup {"Nothing"}, CommitVerdict(v, c, b)
  PROVE  TypeOK'
<1>. DEFINE commitment == [binds |-> b, committedAt |-> now, revealed |-> FALSE]
<1>1. commitments[c] \in [Voters -> Commitment] /\ commitment \in Commitment
  BY DEF TypeOK, Commitment
<1>2. commitments' = [commitments EXCEPT ![c] = [commitments[c] EXCEPT ![v] = commitment]]
  BY DEF CommitVerdict
<1>. HIDE DEF commitment
<1>3. commitments' \in [ChallengeIds -> [Voters -> Commitment]]
  BY <1>1, <1>2 DEF TypeOK
<1>. QED
  BY <1>3 DEF CommitVerdict, TypeOK, registryVars

\* a reveal,
LEMMA RevealTypes ==
  ASSUME TypeOK, NEW c \in ChallengeIds, NEW v \in Voters, NEW claim \in Verdicts,
         RevealVerdict(v, c, claim)
  PROVE  TypeOK'
<1>. DEFINE commitment == [commitments[c][v] EXCEPT !.revealed = TRUE]
            verdict    == [claim |-> claim, revealedAt |-> now]
<1>1. /\ commitments[c] \in [Voters -> Commitment] /\ verdicts[c] \in [Voters -> Verdict]
      /\ commitment \in Commitment /\ verdict \in Verdict
  <2>1. /\ commitments[c] \in [Voters -> Commitment] /\ verdicts[c] \in [Voters -> Verdict]
        /\ now \in Nat
    BY DEF TypeOK
  <2>2. commitments[c][v] \in Commitment
    BY <2>1
  <2>. QED
    BY <2>1, <2>2 DEF Commitment, Verdict
<1>2. /\ commitments' = [commitments EXCEPT ![c] = [commitments[c] EXCEPT ![v] = commitment]]
      /\ verdicts' = [verdicts EXCEPT ![c] = [verdicts[c] EXCEPT ![v] = verdict]]
  BY DEF RevealVerdict
<1>. HIDE DEF commitment, verdict
<1>3. /\ commitments' \in [ChallengeIds -> [Voters -> Commitment]]
      /\ verdicts' \in [ChallengeIds -> [Voters -> Verdict]]
  BY <1>1, <1>2 DEF TypeOK
<1>. QED
  BY <1>3 DEF RevealVerdict, TypeOK, registryVars

\* a closing transaction,
LEMMA ClosingTypes ==
  ASSUME TypeOK, NEW c \in ChallengeIds, NEW claim \in Verdicts,
         FinalizeChallenge(c, claim) \/ ExpireChallenge(c)
  PROVE  TypeOK'
<1>1. polls[c] \in Poll /\ now \in Nat /\ EffectiveVerdictCount(c, claim) \in Nat
  BY CountIsNat DEF TypeOK
<1>. DEFINE result == [polls[c] EXCEPT !.finalized = TRUE, !.outcome = claim,
                          !.effectiveVerdictCount = EffectiveVerdictCount(c, claim)]
            lapse  == [polls[c] EXCEPT !.expired = TRUE, !.expiredAt = now]
<1>2. result \in Poll /\ lapse \in Poll
  BY <1>1 DEF Poll
<1>3. /\ polls' = [polls EXCEPT ![c] = result] \/ polls' = [polls EXCEPT ![c] = lapse]
      /\ UNCHANGED <<now, registryVars, quorum, commitments, verdicts>>
  BY DEF FinalizeChallenge, ExpireChallenge
<1>. HIDE DEF result, lapse
<1>4. polls' \in [ChallengeIds -> Poll]
  BY <1>2, <1>3 DEF TypeOK
<1>. QED
  BY <1>3, <1>4 DEF TypeOK, registryVars

\* what the registry contracts do,
LEMMA RegistryTypes ==
  ASSUME TypeOK, RegistryCall
  PROVE  TypeOK'
<1>. USE DEF pollVars
<1>1. ASSUME NEW m \in Modules, SubmitModule(m)
      PROVE  TypeOK'
  BY <1>1 DEF SubmitModule, TypeOK
<1>2. ASSUME NEW a \in Addresses, NEW v \in Voters, NEW g \in Groups, NEW allowed \in BOOLEAN,
             SetValidatorProfile(a, v, g, allowed)
      PROVE  TypeOK'
  BY <1>2 DEF SetValidatorProfile, TypeOK, Profile
<1>3. ASSUME NEW e \in EvidenceIds, NEW g \in Groups \cup {NoGroup}, NEW w \in Nat,
             RecordEvidence(e, g, w)
      PROVE  evidence' \in [EvidenceIds -> Evidence]
  BY <1>3 DEF RecordEvidence, TypeOK, Evidence
<1>4. ASSUME NEW a \in Addresses, NEW m \in Modules, NEW b \in Bundles, SubmitReport(a, m, b)
      PROVE  TypeOK'
  <2>1. evidence' \in [EvidenceIds -> Evidence]
    BY <1>3, <1>4 DEF SubmitReport, RecordEvidence
  <2>. QED
    BY <1>4, <2>1 DEF SubmitReport, TypeOK
<1>5. ASSUME NEW a \in Addresses, NEW m \in Modules, NEW b \in Bundles,
             NEW t \in EvidenceTypes, NEW g \in Groups \cup {NoGroup}, NEW w \in Windows,
             SubmitEvidence(a, m, b, t, g, w)
      PROVE  TypeOK'
  <2>1. profiles[a].group \in Groups \cup {NoGroup}
    BY DEF TypeOK, Profile
  <2>2. /\ Filed(a, t, g, w).group \in Groups \cup {NoGroup}
        /\ Filed(a, t, g, w).window \in Nat
    BY <2>1, ConsortiumAssumption DEF Filed
  <2>3. evidence' \in [EvidenceIds -> Evidence]
    BY <1>3, <1>5, <2>2 DEF SubmitEvidence, RecordEvidence
  <2>. QED
    BY <1>5, <2>3 DEF SubmitEvidence, TypeOK
<1>6. ASSUME NEW a \in Addresses, NEW e \in EvidenceIds, InvalidateEvidence(a, e)
      PROVE  TypeOK'
  <2>1. evidence' \in [EvidenceIds -> Evidence]
    BY <1>6 DEF InvalidateEvidence, TypeOK, Evidence
  <2>. QED
    BY <1>6, <2>1 DEF InvalidateEvidence, TypeOK
<1>7. ASSUME NEW a \in Addresses, NEW c \in ChallengeIds, SubmitChallenge(a, c)
      PROVE  TypeOK'
  <2>1. challenges' \in [ChallengeIds -> Challenge]
    BY <1>7 DEF SubmitChallenge, TypeOK, Challenge
  <2>. QED
    BY <1>7, <2>1 DEF SubmitChallenge, TypeOK
<1>8. ASSUME NEW a \in Addresses, NEW c \in ChallengeIds, NEW claim \in Verdicts,
             ResolveChallenge(a, c, claim) \/ ResolveChallengeFromAdjudicator(a, c, claim)
      PROVE  TypeOK'
  <2>1. Settle(c, claim)
    BY <1>8 DEF ResolveChallenge, ResolveChallengeFromAdjudicator
  <2>2. /\ challenges' \in [ChallengeIds -> Challenge] /\ evidence' \in [EvidenceIds -> Evidence]
        /\ UNCHANGED <<now, modules, profiles, reports, pollVars>>
    BY <2>1, SettleEffect
  <2>. QED
    BY <2>2 DEF TypeOK
<1>. QED
  BY <1>1, <1>2, <1>4, <1>5, <1>6, <1>7, <1>8 DEF RegistryCall

\* and every step.
LEMMA TypesKept ==
  ASSUME TypeOK, [Next]_vars
  PROVE  TypeOK'
<1>1. ASSUME NEW a \in Addresses, NEW q \in QuorumInputs, SetQuorum(a, q)
      PROVE  TypeOK'
  BY <1>1 DEF SetQuorum, TypeOK, registryVars
<1>2. CASE UpgradeContract
  BY <1>2 DEF UpgradeContract, TypeOK, registryVars
<1>3. CASE Tick
  BY <1>3 DEF Tick, TypeOK, registryVars, pollVars
<1>4. CASE UNCHANGED vars
  BY <1>4 DEF vars, TypeOK, registryVars, pollVars
<1>5. ASSUME NEW c \in ChallengeIds, NEW a \in Responders, SubmitResponse(a, c)
      PROVE  TypeOK'
  BY <1>5, ResponseTypes, ConsortiumAssumption
<1>6. ASSUME NEW c \in ChallengeIds, ExpireChallenge(c)
      PROVE  TypeOK'
  <2>1. "Upheld" \in Verdicts
    BY DEF Verdicts
  <2>. QED
    BY <1>6, <2>1, ClosingTypes
<1>7. ASSUME NEW c \in ChallengeIds, NEW claim \in Verdicts, FinalizeChallenge(c, claim)
      PROVE  TypeOK'
  BY <1>7, ClosingTypes
<1>8. CASE PollCall
  BY <1>1, <1>2, <1>5, <1>6, <1>7, <1>8, CommitTypes, RevealTypes DEF PollCall
<1>. QED
  BY <1>3, <1>4, <1>8, RegistryTypes DEF Next
-----------------------------------------------------------------------------
(* What the registry contracts do to a challenge and its evidence *)

\* A challenge stays stored with its time, and a settled one stays as it is.
ChallengeKept(c) ==
    /\ challenges[c].status # "Unknown" =>
            /\ challenges'[c].status # "Unknown"
            /\ challenges'[c].submittedAt = challenges[c].submittedAt
    /\ challenges[c].status \in Verdicts => challenges'[c] = challenges[c]

\* Upholding takes the evidence down.
UpheldFalls(c) ==
    challenges'[c].status = "Upheld" =>
        challenges'[c] = challenges[c] \/ evidence'[c.evidence].status = "Invalidated"

EvidenceStaysDown ==
    \A e \in EvidenceIds :
        evidence[e].status = "Invalidated" => evidence'[e].status = "Invalidated"

RegistryKeeps ==
    /\ \A c \in ChallengeIds : ChallengeKept(c) /\ UpheldFalls(c)
    /\ EvidenceStaysDown

\* The registry's own invocations keep challenges and evidence so, and leave the polls alone.
LEMMA RegistryEffect ==
  ASSUME TypeOK, RegistryCall
  PROVE  RegistryKeeps /\ UNCHANGED <<now, pollVars>>
<1>1. ASSUME UNCHANGED challenges, EvidenceStaysDown
      PROVE  RegistryKeeps
  BY <1>1 DEF RegistryKeeps, ChallengeKept, UpheldFalls
<1>2. ASSUME UNCHANGED evidence
      PROVE  EvidenceStaysDown
  BY <1>2 DEF EvidenceStaysDown
<1>3. ASSUME NEW e, NEW g, NEW w, RecordEvidence(e, g, w)
      PROVE  EvidenceStaysDown
  BY <1>3 DEF RecordEvidence, EvidenceStaysDown, TypeOK
<1>4. ASSUME NEW m \in Modules, SubmitModule(m)
      PROVE  RegistryKeeps /\ UNCHANGED <<now, pollVars>>
  BY <1>1, <1>2, <1>4 DEF SubmitModule
<1>5. ASSUME NEW a \in Addresses, NEW v \in Voters, NEW g \in Groups, NEW allowed \in BOOLEAN,
             SetValidatorProfile(a, v, g, allowed)
      PROVE  RegistryKeeps /\ UNCHANGED <<now, pollVars>>
  BY <1>1, <1>2, <1>5 DEF SetValidatorProfile
<1>6. ASSUME NEW a \in Addresses, NEW m \in Modules, NEW b \in Bundles, SubmitReport(a, m, b)
      PROVE  RegistryKeeps /\ UNCHANGED <<now, pollVars>>
  BY <1>1, <1>3, <1>6 DEF SubmitReport
<1>7. ASSUME NEW a \in Addresses, NEW m \in Modules, NEW b \in Bundles,
             NEW t \in EvidenceTypes, NEW g \in Groups \cup {NoGroup}, NEW w \in Windows,
             SubmitEvidence(a, m, b, t, g, w)
      PROVE  RegistryKeeps /\ UNCHANGED <<now, pollVars>>
  BY <1>1, <1>3, <1>7 DEF SubmitEvidence
<1>8. ASSUME NEW a \in Addresses, NEW e \in EvidenceIds, InvalidateEvidence(a, e)
      PROVE  RegistryKeeps /\ UNCHANGED <<now, pollVars>>
  <2>1. EvidenceStaysDown
    BY <1>8 DEF InvalidateEvidence, EvidenceStaysDown, TypeOK, Evidence
  <2>. QED
    BY <1>1, <1>8, <2>1 DEF InvalidateEvidence
<1>9. ASSUME NEW a \in Addresses, NEW d \in ChallengeIds, SubmitChallenge(a, d)
      PROVE  RegistryKeeps /\ UNCHANGED <<now, pollVars>>
  <2>1. ASSUME NEW c \in ChallengeIds
        PROVE  ChallengeKept(c) /\ UpheldFalls(c)
    BY <1>9 DEF SubmitChallenge, ChallengeKept, UpheldFalls, TypeOK, Verdicts
  <2>. QED
    BY <1>2, <1>9, <2>1 DEF SubmitChallenge, RegistryKeeps
<1>10. ASSUME NEW a \in Addresses, NEW d \in ChallengeIds, NEW claim \in Verdicts,
              ResolveChallenge(a, d, claim) \/ ResolveChallengeFromAdjudicator(a, d, claim)
       PROVE  RegistryKeeps /\ UNCHANGED <<now, pollVars>>
  <2>1. Settle(d, claim)
    BY <1>10 DEF ResolveChallenge, ResolveChallengeFromAdjudicator
  <2>. DEFINE settled == [status |-> claim, submittedAt |-> challenges[d].submittedAt]
  <2>2. /\ challenges[d].status = "Submitted"
        /\ challenges' = [challenges EXCEPT ![d] = settled]
        /\ \A e \in EvidenceIds :
                evidence'[e] = evidence[e] \/ evidence'[e].status = "Invalidated"
        /\ claim = "Upheld" => evidence'[d.evidence].status = "Invalidated"
        /\ UNCHANGED <<now, pollVars>>
    BY <2>1, SettleEffect
  <2>3. ASSUME NEW c \in ChallengeIds
        PROVE  ChallengeKept(c) /\ UpheldFalls(c)
    BY <2>2 DEF ChallengeKept, UpheldFalls, TypeOK, Verdicts
  <2>. QED
    BY <2>2, <2>3 DEF RegistryKeeps, EvidenceStaysDown
<1>. QED
  BY <1>4, <1>5, <1>6, <1>7, <1>8, <1>9, <1>10 DEF RegistryCall

\* Every step keeps challenges and evidence so, and time does not go back.
LEMMA StepKeeps ==
  ASSUME TypeOK, [Next]_vars
  PROVE  RegistryKeeps /\ now' \in {now, now + 1}
<1>1. ASSUME UNCHANGED registryVars
      PROVE  RegistryKeeps
  BY <1>1 DEF registryVars, RegistryKeeps, ChallengeKept, UpheldFalls, EvidenceStaysDown
<1>2. CASE PollCall
  BY <1>1, <1>2 DEF PollCall, SetQuorum, SubmitResponse, CommitVerdict, RevealVerdict,
     FinalizeChallenge, ExpireChallenge, UpgradeContract
<1>3. CASE Tick \/ UNCHANGED vars
  BY <1>1, <1>3 DEF Tick, vars
<1>. QED
  BY <1>2, <1>3, RegistryEffect DEF Next

-----------------------------------------------------------------------------
(* What is filed *)

\* What is filed stays filed, in its group; what a step files as a validator report has a
\* profiled sender and its group; and what it challenges was filed.
FilingsKeep ==
    /\ \A e \in EvidenceIds :
            IF evidence[e].status # "Unknown"
            THEN evidence'[e].status # "Unknown" /\ evidence'[e].group = evidence[e].group
            ELSE evidence'[e].status # "Unknown" /\ e.type = "ValidatorReport"
                    => profiles[e.reporter].exists /\ evidence'[e].group # NoGroup
    /\ \A c \in ChallengeIds :
            challenges'[c].status # "Unknown" =>
                \/ challenges[c].status # "Unknown"
                \/ evidence[c.evidence].status # "Unknown"

\* Such a step keeps what is filed in order, if reports and profiles do not change.
LEMMA KeepingKeeps ==
  ASSUME TypeOK, FilingsInv, FilingsKeep, UNCHANGED <<reports, profiles>>
  PROVE  FilingsInv'
<1>1. ReportBackedByEvidence'
  BY DEF FilingsInv, ReportBackedByEvidence, FilingsKeep, EvidenceId
<1>2. ValidatorReportsProfiled'
  BY DEF FilingsInv, ValidatorReportsProfiled, FilingsKeep
<1>3. ProfilesHaveGroups' /\ ChallengedIsStored'
  BY ChallengeTypes DEF FilingsInv, ProfilesHaveGroups, ChallengedIsStored, FilingsKeep
<1>. QED
  BY <1>1, <1>2, <1>3 DEF FilingsInv

\* A profile that is set has a group, and takes nobody's away.
LEMMA ProfilesKeepFilings ==
  ASSUME TypeOK, FilingsInv, NEW a \in Addresses, NEW v \in Voters, NEW g \in Groups,
         NEW allowed \in BOOLEAN, SetValidatorProfile(a, v, g, allowed)
  PROVE  FilingsInv'
<1>1. /\ UNCHANGED <<reports, evidence, challenges>> /\ v \in Addresses
      /\ profiles' = [profiles EXCEPT ![v] =
                           [exists |-> TRUE, allowed |-> allowed, group |-> g]]
  BY ConsortiumAssumption DEF SetValidatorProfile
<1>2. \A b \in Addresses : /\ profiles[b].exists => profiles'[b].exists
                           /\ profiles'[b] = profiles[b] \/ profiles'[b].group = g
  BY <1>1 DEF TypeOK
<1>3. ReportBackedByEvidence' /\ ChallengedIsStored'
  BY <1>1 DEF FilingsInv, ReportBackedByEvidence, ChallengedIsStored
<1>4. ValidatorReportsProfiled' /\ ProfilesHaveGroups'
  BY <1>1, <1>2, ConsortiumAssumption
     DEF FilingsInv, ValidatorReportsProfiled, ProfilesHaveGroups
<1>. QED
  BY <1>3, <1>4 DEF FilingsInv

\* A report comes with its evidence.
LEMMA ReportsKeepFilings ==
  ASSUME TypeOK, FilingsInv, NEW a \in Addresses, NEW m \in Modules, NEW b \in Bundles,
         SubmitReport(a, m, b)
  PROVE  FilingsInv'
<1>. DEFINE e == EvidenceId(m, b, a, "LocalClientReport")
<1>1. /\ reports' = reports \cup {[module |-> m, bundle |-> b, reporter |-> a]}
      /\ e \in EvidenceIds /\ evidence[e].status = "Unknown"
      /\ evidence' = [evidence EXCEPT ![e] =
                          [status |-> "Active", group |-> NoGroup, window |-> 0]]
      /\ UNCHANGED <<profiles, challenges>>
  BY DEF SubmitReport, RecordEvidence
<1>2. \A d \in EvidenceIds \ {e} : evidence'[d] = evidence[d]
  BY <1>1 DEF TypeOK
<1>3. evidence'[e].status = "Active"
  BY <1>1 DEF TypeOK
<1>4. e.type = "LocalClientReport"
  BY DEF EvidenceId
<1>. HIDE DEF e
<1>5. ReportBackedByEvidence'
  <2>. DEFINE Own(rep) == EvidenceId(rep.module, rep.bundle, rep.reporter, "LocalClientReport")
  <2>1. ASSUME NEW rep \in reports
        PROVE  Own(rep) \in EvidenceIds /\ evidence'[Own(rep)].status # "Unknown"
    BY <1>2, <1>3 DEF FilingsInv, ReportBackedByEvidence
  <2>2. Own([module |-> m, bundle |-> b, reporter |-> a]) = e
    BY DEF e
  <2>. QED
    BY <1>1, <1>3, <2>1, <2>2 DEF ReportBackedByEvidence
<1>6. ValidatorReportsProfiled'
  BY <1>1, <1>2, <1>4 DEF FilingsInv, ValidatorReportsProfiled
<1>7. ProfilesHaveGroups' /\ ChallengedIsStored'
  BY <1>1, <1>2, <1>3, ChallengeTypes DEF FilingsInv, ProfilesHaveGroups, ChallengedIsStored
<1>. QED
  BY <1>5, <1>6, <1>7 DEF FilingsInv

\* Evidence is filed as a validator report by profiled senders only.
LEMMA EvidenceKeepsFilings ==
  ASSUME TypeOK, FilingsInv, NEW a \in Addresses, NEW m \in Modules, NEW b \in Bundles,
         NEW t \in EvidenceTypes, NEW g \in Groups \cup {NoGroup}, NEW w \in Windows,
         SubmitEvidence(a, m, b, t, g, w)
  PROVE  FilingsInv'
<1>. DEFINE filed == Filed(a, t, g, w)
            e     == EvidenceId(m, b, a, filed.type)
<1>1. /\ e \in EvidenceIds
      /\ evidence' = [evidence EXCEPT ![e] =
                          [status |-> "Active", group |-> filed.group, window |-> filed.window]]
      /\ UNCHANGED <<reports, profiles, challenges>>
  BY DEF SubmitEvidence, RecordEvidence
<1>2. filed.type = "ValidatorReport" => profiles[a].exists /\ filed.group = profiles[a].group
  BY DEF Filed, Demoted, IsQualifiedValidator
<1>3. e.type = filed.type /\ e.reporter = a
  BY DEF EvidenceId
<1>4. evidence[e].status = "Unknown"
  BY DEF SubmitEvidence, RecordEvidence
<1>. HIDE DEF filed, e
<1>5. e.type = "ValidatorReport" => profiles[e.reporter].exists /\ filed.group # NoGroup
  BY <1>2, <1>3, ConsortiumAssumption DEF FilingsInv, ProfilesHaveGroups
<1>6. FilingsKeep
  BY <1>1, <1>4, <1>5 DEF FilingsKeep, TypeOK
<1>. QED
  BY <1>1, <1>6, KeepingKeeps

\* Every step keeps what is filed in order.
LEMMA FilingsKept ==
  ASSUME TypeOK, FilingsInv, [Next]_vars
  PROVE  FilingsInv'
<1>1. ASSUME UNCHANGED <<reports, profiles, evidence, challenges>>
      PROVE  FilingsInv'
  BY <1>1, KeepingKeeps DEF FilingsKeep
<1>2. CASE PollCall \/ Tick \/ UNCHANGED vars
  BY <1>1, <1>2 DEF PollCall, SetQuorum, SubmitResponse, CommitVerdict, RevealVerdict,
     FinalizeChallenge, ExpireChallenge, UpgradeContract, Tick, vars, registryVars
<1>3. ASSUME NEW m \in Modules, SubmitModule(m)
      PROVE  FilingsInv'
  BY <1>1, <1>3 DEF SubmitModule
<1>4. ASSUME NEW a \in Addresses, NEW e \in EvidenceIds, InvalidateEvidence(a, e)
      PROVE  FilingsInv'
  <2>1. [evidence[e] EXCEPT !.status = "Invalidated"].group = evidence[e].group
    BY DEF TypeOK, Evidence
  <2>2. FilingsKeep
    BY <1>4, <2>1 DEF InvalidateEvidence, FilingsKeep, TypeOK, Evidence
  <2>. QED
    BY <1>4, <2>2, KeepingKeeps DEF InvalidateEvidence
<1>5. ASSUME NEW a \in Addresses, NEW d \in ChallengeIds, SubmitChallenge(a, d)
      PROVE  FilingsInv'
  <2>1. FilingsKeep
    BY <1>5, ChallengeTypes DEF SubmitChallenge, FilingsKeep, TypeOK
  <2>. QED
    BY <1>5, <2>1, KeepingKeeps DEF SubmitChallenge
<1>6. ASSUME NEW a \in Addresses, NEW d \in ChallengeIds, NEW claim \in Verdicts,
             ResolveChallenge(a, d, claim) \/ ResolveChallengeFromAdjudicator(a, d, claim)
      PROVE  FilingsInv'
  <2>1. Settle(d, claim) /\ d.evidence \in EvidenceIds
    BY <1>6, ChallengeTypes DEF ResolveChallenge, ResolveChallengeFromAdjudicator
  <2>2. evidence[d.evidence].status # "Unknown"
    BY <2>1 DEF Settle, FilingsInv, ChallengedIsStored
  <2>3. /\ \A e \in EvidenceIds \ {d.evidence} : evidence'[e] = evidence[e]
        /\ \A e \in EvidenceIds : /\ evidence'[e].group = evidence[e].group
                                  /\ \/ evidence'[e] = evidence[e]
                                     \/ evidence'[e].status = "Invalidated"
        /\ \A c \in ChallengeIds \ {d} : challenges'[c] = challenges[c]
        /\ challenges[d].status = "Submitted"
        /\ UNCHANGED <<reports, profiles>>
    BY <2>1, SettleEffect DEF TypeOK
  <2>. QED
    BY <2>2, <2>3, KeepingKeeps DEF FilingsKeep
<1>. QED
  BY <1>2, <1>3, <1>4, <1>5, <1>6, ProfilesKeepFilings, ReportsKeepFilings,
     EvidenceKeepsFilings DEF Next, RegistryCall

-----------------------------------------------------------------------------
(* Closed polls *)

\* A closed poll and its verdicts stay, and only finalizing an open one finalizes it.
LEMMA ClosedStay ==
  ASSUME TypeOK, [Next]_vars, NEW c \in ChallengeIds
  PROVE  /\ ~ IsOpen(c) => polls'[c] = polls[c] /\ verdicts'[c] = verdicts[c]
         /\ IsOpen(c) /\ polls'[c].finalized =>
                \E claim \in Verdicts : FinalizeChallenge(c, claim)
<1>. DEFINE Kept == polls'[c] = polls[c] /\ verdicts'[c] = verdicts[c]
<1>. USE DEF IsOpen
<1>1. ASSUME NEW a \in Responders, NEW d \in ChallengeIds, SubmitResponse(a, d)
      PROVE  /\ ~ IsOpen(c) => Kept
             /\ IsOpen(c) => ~ polls'[c].finalized
  <2>1. polls[d] \in Poll /\ IsOpen(d)
    BY <1>1 DEF SubmitResponse, CurrentPhase, TypeOK
  <2>2. [polls[d] EXCEPT !.started = TRUE, !.respondent = a,
                         !.responseSubmittedAt = now].finalized = polls[d].finalized
    BY <2>1 DEF Poll
  <2>. QED
    BY <1>1, <2>1, <2>2 DEF SubmitResponse, TypeOK
<1>2. ASSUME NEW v \in Voters, NEW d \in ChallengeIds, NEW claim \in Verdicts,
             RevealVerdict(v, d, claim)
      PROVE  /\ ~ IsOpen(c) => Kept
             /\ IsOpen(c) => ~ polls'[c].finalized
  BY <1>2 DEF RevealVerdict, CurrentPhase, TypeOK
<1>3. ASSUME NEW d \in ChallengeIds, NEW claim \in Verdicts, FinalizeChallenge(d, claim)
      PROVE  /\ ~ IsOpen(c) => Kept
             /\ IsOpen(c) /\ polls'[c].finalized => d = c
  BY <1>3 DEF FinalizeChallenge, TypeOK
<1>4. ASSUME NEW d \in ChallengeIds, ExpireChallenge(d)
      PROVE  /\ ~ IsOpen(c) => Kept
             /\ IsOpen(c) => ~ polls'[c].finalized
  <2>1. polls[d] \in Poll /\ IsOpen(d)
    BY <1>4 DEF ExpireChallenge, TypeOK
  <2>2. [polls[d] EXCEPT !.expired = TRUE, !.expiredAt = now].finalized = polls[d].finalized
    BY <2>1 DEF Poll
  <2>. QED
    BY <1>4, <2>1, <2>2 DEF ExpireChallenge, TypeOK
<1>5. ASSUME UNCHANGED <<polls, verdicts>>
      PROVE  /\ ~ IsOpen(c) => Kept
             /\ IsOpen(c) => ~ polls'[c].finalized
  BY <1>5
<1>6. CASE RegistryCall \/ Tick \/ UNCHANGED vars
  BY <1>5, <1>6, RegistryEffect DEF pollVars, Tick, vars
<1>7. CASE PollCall
  BY <1>1, <1>2, <1>3, <1>4, <1>5, <1>7
     DEF PollCall, SetQuorum, CommitVerdict, UpgradeContract
<1>. QED
  BY <1>6, <1>7 DEF Next

\* A count is that of the verdicts it was taken of, then and later.
LEMMA CountsKept ==
  ASSUME TypeOK, [Next]_vars, CountStands
  PROVE  CountStands'
<1>. SUFFICES ASSUME NEW c \in ChallengeIds, polls'[c].finalized
              PROVE  /\ polls'[c].effectiveVerdictCount =
                            EffectiveVerdictCount(c, polls[c].outcome)'
                     /\ ~ polls'[c].expired
  BY DEF CountStands
<1>1. polls[c] \in Poll
  BY DEF TypeOK
<1>2. CASE ~ IsOpen(c)
  <2>1. polls'[c] = polls[c] /\ verdicts'[c] = verdicts[c]
    BY <1>2, ClosedStay
  <2>. QED
    BY <2>1 DEF CountStands, EffectiveVerdictCount
<1>3. CASE IsOpen(c)
  <2>1. PICK claim \in Verdicts : FinalizeChallenge(c, claim)
    BY <1>3, ClosedStay
  <2>. DEFINE result == [polls[c] EXCEPT !.finalized = TRUE, !.outcome = claim,
                            !.effectiveVerdictCount = EffectiveVerdictCount(c, claim)]
  <2>2. /\ result.outcome = claim /\ result.expired = polls[c].expired
        /\ result.effectiveVerdictCount = EffectiveVerdictCount(c, claim)
    BY <1>1 DEF Poll
  <2>3. polls'[c] = result /\ verdicts' = verdicts
    BY <2>1 DEF FinalizeChallenge, TypeOK
  <2>. HIDE DEF result
  <2>. QED
    BY <1>3, <2>2, <2>3 DEF IsOpen, EffectiveVerdictCount
<1>. QED
  BY <1>2, <1>3

-----------------------------------------------------------------------------
(* Votes *)

\* A step that is none of poll c's own three transactions.
Quiet(c) ==
    /\ polls'[c].responseSubmittedAt = polls[c].responseSubmittedAt
    /\ commitments'[c] = commitments[c]
    /\ verdicts'[c] = verdicts[c]

\* As long as no response comes, the deadlines of a stored challenge stand.
LEMMA DeadlinesKept ==
  ASSUME TypeOK, NEW c \in ChallengeIds, ChallengeKept(c), now' \in {now, now + 1},
         challenges[c].status # "Unknown",
         polls'[c].responseSubmittedAt = polls[c].responseSubmittedAt
  PROVE  /\ challenges'[c].status # "Unknown"
         /\ Deadlines(c)' = Deadlines(c)
         /\ ResponseClosed(c) => ResponseClosed(c)'
<1>1. now \in Nat /\ Deadlines(c).responseBy \in Nat
  BY ChallengeTypes DEF TypeOK
<1>2. challenges'[c].status # "Unknown" /\ Deadlines(c)' = Deadlines(c)
  BY DEF ChallengeKept, Deadlines
<1>. QED
  BY <1>1, <1>2 DEF ResponseClosed

\* A step that leaves a poll's response and votes alone keeps what is said of its votes.
LEMMA QuietKeepsVotes ==
  ASSUME TypeOK, NEW c \in ChallengeIds, PollVotes(c), Quiet(c),
         ChallengeKept(c), now' \in {now, now + 1}
  PROVE  PollVotes(c)'
<1>1. ASSUME NEW v \in Voters
      PROVE  VoteInv(c, v)'
  BY DeadlinesKept DEF PollVotes, VoteInv, Quiet
<1>. QED
  BY <1>1 DEF PollVotes, Quiet, ChallengeKept

\* A response comes before any vote.
LEMMA ResponseKeepsVotes ==
  ASSUME TypeOK, NEW c \in ChallengeIds, PollVotes(c), NEW a, SubmitResponse(a, c)
  PROVE  PollVotes(c)'
<1>1. ~ ResponseClosed(c) /\ challenges[c].status # "Unknown"
  BY ChallengeTypes DEF SubmitResponse, CurrentPhase, ResponseClosed, Deadlines, TypeOK
<1>2. ASSUME NEW v \in Voters
      PROVE  VoteInv(c, v)'
  BY <1>1 DEF PollVotes, VoteInv, SubmitResponse
<1>. QED
  BY <1>1, <1>2 DEF PollVotes, SubmitResponse, registryVars

\* Commitments and reveals come in their phases.
LEMMA VoteKeepsVotes ==
  ASSUME TypeOK, NEW c \in ChallengeIds, PollVotes(c), NEW v \in Voters,
         \/ \E b \in Verdicts \cup {"Nothing"} : CommitVerdict(v, c, b)
         \/ \E claim \in Verdicts : RevealVerdict(v, c, claim)
  PROVE  PollVotes(c)'
<1>1. UNCHANGED <<now, challenges, polls>>
  BY DEF CommitVerdict, RevealVerdict, registryVars
<1>2. /\ Deadlines(c)' = Deadlines(c)
      /\ ResponseClosed(c) => ResponseClosed(c)'
  BY <1>1 DEF Deadlines, ResponseClosed
<1>3. /\ now \in Nat \ {0} /\ Deadlines(c).responseBy \in Nat
      /\ Deadlines(c).commitBy \in Nat /\ Deadlines(c).revealBy \in Nat
  BY ChallengeTypes DEF TypeOK
<1>4. ASSUME NEW w \in Voters, w # v
      PROVE  VoteInv(c, w)'
  <2>1. commitments'[c][w] = commitments[c][w] /\ verdicts'[c][w] = verdicts[c][w]
    BY <1>4 DEF CommitVerdict, RevealVerdict, TypeOK
  <2>. QED
    BY <1>1, <1>2, <2>1 DEF PollVotes, VoteInv
<1>5. VoteInv(c, v)'
  <2>1. ASSUME NEW b \in Verdicts \cup {"Nothing"}, CommitVerdict(v, c, b)
        PROVE  VoteInv(c, v)'
    <3>1. /\ now <= Deadlines(c).commitBy /\ ResponseClosed(c)
          /\ challenges[c].status # "Unknown"
      BY <1>3, <2>1 DEF CommitVerdict, CurrentPhase, ResponseClosed, Deadlines
    <3>2. commitments'[c][v].committedAt = now /\ verdicts' = verdicts
      BY <2>1 DEF CommitVerdict, TypeOK
    <3>. QED
      BY <1>1, <1>2, <3>1, <3>2 DEF PollVotes, VoteInv
  <2>2. ASSUME NEW claim \in Verdicts, RevealVerdict(v, c, claim)
        PROVE  VoteInv(c, v)'
    <3>1. /\ Deadlines(c).commitBy < now /\ ResponseClosed(c)
          /\ challenges[c].status # "Unknown"
      BY <1>3, <2>2 DEF RevealVerdict, CurrentPhase, ResponseClosed, Deadlines
    <3>2. commitments[c][v] \in Commitment
      BY DEF TypeOK
    <3>3. /\ commitments'[c][v].binds = commitments[c][v].binds
          /\ commitments'[c][v].committedAt = commitments[c][v].committedAt
          /\ verdicts'[c][v].revealedAt = now
      BY <2>2, <3>2 DEF RevealVerdict, TypeOK, Commitment
    <3>. QED
      BY <1>1, <1>2, <3>1, <3>3 DEF PollVotes, VoteInv
  <2>. QED
    BY <2>1, <2>2
<1>. QED
  BY <1>1, <1>4, <1>5 DEF PollVotes

\* Every step does.
LEMMA VotesKept ==
  ASSUME TypeOK, [Next]_vars, VotesInv
  PROVE  VotesInv'
<1>. SUFFICES ASSUME NEW c \in ChallengeIds
              PROVE  PollVotes(c)'
  BY DEF VotesInv
<1>1. PollVotes(c) /\ ChallengeKept(c) /\ now' \in {now, now + 1}
  BY StepKeeps DEF VotesInv, RegistryKeeps
<1>2. ASSUME Quiet(c)
      PROVE  PollVotes(c)'
  BY <1>1, <1>2, QuietKeepsVotes
<1>3. ASSUME NEW a \in Responders, NEW d \in ChallengeIds, SubmitResponse(a, d)
      PROVE  PollVotes(c)'
  <2>1. d # c => Quiet(c)
    BY <1>3 DEF SubmitResponse, Quiet, TypeOK
  <2>. QED
    BY <1>1, <1>2, <1>3, <2>1, ResponseKeepsVotes
<1>4. ASSUME NEW v \in Voters, NEW d \in ChallengeIds,
             \/ \E b \in Verdicts \cup {"Nothing"} : CommitVerdict(v, d, b)
             \/ \E claim \in Verdicts : RevealVerdict(v, d, claim)
      PROVE  PollVotes(c)'
  <2>1. d # c => Quiet(c)
    BY <1>4 DEF CommitVerdict, RevealVerdict, Quiet, TypeOK
  <2>. QED
    BY <1>1, <1>2, <1>4, <2>1, VoteKeepsVotes
<1>5. ASSUME NEW d \in ChallengeIds,
             (\E claim \in Verdicts : FinalizeChallenge(d, claim)) \/ ExpireChallenge(d)
      PROVE  Quiet(c)
  <2>1. polls[d] \in Poll
    BY DEF TypeOK
  <2>2. \A claim : [polls[d] EXCEPT !.finalized = TRUE, !.outcome = claim,
            !.effectiveVerdictCount = EffectiveVerdictCount(d, claim)].responseSubmittedAt
                = polls[d].responseSubmittedAt
    BY <2>1 DEF Poll
  <2>3. [polls[d] EXCEPT !.expired = TRUE, !.expiredAt = now].responseSubmittedAt
            = polls[d].responseSubmittedAt
    BY <2>1 DEF Poll
  <2>. QED
    BY <1>5, <2>2, <2>3 DEF FinalizeChallenge, ExpireChallenge, Quiet, TypeOK
<1>6. CASE PollCall
  <2>1. ASSUME UNCHANGED <<polls, commitments, verdicts>>
        PROVE  Quiet(c)
    BY <2>1 DEF Quiet
  <2>. QED
    BY <1>2, <1>3, <1>4, <1>5, <1>6, <2>1 DEF PollCall, SetQuorum, UpgradeContract
<1>7. CASE RegistryCall \/ Tick \/ UNCHANGED vars
  BY <1>2, <1>7, RegistryEffect DEF Quiet, pollVars, Tick, vars
<1>. QED
  BY <1>6, <1>7 DEF Next

-----------------------------------------------------------------------------
(* Seals *)

\* A vote changes its voter's records of its own poll only.
LEMMA CommitEffect ==
  ASSUME TypeOK, NEW c \in ChallengeIds, NEW v \in Voters,
         NEW b \in Verdicts \cup {"Nothing"}, CommitVerdict(v, c, b)
  PROVE  /\ commitments[c][v].binds = "None" /\ IsOpen(c) /\ now <= Deadlines(c).commitBy
         /\ commitments'[c][v].binds = b
         /\ \A d \in ChallengeIds, w \in Voters :
                (d # c \/ w # v) => commitments'[d][w] = commitments[d][w]
         /\ UNCHANGED <<now, registryVars, quorum, polls, verdicts>>
<1>1. now \in Nat /\ Deadlines(c).responseBy \in Nat /\ Deadlines(c).commitBy \in Nat
  BY ChallengeTypes DEF TypeOK
<1>. QED
  BY <1>1 DEF CommitVerdict, CurrentPhase, TypeOK

LEMMA RevealEffect ==
  ASSUME TypeOK, NEW c \in ChallengeIds, NEW v \in Voters, NEW claim \in Verdicts,
         RevealVerdict(v, c, claim)
  PROVE  /\ commitments[c][v].binds = claim /\ ~ commitments[c][v].revealed /\ IsOpen(c)
         /\ commitments'[c][v].binds = claim /\ commitments'[c][v].revealed
         /\ verdicts'[c][v].claim = claim /\ verdicts'[c][v].revealedAt = now
         /\ \A d \in ChallengeIds, w \in Voters :
                (d # c \/ w # v) => /\ commitments'[d][w] = commitments[d][w]
                                    /\ verdicts'[d][w] = verdicts[d][w]
         /\ UNCHANGED <<now, registryVars, quorum, polls>>
<1>. DEFINE opened == [commitments[c][v] EXCEPT !.revealed = TRUE]
<1>1. commitments[c][v] \in Commitment
  BY DEF TypeOK
<1>2. opened.binds = commitments[c][v].binds /\ opened.revealed
  BY <1>1 DEF Commitment
<1>3. commitments' = [commitments EXCEPT ![c] = [commitments[c] EXCEPT ![v] = opened]]
  BY DEF RevealVerdict
<1>. HIDE DEF opened
<1>4. /\ commitments'[c][v] = opened
      /\ \A d \in ChallengeIds, w \in Voters :
                (d # c \/ w # v) => commitments'[d][w] = commitments[d][w]
  BY <1>3 DEF TypeOK
<1>5. /\ verdicts'[c][v].claim = claim /\ verdicts'[c][v].revealedAt = now
      /\ \A d \in ChallengeIds, w \in Voters :
                (d # c \/ w # v) => verdicts'[d][w] = verdicts[d][w]
  BY DEF RevealVerdict, TypeOK
<1>. QED
  BY <1>2, <1>4, <1>5 DEF RevealVerdict, CurrentPhase, Opens

\* Every other step leaves votes alone.
LEMMA VotesUntouched ==
  ASSUME TypeOK, [Next]_vars
  PROVE  \/ UNCHANGED <<commitments, verdicts>>
         \/ \E v \in Voters, c \in ChallengeIds :
                \/ \E b \in Verdicts \cup {"Nothing"} : CommitVerdict(v, c, b)
                \/ \E claim \in Verdicts : RevealVerdict(v, c, claim)
<1>1. CASE RegistryCall \/ Tick \/ UNCHANGED vars
  BY <1>1, RegistryEffect DEF pollVars, Tick, vars
<1>2. CASE PollCall
  BY <1>2 DEF PollCall, SetQuorum, SubmitResponse, FinalizeChallenge, ExpireChallenge,
              UpgradeContract
<1>. QED
  BY <1>1, <1>2 DEF Next

\* A verdict stays what its voter sealed.
LEMMA SealsKept ==
  ASSUME TypeOK, [Next]_vars, SealsInv
  PROVE  SealsInv'
<1>. SUFFICES ASSUME NEW c \in ChallengeIds, NEW v \in Voters
              PROVE  SealInv(c, v)'
  BY DEF SealsInv
<1>1. SealInv(c, v) /\ now \in Nat /\ now' \in {now, now + 1}
  BY StepKeeps DEF SealsInv, TypeOK
<1>2. commitments[c][v] \in Commitment /\ verdicts[c][v] \in Verdict
  BY DEF TypeOK
<1>3. ASSUME commitments'[c][v] = commitments[c][v], verdicts'[c][v] = verdicts[c][v]
      PROVE  SealInv(c, v)'
  BY <1>1, <1>2, <1>3 DEF SealInv, Verdict
<1>4. ASSUME NEW w \in Voters, NEW d \in ChallengeIds, NEW b \in Verdicts \cup {"Nothing"},
             CommitVerdict(w, d, b)
      PROVE  SealInv(c, v)'
  <2>1. CASE d # c \/ w # v
    <3>1. commitments'[c][v] = commitments[c][v] /\ verdicts' = verdicts
      BY <1>4, <2>1, CommitEffect
    <3>. QED
      BY <1>3, <3>1
  <2>2. CASE d = c /\ w = v
    <3>1. commitments[c][v].binds = "None" /\ verdicts' = verdicts
      BY <1>4, <2>2, CommitEffect
    <3>2. verdicts[c][v].claim = "None"
      BY <1>1, <3>1 DEF SealInv
    <3>. QED
      BY <3>1, <3>2 DEF SealInv
  <2>. QED
    BY <2>1, <2>2
<1>5. ASSUME NEW w \in Voters, NEW d \in ChallengeIds, NEW claim \in Verdicts,
             RevealVerdict(w, d, claim)
      PROVE  SealInv(c, v)'
  <2>. DEFINE Kept(e, x) == /\ commitments'[e][x] = commitments[e][x]
                            /\ verdicts'[e][x] = verdicts[e][x]
  <2>1. \A e \in ChallengeIds, x \in Voters : (e # d \/ x # w) => Kept(e, x)
    BY <1>5, RevealEffect
  <2>2. CASE d # c \/ w # v
    BY <1>3, <2>1, <2>2
  <2>3. CASE d = c /\ w = v
    <3>1. /\ commitments'[c][v].binds = claim /\ commitments'[c][v].revealed /\ now' = now
          /\ verdicts'[c][v].claim = claim /\ verdicts'[c][v].revealedAt = now
      BY <1>5, <2>3, RevealEffect
    <3>. QED
      BY <1>1, <3>1 DEF SealInv
  <2>. QED
    BY <2>2, <2>3
<1>. QED
  BY <1>3, <1>4, <1>5, VotesUntouched

-----------------------------------------------------------------------------
(* The sealed ballot *)

\* The ballot of an open poll is undecided.
LEMMA OpenIsPending == IsOpen(thePoll) => ResultView = "Pending"
  BY DEF IsOpen, ResultView

\* While commitments are accepted none is open.
LEMMA NothingOpened ==
  ASSUME TypeOK, VotesInv, SealsInv, now <= Deadlines(thePoll).commitBy
  PROVE  OpenedView = {}
<1>. USE ConsortiumAssumption
<1>. SUFFICES ASSUME NEW v \in Voters, verdicts[thePoll][v].claim # "None"
              PROVE  FALSE
  BY DEF OpenedView
<1>1. /\ Deadlines(thePoll).commitBy < verdicts[thePoll][v].revealedAt
      /\ verdicts[thePoll][v].revealedAt <= now
  BY DEF VotesInv, PollVotes, VoteInv, SealsInv, SealInv
<1>2. now \in Nat /\ Deadlines(thePoll).commitBy \in Nat /\ verdicts[thePoll][v] \in Verdict
  BY ChallengeTypes DEF TypeOK
<1>. QED
  BY <1>1, <1>2 DEF Verdict

\* A commitment of the poll is a seal,
LEMMA CommitSeals ==
  ASSUME TypeOK, VotesInv, SealsInv, NEW v \in Voters, NEW b \in Verdicts \cup {"Nothing"},
         CommitVerdict(v, thePoll, b)
  PROVE  Ballot!Next
<1>. USE ConsortiumAssumption
<1>1. ResultView = "Pending" /\ OpenedView = {}
  BY CommitEffect, OpenIsPending, NothingOpened
<1>2. UNCHANGED <<OpenedView, ResultView>>
  BY CommitEffect DEF OpenedView, ResultView
<1>3. SealedView[v] = "None" /\ SealedView' = [SealedView EXCEPT ![v] = b]
  <2>1. /\ commitments[thePoll][v].binds = "None"
        /\ \A w \in Voters : commitments'[thePoll][w].binds =
                IF w = v THEN b ELSE commitments[thePoll][w].binds
    BY CommitEffect
  <2>. QED
    BY <2>1 DEF SealedView
<1>. QED
  BY <1>1, <1>2, <1>3 DEF Ballot!Next, Ballot!Seal

\* a reveal opens it,
LEMMA RevealOpens ==
  ASSUME TypeOK, SealsInv, NEW v \in Voters, NEW claim \in Verdicts,
         RevealVerdict(v, thePoll, claim)
  PROVE  Ballot!Next
<1>. USE ConsortiumAssumption
<1>1. ResultView = "Pending" /\ ResultView' = ResultView
  BY RevealEffect, OpenIsPending DEF ResultView
<1>2. SealedView' = SealedView /\ SealedView[v] \in Verdicts
  <2>1. \A w \in Voters \ {v} : commitments'[thePoll][w] = commitments[thePoll][w]
    BY RevealEffect
  <2>2. commitments[thePoll][v].binds = claim /\ commitments'[thePoll][v].binds = claim
    BY RevealEffect
  <2>. QED
    BY <2>1, <2>2 DEF SealedView
<1>3. verdicts[thePoll][v].claim = "None"
  BY RevealEffect DEF SealsInv, SealInv
<1>4. v \notin OpenedView /\ OpenedView' = OpenedView \cup {v}
  <2>1. /\ verdicts'[thePoll][v].claim = claim
        /\ \A w \in Voters \ {v} : verdicts'[thePoll][w] = verdicts[thePoll][w]
    BY RevealEffect
  <2>2. verdicts'[thePoll][v].claim # "None"
    BY <2>1 DEF Verdicts
  <2>. QED
    BY <1>3, <2>1, <2>2 DEF OpenedView
<1>. QED
  BY <1>1, <1>2, <1>4 DEF Ballot!Next, Ballot!Open

\* finalizing decides, by the seals that are open,
LEMMA FinalizeDecides ==
  ASSUME TypeOK, SealsInv, NEW claim \in Verdicts, FinalizeChallenge(thePoll, claim)
  PROVE  Ballot!Next
<1>. USE ConsortiumAssumption
<1>1. ResultView = "Pending"
  BY OpenIsPending DEF FinalizeChallenge
<1>2. UNCHANGED <<SealedView, OpenedView>>
  BY DEF FinalizeChallenge, SealedView, OpenedView
<1>3. ResultView' = claim
  <2>. DEFINE result == [polls[thePoll] EXCEPT !.finalized = TRUE, !.outcome = claim,
                            !.effectiveVerdictCount = EffectiveVerdictCount(thePoll, claim)]
  <2>1. polls[thePoll] \in Poll
    BY DEF TypeOK
  <2>2. result.finalized /\ result.outcome = claim
    BY <2>1 DEF Poll
  <2>3. polls'[thePoll] = result
    BY DEF FinalizeChallenge, TypeOK
  <2>. HIDE DEF result
  <2>. QED
    BY <2>2, <2>3 DEF ResultView
<1>4. Cardinality(Ballot!Support(claim)) >= 0
  <2>1. Ballot!Support(claim) \subseteq Voters
    BY DEF Ballot!Support, OpenedView
  <2>. QED
    BY <2>1, FS_Subset, FS_CardinalityType
<1>5. Ballot!Cardinality(Ballot!Support(claim)) = Cardinality(Ballot!Support(claim))
  BY DEF Ballot!Cardinality, Cardinality
<1>. QED
  BY <1>1, <1>2, <1>3, <1>4, <1>5 DEF Ballot!Next, Ballot!Decide

\* and expiring lets it lapse.
LEMMA ExpiryLapses ==
  ASSUME TypeOK, ExpireChallenge(thePoll)
  PROVE  Ballot!Next
<1>. USE ConsortiumAssumption
<1>. DEFINE lapse == [polls[thePoll] EXCEPT !.expired = TRUE, !.expiredAt = now]
<1>1. ResultView = "Pending" /\ ~ polls[thePoll].finalized /\ polls[thePoll] \in Poll
  BY OpenIsPending DEF ExpireChallenge, IsOpen, TypeOK
<1>2. UNCHANGED <<SealedView, OpenedView>>
  BY DEF ExpireChallenge, SealedView, OpenedView
<1>3. ~ lapse.finalized /\ lapse.expired
  BY <1>1 DEF Poll
<1>4. polls'[thePoll] = lapse
  BY DEF ExpireChallenge, TypeOK
<1>. HIDE DEF lapse
<1>5. ResultView' = "Lapsed"
  BY <1>3, <1>4 DEF ResultView
<1>. QED
  BY <1>1, <1>2, <1>5 DEF Ballot!Next, Ballot!Lapse

\* What leaves the poll's votes and result alone is a stutter: a response,
LEMMA ResponseStutters ==
  ASSUME TypeOK, NEW a \in Responders, NEW c \in ChallengeIds, SubmitResponse(a, c)
  PROVE  UNCHANGED Ballot!ballotVars
<1>. USE ConsortiumAssumption
<1>. DEFINE poll == [polls[c] EXCEPT
          !.started = TRUE, !.respondent = a, !.responseSubmittedAt = now]
<1>1. polls[c] \in Poll
  BY DEF TypeOK
<1>2. /\ poll.finalized = polls[c].finalized /\ poll.expired = polls[c].expired
      /\ poll.outcome = polls[c].outcome
  BY <1>1 DEF Poll
<1>3. polls' = [polls EXCEPT ![c] = poll] /\ UNCHANGED <<commitments, verdicts>>
  BY DEF SubmitResponse
<1>. HIDE DEF poll
<1>4. ResultView' = ResultView
  BY <1>2, <1>3 DEF ResultView, TypeOK
<1>. QED
  BY <1>3, <1>4 DEF Ballot!ballotVars, SealedView, OpenedView

\* or anything about another poll.
LEMMA OthersStutter ==
  ASSUME TypeOK, NEW c \in ChallengeIds, c # thePoll,
         \/ \E v \in Voters, b \in Verdicts \cup {"Nothing"} : CommitVerdict(v, c, b)
         \/ \E v \in Voters, claim \in Verdicts : RevealVerdict(v, c, claim)
         \/ \E claim \in Verdicts : FinalizeChallenge(c, claim)
         \/ ExpireChallenge(c)
  PROVE  UNCHANGED Ballot!ballotVars
<1>. USE ConsortiumAssumption
<1>1. polls'[thePoll] = polls[thePoll]
  BY DEF CommitVerdict, RevealVerdict, FinalizeChallenge, ExpireChallenge, TypeOK
<1>2. commitments'[thePoll] = commitments[thePoll] /\ verdicts'[thePoll] = verdicts[thePoll]
  BY DEF CommitVerdict, RevealVerdict, FinalizeChallenge, ExpireChallenge, TypeOK
<1>. QED
  BY <1>1, <1>2 DEF Ballot!ballotVars, SealedView, OpenedView, ResultView

-----------------------------------------------------------------------------
(* The theorems *)

\* IInv is inductive.
LEMMA Inductive == Spec => []IInv
<1>1. Init => IInv
  <2>. SUFFICES ASSUME Init
                PROVE  IInv
    OBVIOUS
  <2>. USE DEF Init, RegistryInit, PollInit
  <2>1. TypeOK
    BY ConsortiumAssumption
       DEF TypeOK, NoProfile, Profile, NoEvidence, Evidence, NoChallenge, Challenge, NoPoll,
           Poll, NoCommitment, Commitment, NoVerdict, Verdict
  <2>2. VotesInv /\ SealsInv
    BY DEF VotesInv, PollVotes, VoteInv, SealsInv, SealInv, NoPoll, NoCommitment, NoVerdict
  <2>3. CountStands /\ UpheldEvidenceFalls
    BY DEF CountStands, UpheldEvidenceFalls, NoPoll, NoChallenge
  <2>4. FilingsInv
    BY DEF FilingsInv, ReportBackedByEvidence, ValidatorReportsProfiled, ProfilesHaveGroups,
           ChallengedIsStored, NoProfile, NoEvidence, NoChallenge
  <2>. QED
    BY <2>1, <2>2, <2>3, <2>4 DEF IInv
<1>2. IInv /\ [Next]_vars => IInv'
  <2>. SUFFICES ASSUME IInv, [Next]_vars
                PROVE  IInv'
    OBVIOUS
  <2>1. UpheldEvidenceFalls'
    BY StepKeeps, ChallengeTypes
       DEF IInv, UpheldEvidenceFalls, RegistryKeeps, UpheldFalls, EvidenceStaysDown
  <2>. QED
    BY <2>1, TypesKept, VotesKept, SealsKept, CountsKept, FilingsKept DEF IInv
<1>. QED
  BY <1>1, <1>2, PTL DEF Spec

\* The port's state always has the shape of its records, and its quorum is legal or
\* that of an upgraded contract.
THEOREM PortTypes == Spec => []TypeOK
<1>1. IInv => TypeOK
  BY DEF IInv
<1>. QED
  BY <1>1, Inductive, PTL

\* No voter of the port commits as late as a verdict of its poll is revealed.
THEOREM PortVotesAreBlind == Spec => []Blinded
<1>1. IInv => Blinded
  <2>. SUFFICES ASSUME IInv, NEW c \in ChallengeIds, NEW v \in Voters, NEW w \in Voters,
                       commitments[c][v].binds # "None", verdicts[c][w].claim # "None"
                PROVE  commitments[c][v].committedAt < verdicts[c][w].revealedAt
    BY DEF Blinded
  <2>1. /\ commitments[c][v].committedAt <= Deadlines(c).commitBy
        /\ Deadlines(c).commitBy < verdicts[c][w].revealedAt
    BY DEF IInv, VotesInv, PollVotes, VoteInv
  <2>2. /\ commitments[c][v] \in Commitment /\ verdicts[c][w] \in Verdict
        /\ Deadlines(c).commitBy \in Nat
    BY ChallengeTypes DEF IInv, TypeOK
  <2>. QED
    BY <2>1, <2>2 DEF Commitment, Verdict
<1>. QED
  BY <1>1, Inductive, PTL

\* The count written with a result of the port is the one its verdicts show ever after.
THEOREM PortCountsStand == Spec => []CountStands
<1>1. IInv => CountStands
  BY DEF IInv
<1>. QED
  BY <1>1, Inductive, PTL

\* The port's records agree: reports have their evidence, validator reports a profiled
\* sender, and an upheld challenge has taken its evidence down.
THEOREM PortRecordsAgree == Spec => []RecordsAgree
<1>1. IInv => RecordsAgree
  BY DEF IInv, FilingsInv, RecordsAgree
<1>. QED
  BY <1>1, Inductive, PTL

\* A settled challenge of the port keeps its verdict.
THEOREM PortDisputesStayFinal == Spec => DisputesAreFinal
<1>1. TypeOK /\ [Next]_vars =>
        [\A c \in ChallengeIds :
            challenges[c].status \in Verdicts => UNCHANGED challenges[c]]_vars
  BY StepKeeps DEF RegistryKeeps, ChallengeKept
<1>. QED
  BY <1>1, PortTypes, PTL DEF Spec, DisputesAreFinal
\* Every poll of the port is a sealed ballot, whatever else its contracts do.
THEOREM PortPollsAreSealed == Spec => PollIsSealedBallot
<1>1. Init => Ballot!Init
  BY ConsortiumAssumption DEF Init, PollInit, NoPoll, NoCommitment, NoVerdict, Ballot!Init,
     SealedView, OpenedView, ResultView
<1>2. IInv /\ [Next]_vars => [Ballot!Next]_Ballot!ballotVars
  <2>. SUFFICES ASSUME IInv, [Next]_vars
                PROVE  Ballot!Next \/ UNCHANGED Ballot!ballotVars
    OBVIOUS
  <2>. USE DEF IInv
  <2>1. ASSUME UNCHANGED <<polls, commitments, verdicts>>
        PROVE  UNCHANGED Ballot!ballotVars
    BY <2>1 DEF Ballot!ballotVars, SealedView, OpenedView, ResultView
  <2>2. CASE RegistryCall \/ Tick \/ UNCHANGED vars
    BY <2>1, <2>2, RegistryEffect DEF pollVars, Tick, vars
  <2>3. CASE PollCall
    BY <2>1, <2>3, CommitSeals, RevealOpens, FinalizeDecides, ExpiryLapses, ResponseStutters,
       OthersStutter DEF PollCall, SetQuorum, UpgradeContract
  <2>. QED
    BY <2>2, <2>3 DEF Next
<1>. QED
  BY <1>1, <1>2, Inductive, PTL DEF Spec, PollIsSealedBallot, Ballot!Spec

\* Only an upgrade takes the quorum away.
LEMMA QuorumKept ==
  ASSUME TypeOK, [Next]_vars, quorum # 0
  PROVE  quorum' # 0 \/ UpgradeContract
<1>1. CASE UNCHANGED quorum
  BY <1>1
<1>2. ASSUME NEW a, NEW q, SetQuorum(a, q)
      PROVE  quorum' # 0
  BY <1>2, ConsortiumAssumption DEF SetQuorum
<1>3. CASE RegistryCall \/ Tick \/ UNCHANGED vars
  BY <1>1, <1>3, RegistryEffect DEF Tick, vars, pollVars
<1>4. CASE PollCall
  BY <1>1, <1>2, <1>4 DEF PollCall, SubmitResponse, CommitVerdict, RevealVerdict,
     FinalizeChallenge, ExpireChallenge
<1>. QED
  BY <1>3, <1>4 DEF Next

\* What the port says of its quorum is right as long as the contract is not upgraded,
\* and with the run that breaks it this says that the upgrade is what breaks it.
THEOREM QuorumUnlessUpgraded ==
  Spec /\ [][~ UpgradeContract]_vars => []FinalizedWithQuorum
<1>1. Init => quorum # 0 /\ FinalizedWithQuorum
  BY ConsortiumAssumption DEF Init, PollInit, NoPoll, FinalizedWithQuorum
<1>2. TypeOK /\ [Next]_vars /\ [~ UpgradeContract]_vars /\ quorum # 0 => (quorum # 0)'
  BY QuorumKept DEF vars, pollVars
<1>3. TypeOK /\ [Next]_vars /\ quorum # 0 /\ FinalizedWithQuorum => FinalizedWithQuorum'
  <2>. SUFFICES ASSUME TypeOK, [Next]_vars, quorum # 0, FinalizedWithQuorum,
                       NEW c \in ChallengeIds, polls'[c].finalized
                PROVE  polls'[c].effectiveVerdictCount >= MinQuorum
    BY DEF FinalizedWithQuorum
  <2>1. CASE ~ IsOpen(c)
    BY <2>1, ClosedStay DEF FinalizedWithQuorum
  <2>2. CASE IsOpen(c)
    <3>1. PICK claim \in Verdicts : FinalizeChallenge(c, claim)
      BY <2>2, ClosedStay
    <3>2. polls[c] \in Poll
      BY DEF TypeOK
    <3>3. polls'[c].effectiveVerdictCount = EffectiveVerdictCount(c, claim)
      BY <3>1, <3>2 DEF FinalizeChallenge, TypeOK, Poll
    <3>4. EffectiveVerdictCount(c, claim) >= quorum /\ quorum >= MinQuorum
      BY <3>1, ConsortiumAssumption DEF FinalizeChallenge, TypeOK
    <3>. QED
      BY <3>3, <3>4, CountIsNat, ConsortiumAssumption DEF TypeOK
  <2>. QED
    BY <2>1, <2>2
<1>. QED
  BY <1>1, <1>2, <1>3, PortTypes, PTL DEF Spec

-----------------------------------------------------------------------------
(* Polls end *)

Stored(c)  == challenges[c].status # "Unknown"
Overdue(c) == now > Deadlines(c).revealBy

\* Some verdict has the quorum or none has.
LEMMA OverdueCloses ==
  ASSUME TypeOK, NEW c \in ChallengeIds, Stored(c), IsOpen(c), Overdue(c)
  PROVE  Closable(c)
<1>1. CASE NoQuorum(c)
  BY <1>1 DEF Closable, Overdue
<1>2. CASE ~ NoQuorum(c)
  <2>1. PICK claim \in Verdicts : ~ (EffectiveVerdictCount(c, claim) < quorum)
    BY <1>2 DEF NoQuorum
  <2>2. quorum \in Nat
    BY ConsortiumAssumption DEF TypeOK
  <2>3. EffectiveVerdictCount(c, claim) >= quorum
    BY <2>1, <2>2, CountIsNat
  <2>. QED
    BY <2>3 DEF Closable
<1>. QED
  BY <1>1, <1>2

\* An overdue poll of the port is never stuck.
THEOREM PortOverdueIsNeverStuck == Spec => []OverdueIsClosable
<1>1. TypeOK => OverdueIsClosable
  BY OverdueCloses DEF OverdueIsClosable, Stored, Overdue
<1>. QED
  BY <1>1, PortTypes, PTL

\* Once they have passed, no response moves the deadlines.
LEMMA NoLateResponse ==
  ASSUME TypeOK, [Next]_vars, NEW c \in ChallengeIds, Stored(c), Overdue(c)
  PROVE  polls'[c].responseSubmittedAt = polls[c].responseSubmittedAt
<1> DEFINE Same == polls'[c].responseSubmittedAt = polls[c].responseSubmittedAt
<1>1. /\ now \in Nat /\ Deadlines(c).revealBy \in Nat /\ Deadlines(c).responseBy \in Nat
      /\ polls \in [ChallengeIds -> Poll]
  BY ChallengeTypes DEF TypeOK
<1>2. ASSUME NEW a, NEW d \in ChallengeIds, SubmitResponse(a, d)
      PROVE  Same
  <2>1. d # c
    BY <1>1, <1>2, ChallengeTypes, ConsortiumAssumption
       DEF SubmitResponse, CurrentPhase, Deadlines, Stored, Overdue, TypeOK, Challenge
  <2>. QED
    BY <1>1, <1>2, <2>1 DEF SubmitResponse
<1>3. ASSUME NEW d \in ChallengeIds, NEW claim \in Verdicts, FinalizeChallenge(d, claim)
      PROVE  Same
  BY <1>1, <1>3 DEF FinalizeChallenge, Poll
<1>4. ASSUME NEW d \in ChallengeIds, ExpireChallenge(d)
      PROVE  Same
  BY <1>1, <1>4 DEF ExpireChallenge, Poll
<1>5. CASE RegistryCall \/ Tick \/ UNCHANGED vars
  BY <1>5, RegistryEffect DEF Tick, vars, pollVars
<1>6. CASE PollCall
  BY <1>2, <1>3, <1>4, <1>6 DEF PollCall, SetQuorum, CommitVerdict, RevealVerdict, UpgradeContract
<1>. QED
  BY <1>5, <1>6 DEF Next

\* So a poll stays overdue.
LEMMA OverdueStays ==
  ASSUME TypeOK, [Next]_vars, NEW c \in ChallengeIds, Stored(c), Overdue(c)
  PROVE  Overdue(c)'
<1>1. /\ ChallengeKept(c)
      /\ now' \in {now, now + 1}
  BY StepKeeps DEF RegistryKeeps
<1>2. Deadlines(c)' = Deadlines(c)
  BY <1>1, NoLateResponse, DeadlinesKept DEF Stored
<1>3. now \in Nat /\ Deadlines(c).revealBy \in Nat
  BY ChallengeTypes DEF TypeOK
<1>. QED
  BY <1>1, <1>2, <1>3 DEF Overdue

\* Both closing transactions close it.
LEMMA ClosingCloses ==
  ASSUME TypeOK, NEW c \in ChallengeIds, CloseAdjudication(c)
  PROVE  ~ IsOpen(c)'
<1>1. polls \in [ChallengeIds -> Poll]
  BY DEF TypeOK
<1>2. ASSUME NEW claim \in Verdicts, FinalizeChallenge(c, claim)
      PROVE  ~ IsOpen(c)'
  BY <1>1, <1>2 DEF FinalizeChallenge, IsOpen, Poll
<1>3. CASE ExpireChallenge(c)
  BY <1>1, <1>3 DEF ExpireChallenge, IsOpen, Poll
<1>. QED
  BY <1>2, <1>3 DEF CloseAdjudication

\* The clock gets past every deadline: MaxTime, the model's, is late enough.
DeadlinesPass == \A c \in ChallengeIds : []<>Overdue(c)

\* No poll of the port hangs, for any voters, periods and challenges: in fair
\* behaviours whose clock passes the deadlines it is finalized or expires, whatever
\* is upgraded, settled or set meanwhile.  That the guard of the closing transactions
\* enables them is ENABLED, beyond the provers.
THEOREM PortPollsEnd ==
    Spec /\ Fairness /\ []ClosableIsEnabled /\ DeadlinesPass => PollsClose
<1>1. ASSUME NEW c \in ChallengeIds
      PROVE  Fairness /\ []ClosableIsEnabled /\ DeadlinesPass =>
                ClosesInTime(c) /\ []ClosableIsSendable(c) /\ []<>Overdue(c)
  <2>1. ClosableIsEnabled => ClosableIsSendable(c)
    BY DEF ClosableIsEnabled
  <2>2. Fairness => ClosesInTime(c)
    BY DEF Fairness
  <2>3. DeadlinesPass => []<>Overdue(c)
    BY DEF DeadlinesPass
  <2>. QED
    BY <2>1, <2>2, <2>3, PTL
<1>2. ASSUME NEW c \in ChallengeIds
      PROVE  Spec /\ ClosesInTime(c) /\ []ClosableIsSendable(c) /\ []<>Overdue(c) =>
                (challenges[c].status = "Submitted" ~> ~ IsOpen(c))
  <2>1. TypeOK /\ [Next]_vars /\ Stored(c) => Stored(c)'
    BY StepKeeps DEF RegistryKeeps, ChallengeKept, Stored
  <2>2. TypeOK /\ [Next]_vars /\ Stored(c) /\ Overdue(c) => Overdue(c)'
    BY OverdueStays
  <2>3. TypeOK /\ Stored(c) /\ IsOpen(c) /\ Overdue(c) => Closable(c)
    BY OverdueCloses
  <2>4. TypeOK /\ <<challenges[c].status # "Unknown" /\ CloseAdjudication(c)>>_vars
        => ~ IsOpen(c)'
    BY ClosingCloses
  <2>5. challenges[c].status = "Submitted" => Stored(c)
    BY DEF Stored
  <2>6. Stored(c) <=> challenges[c].status # "Unknown"
    BY DEF Stored
  <2>. QED
    BY <2>1, <2>2, <2>3, <2>4, <2>5, <2>6, PortTypes, PTL
       DEF Spec, ClosesInTime, ClosableIsSendable
<1>3. ASSUME NEW c \in ChallengeIds
      PROVE  Spec /\ Fairness /\ []ClosableIsEnabled /\ DeadlinesPass =>
                (challenges[c].status = "Submitted" ~> ~ IsOpen(c))
  BY <1>1, <1>2, PTL
<1>. QED
  BY <1>3 DEF PollsClose

=============================================================================

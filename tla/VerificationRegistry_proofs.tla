--------------------- MODULE VerificationRegistry_proofs ---------------------
(***************************************************************************)
(* Proofs about VerificationRegistry.                                      *)
(***************************************************************************)
EXTENDS VerificationRegistry, FiniteSetTheorems, TLAPS

\* What an evidence id and a challenge id are made of.
LEMMA IdTypes ==
    /\ \A e \in EvidenceIds : e.reporter \in Accounts
    /\ \A c \in ChallengeIds : c.evidence \in EvidenceIds /\ c.challenger \in Accounts
BY IdAssumption

\* The constant records have the types of the slots they fill.
LEMMA EmptyRecordTypes ==
    /\ NoProfile \in Profile
    /\ NoEvidence \in Evidence
    /\ NoChallenge \in Challenge
BY DEF NoProfile, Profile, NoEvidence, Evidence, NoChallenge, Challenge

\* Settling a challenge, from whichever side, keeps the registry's variables in
\* their types; it is used for the owner, an account and a contract.
LEMMA SettleTypes ==
    ASSUME RegistryTypeOK, NEW c \in ChallengeIds, NEW verdict \in Verdicts,
           SettleChallenge(c, verdict),
           adjudicationStarted' \in [Registries -> SUBSET ChallengeIds]
    PROVE  RegistryTypeOK'
<1> USE DEF SettleChallenge, adjudicatorVars, peopleVars, intakeVars
<1>1. c.evidence \in EvidenceIds /\ c.challenger \in Accounts /\ c.evidence.reporter \in Accounts
  BY IdTypes
<1>2. challenges' \in [ChallengeIds -> Challenge]
  BY DEF RegistryTypeOK, Challenge
<1>3. /\ evidence' \in [EvidenceIds -> Evidence]
      /\ alreadyInvalidated' \subseteq ChallengeIds
      /\ testnetReputation' \in [Accounts -> Int]
  <2>1. CASE UpholdActive(c)
    BY <1>1, <2>1 DEF UpholdActive, Penalise, RegistryTypeOK, Evidence
  <2>2. CASE UpholdInvalidated(c)
    BY <2>2 DEF UpholdInvalidated, RegistryTypeOK
  <2>3. CASE Reject(c)
    BY <1>1, <2>3 DEF Reject, RegistryTypeOK
  <2>4. QED BY <2>1, <2>2, <2>3
<1>4. QED BY <1>2, <1>3 DEF RegistryTypeOK

\* Filing evidence under an id and with arguments of the right types.
LEMMA RecordTypes ==
    ASSUME RegistryTypeOK, NEW e, NEW group \in Groups \cup {NoGroup}, NEW window \in Nat,
           RecordEvidence(e, group, window)
    PROVE  evidence' \in [EvidenceIds -> Evidence]
BY DEF RegistryTypeOK, RecordEvidence, Evidence

\* Every transaction people send to the three contracts keeps the types.
LEMMA CallTypes ==
    ASSUME RegistryTypeOK, RegistryCall
    PROVE  RegistryTypeOK'
<1> USE DEF adjudicatorVars, peopleVars, intakeVars, disputeVars
<1>1. ASSUME NEW v \in Validators, NEW role \in Roles, RegisterIdentity(v, role)
      PROVE  RegistryTypeOK'
  BY <1>1 DEF RegisterIdentity, RegistryTypeOK
<1>2. ASSUME NEW m \in Modules, SubmitModule(m)
      PROVE  RegistryTypeOK'
  BY <1>2 DEF SubmitModule, RegistryTypeOK
<1>3. ASSUME NEW a \in Accounts, NEW v \in Validators, NEW g \in Groups, NEW ok \in BOOLEAN,
             SetValidatorProfile(a, v, g, ok)
      PROVE  RegistryTypeOK'
  BY <1>3 DEF SetValidatorProfile, RegistryTypeOK, Profile
<1>4. ASSUME NEW a \in Accounts, NEW x \in Candidates, ProposeAdjudicator(a, x)
      PROVE  RegistryTypeOK'
  BY <1>4, AddressAssumption DEF ProposeAdjudicator, RegistryTypeOK
<1>5. ASSUME NEW a \in Accounts, ConfirmAdjudicator(a)
      PROVE  RegistryTypeOK'
  BY <1>5 DEF ConfirmAdjudicator, RegistryTypeOK
<1>6. ASSUME NEW a \in Accounts, NEW m \in Modules, NEW b \in Bundles, SubmitReport(a, m, b)
      PROVE  RegistryTypeOK'
  <2>1. evidence' \in [EvidenceIds -> Evidence]
    BY <1>6, RecordTypes DEF SubmitReport
  <2>2. QED BY <1>6, <2>1 DEF SubmitReport, RegistryTypeOK
<1>7. ASSUME NEW a \in Accounts, NEW m \in Modules, NEW b \in Bundles, NEW t \in EvidenceTypes,
             NEW g \in Groups, NEW w \in Windows, SubmitEvidence(a, m, b, t, g, w)
      PROVE  RegistryTypeOK'
  <2>1. FiledGroup(a, t, g) \in Groups \cup {NoGroup}
    BY DEF FiledGroup, IsQualifiedValidator, RegistryTypeOK, Profile
  <2>2. w \in Nat
    BY IdAssumption
  <2>3. evidence' \in [EvidenceIds -> Evidence]
    BY <1>7, <2>1, <2>2, RecordTypes DEF SubmitEvidence
  <2>4. QED BY <1>7, <2>3 DEF SubmitEvidence, RegistryTypeOK
<1>8. ASSUME NEW a \in Accounts, NEW e \in EvidenceIds, InvalidateEvidence(a, e)
      PROVE  RegistryTypeOK'
  BY <1>8 DEF InvalidateEvidence, RegistryTypeOK, Evidence
<1>9. ASSUME NEW a \in Accounts, NEW e \in EvidenceIds, NEW reason \in Reasons,
             SubmitChallenge(a, e, reason)
      PROVE  RegistryTypeOK'
  BY <1>9 DEF SubmitChallenge, RegistryTypeOK, Challenge
<1>10. ASSUME NEW a \in Accounts, NEW c \in ChallengeIds, NEW v \in Verdicts,
              \/ ResolveChallenge(a, c, v)
              \/ ResolveChallengeFromAdjudicator(a, c, v) /\ UNCHANGED adjudicationStarted
       PROVE  RegistryTypeOK'
  <2>1. SettleChallenge(c, v) /\ UNCHANGED adjudicationStarted
    BY <1>10 DEF ResolveChallenge, ResolveChallengeFromAdjudicator
  <2>2. QED BY <2>1, SettleTypes DEF RegistryTypeOK
<1>11. QED
  BY RegistryCall, <1>1, <1>2, <1>3, <1>4, <1>5, <1>6, <1>7, <1>8, <1>9, <1>10
     DEF RegistryCall

\* So does the passing of time.
LEMMA TickTypes ==
    ASSUME RegistryTypeOK, Tick
    PROVE  RegistryTypeOK'
BY DEF RegistryTypeOK, Tick, adjudicatorVars, peopleVars, intakeVars, disputeVars

\* The initial state is well typed.
LEMMA InitTypes == RegistryInit => RegistryTypeOK
BY EmptyRecordTypes DEF RegistryInit, RegistryTypeOK

\* And what an adjudication contract does to the registry.
LEMMA ContractTypes ==
    ASSUME RegistryTypeOK, NEW r \in Registries, AdjudicationContract(r)
    PROVE  RegistryTypeOK'
<1>1. CASE \E c \in ChallengeIds :
            /\ adjudicationStarted' = [adjudicationStarted EXCEPT ![r] = @ \cup {c}]
            /\ UNCHANGED <<now, adjudicatorVars, peopleVars, intakeVars, disputeVars>>
  BY <1>1 DEF RegistryTypeOK, adjudicatorVars, peopleVars, intakeVars, disputeVars
<1>2. ASSUME NEW c \in ChallengeIds, NEW v \in Verdicts,
             ResolveChallengeFromAdjudicator(r, c, v), UNCHANGED adjudicationStarted
      PROVE  RegistryTypeOK'
  BY <1>2, SettleTypes DEF ResolveChallengeFromAdjudicator, RegistryTypeOK
<1>3. QED BY AdjudicationContract(r), <1>1, <1>2 DEF AdjudicationContract

\* A step that changes nothing.
LEMMA IdleTypes ==
    ASSUME RegistryTypeOK, UNCHANGED registryVars
    PROVE  RegistryTypeOK'
BY DEF registryVars, adjudicatorVars, peopleVars, intakeVars, disputeVars, RegistryTypeOK

\* Every variable of the registries keeps the type of the storage slot it models,
\* in every behaviour and for any adjudication contract.
THEOREM RegistryTypeCorrect == RegistrySpec => []RegistryTypeOK
<1>1. RegistryTypeOK /\ [RegistryNext]_registryVars => RegistryTypeOK'
  <2> SUFFICES ASSUME RegistryTypeOK, [RegistryNext]_registryVars
               PROVE  RegistryTypeOK'
    OBVIOUS
  <2>1. CASE RegistryCall
    BY <2>1, CallTypes
  <2>2. CASE Tick
    BY <2>2, TickTypes
  <2>3. CASE \E r \in Registries : AdjudicationContract(r)
    BY <2>3, ContractTypes
  <2>4. CASE UNCHANGED registryVars
    BY <2>4, IdleTypes
  <2>5. QED BY <2>1, <2>2, <2>3, <2>4 DEF RegistryNext
<1>2. QED BY <1>1, InitTypes, PTL DEF RegistrySpec

-----------------------------------------------------------------------------
(* How a step changes evidence and challenges                                *)

\* Evidence keeps what it was filed with, and is at most invalidated.
EvidenceKept ==
    \A e \in EvidenceIds :
        evidence[e].status # "Unknown" =>
            /\ evidence'[e].window = evidence[e].window
            /\ evidence'[e].group = evidence[e].group
            /\ evidence'[e].status \in {evidence[e].status, "Invalidated"}

\* A step that neither files nor settles a challenge.
QuietStep ==
    /\ now' \in {now, now + 1}
    /\ EvidenceKept
    /\ UNCHANGED <<challenges, alreadyInvalidated, testnetReputation>>

ChallengeFiled ==
    \E a \in Accounts, e \in EvidenceIds, reason \in Reasons : SubmitChallenge(a, e, reason)

ChallengeSettled ==
    \E c \in ChallengeIds, verdict \in Verdicts : SettleChallenge(c, verdict)

\* Filing a record changes no evidence that was there.
LEMMA RecordKeepsEvidence ==
    ASSUME RegistryTypeOK, NEW e, NEW group, NEW window, RecordEvidence(e, group, window)
    PROVE  EvidenceKept
BY DEF RecordEvidence, EvidenceKept, RegistryTypeOK

\* Nor does settling a challenge, except that it may invalidate its evidence.
LEMMA SettleKeepsEvidence ==
    ASSUME RegistryTypeOK, NEW c \in ChallengeIds, NEW verdict \in Verdicts,
           SettleChallenge(c, verdict)
    PROVE  EvidenceKept
<1>1. ASSUME UNCHANGED evidence PROVE EvidenceKept
  BY <1>1 DEF EvidenceKept
<1>2. CASE UpholdActive(c)
  <2>1. \A e \in EvidenceIds : evidence[e] \in Evidence
    BY DEF RegistryTypeOK
  <2>2. QED BY <1>2, <2>1, IdTypes DEF UpholdActive, EvidenceKept, RegistryTypeOK, Evidence
<1>3. QED BY <1>1, <1>2 DEF SettleChallenge, UpholdInvalidated, Reject

\* Every step is quiet, files a challenge or settles one.
LEMMA StepsOfRegistry ==
    ASSUME RegistryTypeOK, [RegistryNext]_registryVars
    PROVE  QuietStep \/ ChallengeFiled \/ ChallengeSettled
<1> USE DEF adjudicatorVars, peopleVars, intakeVars, disputeVars
<1>1. ASSUME UNCHANGED disputeVars, now' \in {now, now + 1}
      PROVE  QuietStep
  BY <1>1 DEF QuietStep, EvidenceKept
<1>2. CASE UNCHANGED registryVars \/ Tick
  BY <1>1, <1>2 DEF registryVars, Tick
<1>3. CASE \E r \in Registries : AdjudicationContract(r)
  <2> PICK r \in Registries : AdjudicationContract(r)
    BY <1>3
  <2>1. CASE \E c \in ChallengeIds, v \in Verdicts : ResolveChallengeFromAdjudicator(r, c, v)
    BY <2>1 DEF ResolveChallengeFromAdjudicator, ChallengeSettled
  <2>2. CASE UNCHANGED disputeVars /\ now' = now
    BY <1>1, <2>2
  <2>3. QED BY <2>1, <2>2 DEF AdjudicationContract
<1>4. CASE RegistryCall
  <2>1. ASSUME NEW v \in Validators, NEW role \in Roles, RegisterIdentity(v, role)
        PROVE  QuietStep
    BY <1>1, <2>1 DEF RegisterIdentity
  <2>2. ASSUME NEW m \in Modules, SubmitModule(m)
        PROVE  QuietStep
    BY <1>1, <2>2 DEF SubmitModule
  <2>3. ASSUME NEW a \in Accounts, NEW v \in Validators, NEW g \in Groups, NEW ok \in BOOLEAN,
               SetValidatorProfile(a, v, g, ok)
        PROVE  QuietStep
    BY <1>1, <2>3 DEF SetValidatorProfile
  <2>4. ASSUME NEW a \in Accounts, NEW x \in Candidates, ProposeAdjudicator(a, x)
        PROVE  QuietStep
    BY <1>1, <2>4 DEF ProposeAdjudicator
  <2>5. ASSUME NEW a \in Accounts, ConfirmAdjudicator(a)
        PROVE  QuietStep
    BY <1>1, <2>5 DEF ConfirmAdjudicator
  <2>6. ASSUME NEW a \in Accounts, NEW m \in Modules, NEW b \in Bundles, SubmitReport(a, m, b)
        PROVE  QuietStep
    BY <2>6, RecordKeepsEvidence DEF SubmitReport, QuietStep
  <2>7. ASSUME NEW a \in Accounts, NEW m \in Modules, NEW b \in Bundles,
               NEW t \in EvidenceTypes, NEW g \in Groups, NEW w \in Windows,
               SubmitEvidence(a, m, b, t, g, w)
        PROVE  QuietStep
    BY <2>7, RecordKeepsEvidence DEF SubmitEvidence, QuietStep
  <2>8. ASSUME NEW a \in Accounts, NEW e \in EvidenceIds, InvalidateEvidence(a, e)
        PROVE  QuietStep
    <3>1. \A x \in EvidenceIds : evidence[x] \in Evidence
      BY DEF RegistryTypeOK
    <3>2. EvidenceKept
      BY <2>8, <3>1 DEF InvalidateEvidence, EvidenceKept, RegistryTypeOK, Evidence
    <3>3. QED BY <2>8, <3>2 DEF InvalidateEvidence, QuietStep
  <2>9. ASSUME NEW a \in Accounts, NEW c \in ChallengeIds, NEW v \in Verdicts,
               ResolveChallenge(a, c, v) \/ ResolveChallengeFromAdjudicator(a, c, v)
        PROVE  ChallengeSettled
    BY <2>9 DEF ResolveChallenge, ResolveChallengeFromAdjudicator, ChallengeSettled
  <2>10. QED BY <1>4, <2>1, <2>2, <2>3, <2>4, <2>5, <2>6, <2>7, <2>8, <2>9
             DEF RegistryCall, ChallengeFiled
<1>5. QED BY <1>2, <1>3, <1>4 DEF RegistryNext

\* What settling writes into the challenge, and that it writes no other.
LEMMA SettleWrites ==
    ASSUME RegistryTypeOK, NEW c \in ChallengeIds, NEW verdict \in Verdicts,
           SettleChallenge(c, verdict)
    PROVE  /\ challenges[c].status = "Submitted"
           /\ challenges'[c].status = verdict
           /\ challenges'[c].submittedAt = challenges[c].submittedAt
           /\ challenges'[c].resolvedAt = now
           /\ \A d \in ChallengeIds : d # c => challenges'[d] = challenges[d]
           /\ now' = now
<1>1. challenges[c] \in Challenge
  BY DEF RegistryTypeOK
<1>2. challenges' = [challenges EXCEPT ![c] =
                        [challenges[c] EXCEPT !.status = verdict, !.resolvedAt = now]]
  BY DEF SettleChallenge
<1>3. challenges'[c] = [challenges[c] EXCEPT !.status = verdict, !.resolvedAt = now]
  BY <1>2 DEF RegistryTypeOK
<1>4. /\ challenges'[c].status = verdict
      /\ challenges'[c].submittedAt = challenges[c].submittedAt
      /\ challenges'[c].resolvedAt = now
  BY <1>1, <1>3 DEF Challenge
<1>5. QED BY <1>2, <1>4 DEF SettleChallenge, Unresolved, RegistryTypeOK

-----------------------------------------------------------------------------
(* Disputes                                                                  *)

\* The log of repeated penalties names upheld challenges only; with it
\* PenalisedOnce is inductive.
LoggedWereUpheld ==
    \A c \in alreadyInvalidated : challenges[c].status = "Upheld"

DisputesInv ==
    RegistryTypeOK /\ LoggedWereUpheld /\ PenalisedOnce /\ ChallengedInWindow

\* Settling a challenge pays for evidence that is still active only.
LEMMA SettleKeepsDisputes ==
    ASSUME DisputesInv, NEW c \in ChallengeIds, NEW verdict \in Verdicts,
           SettleChallenge(c, verdict)
    PROVE  (LoggedWereUpheld /\ PenalisedOnce)'
<1> USE DEF DisputesInv
<1>1. /\ challenges[c].status = "Submitted" /\ challenges'[c].status = verdict
      /\ \A d \in ChallengeIds : d # c => challenges'[d] = challenges[d]
  BY SettleWrites
<1>2. EvidenceKept
  BY SettleKeepsEvidence
<1>3. c.evidence \in EvidenceIds /\ \A d \in ChallengeIds : d.evidence \in EvidenceIds
  BY IdTypes
<1>4. \A d \in ChallengeIds :
            d # c /\ challenges[d].status = "Upheld" => evidence'[d.evidence].status = "Invalidated"
  BY <1>2, <1>3 DEF PenalisedOnce, EvidenceKept
<1>5. CASE verdict = "Upheld" /\ UpholdActive(c)
  <2>1. evidence[c.evidence].status = "Active" /\ UNCHANGED alreadyInvalidated
    BY <1>5 DEF UpholdActive
  <2>2. evidence'[c.evidence].status = "Invalidated"
    BY <1>3, <1>5 DEF UpholdActive, RegistryTypeOK, Evidence
  <2>3. \A d \in ChallengeIds : d.evidence = c.evidence /\ d # c => ~ Paid(d)'
    BY <1>1, <2>1 DEF PenalisedOnce, Paid
  <2>4. \A d \in ChallengeIds : d # c => (Paid(d)' <=> Paid(d))
    BY <1>1, <2>1 DEF Paid
  <2>5. LoggedWereUpheld'
    BY <1>1, <1>5, <2>1 DEF LoggedWereUpheld, RegistryTypeOK
  <2>6. QED BY <1>1, <1>4, <1>5, <2>2, <2>3, <2>4, <2>5 DEF PenalisedOnce
<1>6. CASE verdict = "Upheld" /\ UpholdInvalidated(c)
  <2>1. UNCHANGED evidence /\ evidence[c.evidence].status = "Invalidated"
        /\ alreadyInvalidated' = alreadyInvalidated \cup {c}
    BY <1>6 DEF UpholdInvalidated
  <2>2. ~ Paid(c)' /\ \A d \in ChallengeIds : d # c => (Paid(d)' <=> Paid(d))
    BY <1>1, <2>1 DEF Paid
  <2>3. LoggedWereUpheld'
    BY <1>1, <1>6, <2>1 DEF LoggedWereUpheld, RegistryTypeOK
  <2>4. QED BY <1>1, <1>4, <2>1, <2>2, <2>3 DEF PenalisedOnce
<1>7. CASE verdict = "Rejected" /\ Reject(c)
  <2>1. UNCHANGED <<evidence, alreadyInvalidated>>
    BY <1>7 DEF Reject
  <2>2. ~ Paid(c)' /\ \A d \in ChallengeIds : d # c => (Paid(d)' <=> Paid(d))
    BY <1>1, <1>7, <2>1 DEF Paid
  <2>3. LoggedWereUpheld'
    BY <1>1, <2>1 DEF LoggedWereUpheld, RegistryTypeOK
  <2>4. QED BY <1>1, <1>4, <1>7, <2>1, <2>2, <2>3 DEF PenalisedOnce
<1>8. QED BY <1>5, <1>6, <1>7 DEF SettleChallenge

\* Challenges are filed in time and resolved later.
LEMMA StepKeepsWindows ==
    ASSUME DisputesInv, [RegistryNext]_registryVars
    PROVE  ChallengedInWindow'
<1> USE DEF DisputesInv
<1>1. QuietStep \/ ChallengeFiled \/ ChallengeSettled
  BY StepsOfRegistry
<1>2. now \in Nat \ {0} /\ \A c \in ChallengeIds : challenges[c] \in Challenge
                        /\ c.evidence \in EvidenceIds
  BY IdTypes DEF RegistryTypeOK
<1>3. CASE QuietStep
  BY <1>2, <1>3 DEF QuietStep, EvidenceKept, ChallengedInWindow, Challenge
<1>4. CASE ChallengeSettled
  <2> PICK c \in ChallengeIds, verdict \in Verdicts : SettleChallenge(c, verdict)
    BY <1>4 DEF ChallengeSettled
  <2>1. EvidenceKept
    BY SettleKeepsEvidence
  <2>2. SUFFICES ASSUME NEW d \in ChallengeIds, challenges'[d].status # "Unknown"
                 PROVE  /\ evidence'[d.evidence].status # "Unknown"
                        /\ \/ evidence'[d.evidence].window = 0
                           \/ challenges'[d].submittedAt <= evidence'[d.evidence].window
                        /\ challenges'[d].submittedAt \in 1 .. now'
                        /\ challenges'[d].status \in Verdicts
                               => challenges'[d].resolvedAt \in challenges'[d].submittedAt .. now'
    BY DEF ChallengedInWindow
  <2>3. challenges[d].status # "Unknown" /\ challenges'[d].submittedAt = challenges[d].submittedAt
        /\ now' = now
    BY <2>2, SettleWrites
  <2>4. challenges'[d].status \in Verdicts
            => challenges'[d].resolvedAt \in challenges'[d].submittedAt .. now'
    BY <1>2, <2>3, SettleWrites DEF ChallengedInWindow, Challenge
  <2>5. QED BY <1>2, <2>1, <2>3, <2>4 DEF ChallengedInWindow, EvidenceKept
<1>5. CASE ChallengeFiled
  <2> PICK a \in Accounts, e \in EvidenceIds, reason \in Reasons : SubmitChallenge(a, e, reason)
    BY <1>5 DEF ChallengeFiled
  <2> DEFINE c == ChallengeId(e, a, reason)
  <2>1. c \in ChallengeIds /\ c.evidence = e /\ UNCHANGED <<evidence, now>>
    BY DEF SubmitChallenge, ChallengeId
  <2>2. challenges' = [challenges EXCEPT ![c] =
                        [status |-> "Submitted", submittedAt |-> now, resolvedAt |-> 0]]
    BY DEF SubmitChallenge
  <2>3. evidence[e].status = "Active" /\ (evidence[e].window = 0 \/ now <= evidence[e].window)
    BY DEF SubmitChallenge, WindowOpen
  <2>4. QED BY <1>2, <2>1, <2>2, <2>3 DEF ChallengedInWindow, RegistryTypeOK, Verdicts
<1>6. QED BY <1>1, <1>3, <1>4, <1>5

\* The inductive invariant of the disputes.
THEOREM DisputesInvCorrect == RegistrySpec => []DisputesInv
<1>1. RegistryInit => DisputesInv
  BY InitTypes DEF RegistryInit, DisputesInv, LoggedWereUpheld, PenalisedOnce,
                   ChallengedInWindow, NoChallenge, Paid
<1>2. DisputesInv /\ RegistryTypeOK' /\ [RegistryNext]_registryVars => DisputesInv'
  <2> SUFFICES ASSUME DisputesInv, RegistryTypeOK', [RegistryNext]_registryVars
               PROVE  (LoggedWereUpheld /\ PenalisedOnce)'
    BY StepKeepsWindows DEF DisputesInv
  <2> USE DEF DisputesInv
  <2>1. QuietStep \/ ChallengeFiled \/ ChallengeSettled
    BY StepsOfRegistry
  <2>2. CASE QuietStep
    BY <2>2, IdTypes DEF QuietStep, EvidenceKept, LoggedWereUpheld, PenalisedOnce, Paid
  <2>3. CASE ChallengeSettled
    BY <2>3, SettleKeepsDisputes DEF ChallengeSettled
  <2>4. CASE ChallengeFiled
    <3> PICK a \in Accounts, e \in EvidenceIds, reason \in Reasons :
                SubmitChallenge(a, e, reason)
      BY <2>4 DEF ChallengeFiled
    <3> DEFINE c == ChallengeId(e, a, reason)
    <3>1. /\ UNCHANGED <<evidence, alreadyInvalidated>>
          /\ challenges[c].status = "Unknown" /\ challenges'[c].status = "Submitted"
          /\ \A d \in ChallengeIds : d # c => challenges'[d] = challenges[d]
      BY DEF SubmitChallenge, RegistryTypeOK
    <3>2. QED BY <3>1 DEF LoggedWereUpheld, PenalisedOnce, Paid, RegistryTypeOK
  <2>5. QED BY <2>1, <2>2, <2>3, <2>4
<1>3. QED BY <1>1, <1>2, RegistryTypeCorrect, PTL DEF RegistrySpec

\* Evidence costs its reporter reputation once, whoever settles its challenges.
THEOREM PenaltiesAreSingle == RegistrySpec => []PenalisedOnce
BY DisputesInvCorrect, PTL DEF DisputesInv

\* Challenges are filed inside the window of their evidence.
THEOREM ChallengesAreTimely == RegistrySpec => []ChallengedInWindow
BY DisputesInvCorrect, PTL DEF DisputesInv

\* A verdict is final and evidence is never revived.
THEOREM DisputesStayFinal == RegistrySpec => DisputesAreFinal
<1>1. RegistryTypeOK /\ [RegistryNext]_registryVars =>
        [/\ \A c \in ChallengeIds :
                challenges[c].status \in Verdicts => challenges'[c] = challenges[c]
         /\ \A e \in EvidenceIds :
                /\ evidence[e].status = "Invalidated" => evidence'[e] = evidence[e]
                /\ evidence[e].status = "Active" => evidence'[e].status # "Unknown"]_registryVars
  <2> SUFFICES ASSUME RegistryTypeOK, [RegistryNext]_registryVars
               PROVE  /\ \A c \in ChallengeIds :
                            challenges[c].status \in Verdicts => challenges'[c] = challenges[c]
                      /\ \A e \in EvidenceIds :
                            /\ evidence[e].status = "Invalidated" => evidence'[e] = evidence[e]
                            /\ evidence[e].status = "Active" => evidence'[e].status # "Unknown"
    OBVIOUS
  <2>1. QuietStep \/ ChallengeFiled \/ ChallengeSettled
    BY StepsOfRegistry
  <2>2. ASSUME NEW c \in ChallengeIds, challenges[c].status \in Verdicts
        PROVE  challenges'[c] = challenges[c]
    <3>1. CASE QuietStep
      BY <3>1 DEF QuietStep
    <3>2. CASE ChallengeFiled
      BY <2>2, <3>2 DEF ChallengeFiled, SubmitChallenge, RegistryTypeOK, Verdicts
    <3>3. CASE ChallengeSettled
      BY <2>2, <3>3, SettleWrites DEF ChallengeSettled, Verdicts
    <3>4. QED BY <2>1, <3>1, <3>2, <3>3
  <2>3. EvidenceKept
    BY <2>1, SettleKeepsEvidence
       DEF QuietStep, ChallengeFiled, ChallengeSettled, SubmitChallenge, EvidenceKept
  <2>4. ASSUME NEW e \in EvidenceIds, evidence[e].status = "Invalidated"
        PROVE  evidence'[e] = evidence[e]
    <3>1. evidence[e] \in Evidence /\ evidence'[e] \in Evidence
      BY CallTypes, TickTypes, ContractTypes, IdleTypes DEF RegistryTypeOK, RegistryNext
    <3>2. /\ evidence'[e].status = evidence[e].status
          /\ evidence'[e].group = evidence[e].group
          /\ evidence'[e].window = evidence[e].window
      BY <2>3, <2>4 DEF EvidenceKept
    <3>3. QED BY <3>1, <3>2 DEF Evidence
  <2>5. QED BY <2>2, <2>3, <2>4 DEF EvidenceKept
<1>2. QED BY <1>1, RegistryTypeCorrect, PTL DEF RegistrySpec, DisputesAreFinal

-----------------------------------------------------------------------------
(* Reputation                                                                *)

\* The challenges an account won, lost its evidence to, and lost.
Won(a)       == {c \in ChallengeIds : Paid(c) /\ c.challenger = a}
Penalised(a) == {c \in ChallengeIds : Paid(c) /\ c.evidence.reporter = a}
Lost(a)      == {c \in ChallengeIds :
                    challenges[c].status = "Rejected" /\ c.challenger = a}

\* Their numbers are numbers, and grow by one with a new challenge.
LEMMA LogCounts ==
    ASSUME NEW S \in SUBSET ChallengeIds, NEW c \in ChallengeIds
    PROVE  /\ Cardinality(S) \in Int
           /\ c \notin S => Cardinality(S \cup {c}) = Cardinality(S) + 1
<1>1. IsFiniteSet(S)
  BY IdAssumption, FS_Subset
<1>2. Cardinality(S) \in Nat
  BY <1>1, FS_CardinalityType
<1>3. c \notin S => Cardinality(S \cup {c}) = Cardinality(S) + 1
  BY <1>1, FS_AddElement
<1>4. QED BY <1>2, <1>3

\* A settlement adds its challenge to the log under the accounts it pays.
LEMMA SettleAddsUp ==
    ASSUME DisputesInv, ReputationMatchesLog, NEW c \in ChallengeIds,
           NEW verdict \in Verdicts, SettleChallenge(c, verdict)
    PROVE  ReputationMatchesLog'
<1> SUFFICES ASSUME NEW a \in Accounts
             PROVE  testnetReputation'[a] = 5 * Cardinality(Won(a)')
                        - 10 * Cardinality(Penalised(a)') - 2 * Cardinality(Lost(a)')
  BY DEF ReputationMatchesLog, Won, Penalised, Lost
<1>1. testnetReputation[a] = 5 * Cardinality(Won(a))
            - 10 * Cardinality(Penalised(a)) - 2 * Cardinality(Lost(a))
  BY DEF ReputationMatchesLog, Won, Penalised, Lost
<1>2. /\ challenges[c].status = "Submitted" /\ challenges'[c].status = verdict
      /\ \A d \in ChallengeIds : d # c => challenges'[d] = challenges[d]
  BY SettleWrites DEF DisputesInv
<1>3. c \notin Won(a) /\ c \notin Penalised(a) /\ c \notin Lost(a) /\ c \notin alreadyInvalidated
  BY <1>2 DEF Won, Penalised, Lost, Paid, DisputesInv, LoggedWereUpheld
<1>4. /\ Cardinality(Won(a)) \in Int
      /\ Cardinality(Penalised(a)) \in Int
      /\ Cardinality(Lost(a)) \in Int
      /\ Cardinality(Won(a) \cup {c}) = Cardinality(Won(a)) + 1
      /\ Cardinality(Penalised(a) \cup {c}) = Cardinality(Penalised(a)) + 1
      /\ Cardinality(Lost(a) \cup {c}) = Cardinality(Lost(a)) + 1
  <2>1. Won(a) \in SUBSET ChallengeIds /\ Penalised(a) \in SUBSET ChallengeIds
        /\ Lost(a) \in SUBSET ChallengeIds
    BY DEF Won, Penalised, Lost
  <2>2. QED BY <1>3, <2>1, LogCounts
<1>5. testnetReputation \in [Accounts -> Int] /\ c.challenger \in Accounts
  BY IdTypes DEF DisputesInv, RegistryTypeOK
<1>6. CASE verdict = "Upheld" /\ UpholdActive(c)
  <2>1. Paid(c)' /\ \A d \in ChallengeIds : d # c => (Paid(d)' <=> Paid(d))
    BY <1>2, <1>3, <1>6 DEF UpholdActive, Paid
  <2>2. Won(a)' = IF a = c.challenger THEN Won(a) \cup {c} ELSE Won(a)
    BY <1>3, <2>1 DEF Won
  <2>3. Penalised(a)' = IF a = c.evidence.reporter THEN Penalised(a) \cup {c} ELSE Penalised(a)
    BY <1>3, <2>1 DEF Penalised
  <2>4. Lost(a)' = Lost(a)
    BY <1>2, <1>6 DEF Lost
  <2>5. testnetReputation'[a] = testnetReputation[a]
            + (IF a = c.challenger THEN 5 ELSE 0)
            - (IF a = c.evidence.reporter THEN 10 ELSE 0)
    BY <1>6 DEF UpholdActive, Penalise
  <2>6. Cardinality(Won(a)') = Cardinality(Won(a)) + (IF a = c.challenger THEN 1 ELSE 0)
    BY <1>4, <2>2
  <2>7. Cardinality(Penalised(a)') = Cardinality(Penalised(a))
            + (IF a = c.evidence.reporter THEN 1 ELSE 0)
    BY <1>4, <2>3
  <2>8. QED BY <1>1, <1>4, <2>4, <2>5, <2>6, <2>7
<1>7. CASE verdict = "Upheld" /\ UpholdInvalidated(c)
  <2>1. ~ Paid(c)' /\ ~ Paid(c) /\ \A d \in ChallengeIds : d # c => (Paid(d)' <=> Paid(d))
    BY <1>2, <1>7 DEF UpholdInvalidated, Paid
  <2>2. Won(a)' = Won(a) /\ Penalised(a)' = Penalised(a)
    BY <2>1 DEF Won, Penalised
  <2>3. Lost(a)' = Lost(a)
    BY <1>2, <1>7 DEF Lost
  <2>4. QED BY <1>1, <1>7, <2>2, <2>3 DEF UpholdInvalidated
<1>8. CASE verdict = "Rejected" /\ Reject(c)
  <2>1. ~ Paid(c)' /\ ~ Paid(c) /\ \A d \in ChallengeIds : d # c => (Paid(d)' <=> Paid(d))
    BY <1>2, <1>8 DEF Reject, Paid
  <2>2. Won(a)' = Won(a) /\ Penalised(a)' = Penalised(a)
    BY <2>1 DEF Won, Penalised
  <2>3. Lost(a)' = IF a = c.challenger THEN Lost(a) \cup {c} ELSE Lost(a)
    BY <1>2, <1>8 DEF Lost
  <2>4. testnetReputation'[a] = testnetReputation[a] - (IF a = c.challenger THEN 2 ELSE 0)
    BY <1>5, <1>8 DEF Reject
  <2>5. Cardinality(Lost(a)') = Cardinality(Lost(a)) + (IF a = c.challenger THEN 1 ELSE 0)
    BY <1>4, <2>3
  <2>6. QED BY <1>1, <1>4, <2>2, <2>4, <2>5
<1>9. QED BY <1>6, <1>7, <1>8 DEF SettleChallenge

\* The statuses and the log give back every account's reputation.
THEOREM ReputationAddsUp == RegistrySpec => []ReputationMatchesLog
<1>1. RegistryInit => ReputationMatchesLog
  <2> SUFFICES ASSUME RegistryInit, NEW a \in Accounts
               PROVE  testnetReputation[a] = 5 * Cardinality(Won(a))
                        - 10 * Cardinality(Penalised(a)) - 2 * Cardinality(Lost(a))
    BY DEF ReputationMatchesLog, Won, Penalised, Lost
  <2>1. Won(a) = {} /\ Penalised(a) = {} /\ Lost(a) = {}
    BY DEF RegistryInit, NoChallenge, Won, Penalised, Lost, Paid
  <2>2. Cardinality({}) = 0
    BY FS_EmptySet
  <2>3. QED BY <2>1, <2>2 DEF RegistryInit
<1>2. DisputesInv /\ ReputationMatchesLog /\ [RegistryNext]_registryVars
            => ReputationMatchesLog'
  <2> SUFFICES ASSUME DisputesInv, ReputationMatchesLog, [RegistryNext]_registryVars
               PROVE  ReputationMatchesLog'
    OBVIOUS
  <2>1. QuietStep \/ ChallengeFiled \/ ChallengeSettled
    BY StepsOfRegistry DEF DisputesInv
  <2>2. ASSUME UNCHANGED <<testnetReputation, alreadyInvalidated>>,
               \A d \in ChallengeIds :
                    /\ challenges'[d].status = "Upheld" <=> challenges[d].status = "Upheld"
                    /\ challenges'[d].status = "Rejected" <=> challenges[d].status = "Rejected"
        PROVE  ReputationMatchesLog'
    <3>1. \A a \in Accounts : /\ Won(a)' = Won(a)
                              /\ Penalised(a)' = Penalised(a)
                              /\ Lost(a)' = Lost(a)
      BY <2>2 DEF Won, Penalised, Lost, Paid
    <3>2. QED BY <2>2, <3>1 DEF ReputationMatchesLog, Won, Penalised, Lost
  <2>3. CASE QuietStep
    BY <2>2, <2>3 DEF QuietStep
  <2>4. CASE ChallengeFiled
    <3>1. UNCHANGED <<testnetReputation, alreadyInvalidated>>
      BY <2>4 DEF ChallengeFiled, SubmitChallenge
    <3>2. \A d \in ChallengeIds :
            \/ challenges'[d] = challenges[d]
            \/ challenges[d].status = "Unknown" /\ challenges'[d].status = "Submitted"
      BY <2>4 DEF ChallengeFiled, SubmitChallenge, DisputesInv, RegistryTypeOK
    <3>3. QED BY <2>2, <3>1, <3>2
  <2>5. CASE ChallengeSettled
    BY <2>5, SettleAddsUp DEF ChallengeSettled
  <2>6. QED BY <2>1, <2>3, <2>4, <2>5
<1>3. QED BY <1>1, <1>2, DisputesInvCorrect, PTL DEF RegistrySpec

-----------------------------------------------------------------------------
(* What the registries guarantee of reports and evidence when they are      *)
(* filed, for any accounts, modules and order of the transactions.          *)

\* Registrations, profiles and modules are never taken back.
PeopleKept ==
    /\ modules \subseteq modules'
    /\ \A v \in Validators :
        /\ identities[v] # "Unknown" => identities'[v] = identities[v]
        /\ validatorProfiles[v].exists => validatorProfiles'[v].exists

\* A step that files neither a report nor evidence.
NothingFiled ==
    /\ PeopleKept
    /\ reports' = reports
    /\ \A e \in EvidenceIds :
        /\ evidence'[e].status = "Unknown" <=> evidence[e].status = "Unknown"
        /\ evidence'[e].group = evidence[e].group

ReportFiled == \E a \in Accounts, m \in Modules, b \in Bundles : SubmitReport(a, m, b)

EvidenceFiled ==
    \E a \in Accounts, m \in Modules, b \in Bundles, t \in EvidenceTypes,
       g \in Groups, w \in Windows : SubmitEvidence(a, m, b, t, g, w)

\* Settling a challenge leaves what was filed.
LEMMA SettleFilesNothing ==
    ASSUME RegistryTypeOK, NEW c \in ChallengeIds, NEW verdict \in Verdicts,
           SettleChallenge(c, verdict)
    PROVE  NothingFiled
<1> USE DEF SettleChallenge, peopleVars, intakeVars
<1>1. PeopleKept /\ reports' = reports
  BY DEF PeopleKept
<1>2. CASE UNCHANGED evidence
  BY <1>1, <1>2 DEF NothingFiled
<1>3. CASE UpholdActive(c)
  <2>1. \A e \in EvidenceIds : evidence[e] \in Evidence
    BY DEF RegistryTypeOK
  <2>2. QED BY <1>1, <1>3, <2>1, IdTypes DEF UpholdActive, NothingFiled, RegistryTypeOK, Evidence
<1>4. QED BY <1>2, <1>3 DEF UpholdInvalidated, Reject

\* Every step files a report, files evidence or files nothing.
LEMMA StepsOfIntake ==
    ASSUME RegistryTypeOK, [RegistryNext]_registryVars
    PROVE  NothingFiled \/ ReportFiled \/ EvidenceFiled
<1> USE DEF adjudicatorVars, peopleVars, intakeVars, disputeVars
<1>1. ASSUME UNCHANGED <<reports, evidence>>, PeopleKept
      PROVE  NothingFiled
  BY <1>1 DEF NothingFiled
<1>2. ASSUME UNCHANGED <<peopleVars, modules>>
      PROVE  PeopleKept
  BY <1>2 DEF PeopleKept
<1>3. CASE UNCHANGED registryVars \/ Tick
  BY <1>1, <1>2, <1>3 DEF registryVars, Tick
<1>4. CASE \E r \in Registries : AdjudicationContract(r)
  <2> PICK r \in Registries : AdjudicationContract(r)
    BY <1>4
  <2>1. CASE \E c \in ChallengeIds, v \in Verdicts : ResolveChallengeFromAdjudicator(r, c, v)
    BY <2>1, SettleFilesNothing DEF ResolveChallengeFromAdjudicator
  <2>2. CASE UNCHANGED <<peopleVars, intakeVars, disputeVars>>
    BY <1>1, <1>2, <2>2
  <2>3. QED BY <2>1, <2>2 DEF AdjudicationContract
<1>5. CASE RegistryCall
  <2>1. ASSUME NEW v \in Validators, NEW role \in Roles, RegisterIdentity(v, role)
        PROVE  NothingFiled
    <3>1. PeopleKept
      BY <2>1 DEF RegisterIdentity, PeopleKept, RegistryTypeOK
    <3>2. QED BY <1>1, <2>1, <3>1 DEF RegisterIdentity
  <2>2. ASSUME NEW m \in Modules, SubmitModule(m)
        PROVE  NothingFiled
    <3>1. PeopleKept
      BY <2>2 DEF SubmitModule, PeopleKept
    <3>2. QED BY <1>1, <2>2, <3>1 DEF SubmitModule
  <2>3. ASSUME NEW v \in Validators, NEW a \in Accounts, NEW g \in Groups, NEW ok \in BOOLEAN,
               SetValidatorProfile(a, v, g, ok)
        PROVE  NothingFiled
    <3>1. PeopleKept
      BY <2>3 DEF SetValidatorProfile, PeopleKept, RegistryTypeOK
    <3>2. QED BY <1>1, <2>3, <3>1 DEF SetValidatorProfile
  <2>4. ASSUME NEW a \in Accounts, NEW x \in Candidates, ProposeAdjudicator(a, x)
        PROVE  NothingFiled
    BY <1>1, <1>2, <2>4 DEF ProposeAdjudicator
  <2>5. ASSUME NEW a \in Accounts, ConfirmAdjudicator(a)
        PROVE  NothingFiled
    BY <1>1, <1>2, <2>5 DEF ConfirmAdjudicator
  <2>6. ASSUME NEW a \in Accounts, NEW e \in EvidenceIds, InvalidateEvidence(a, e)
        PROVE  NothingFiled
    <3>1. \A x \in EvidenceIds : evidence[x] \in Evidence
      BY DEF RegistryTypeOK
    <3>2. QED BY <1>2, <2>6, <3>1 DEF InvalidateEvidence, NothingFiled, RegistryTypeOK, Evidence
  <2>7. ASSUME NEW a \in Accounts, NEW e \in EvidenceIds, NEW reason \in Reasons,
               SubmitChallenge(a, e, reason)
        PROVE  NothingFiled
    BY <1>1, <1>2, <2>7 DEF SubmitChallenge
  <2>8. ASSUME NEW a \in Accounts, NEW c \in ChallengeIds, NEW v \in Verdicts,
               ResolveChallenge(a, c, v) \/ ResolveChallengeFromAdjudicator(a, c, v)
        PROVE  NothingFiled
    BY <2>8, SettleFilesNothing DEF ResolveChallenge, ResolveChallengeFromAdjudicator
  <2>9. QED BY <1>5, <2>1, <2>2, <2>3, <2>4, <2>5, <2>6, <2>7, <2>8
            DEF RegistryCall, ReportFiled, EvidenceFiled
<1>6. QED BY <1>3, <1>4, <1>5 DEF RegistryNext

-----------------------------------------------------------------------------
\* What is filed, with the types; inductive as it stands, for what a report or an evidence
\* needs is never taken back (PeopleKept).
IntakeInv == RegistryTypeOK /\ ReportBackedByEvidence /\ ValidatorReportsQualified

\* Evidence filed under an id that was free becomes active; other evidence stays.
LEMMA RecordEffect ==
    ASSUME RegistryTypeOK, NEW e, NEW group, NEW window, RecordEvidence(e, group, window)
    PROVE  /\ e \in EvidenceIds /\ evidence[e].status = "Unknown"
           /\ evidence'[e].status = "Active" /\ evidence'[e].group = group
           /\ \A f \in EvidenceIds : f # e => evidence'[f] = evidence[f]
BY DEF RecordEvidence, RegistryTypeOK

\* A report comes with its local evidence.
LEMMA ReportKeepsIntake ==
    ASSUME IntakeInv, NEW a \in Accounts, NEW m \in Modules, NEW b \in Bundles,
           SubmitReport(a, m, b)
    PROVE  ReportBackedByEvidence' /\ ValidatorReportsQualified'
<1> DEFINE e == EvidenceId(m, b, a, "LocalClientReport")
           report == [module |-> m, bundle |-> b, reporter |-> a]
<1>1. /\ e \in EvidenceIds /\ evidence'[e].status = "Active"
      /\ \A f \in EvidenceIds : f # e => evidence'[f] = evidence[f]
  BY RecordEffect DEF IntakeInv, SubmitReport
<1>2. /\ m \in modules /\ \A other \in reports : other.module # m
      /\ reports' = reports \cup {report}
      /\ UNCHANGED <<modules, identities, validatorProfiles>>
  BY DEF SubmitReport, peopleVars
<1>3. e.type = "LocalClientReport"
  BY DEF EvidenceId
<1>4. report.module = m /\ report.bundle = b /\ report.reporter = a
  OBVIOUS
<1> HIDE DEF report
<1>5. ReportBackedByEvidence'
  <2>1. SUFFICES ASSUME NEW rep \in reports'
                 PROVE  /\ rep.module \in modules'
                        /\ \A other \in reports' : other.module = rep.module => other = rep
                        /\ LET f == EvidenceId(rep.module, rep.bundle, rep.reporter,
                                               "LocalClientReport")
                           IN  f \in EvidenceIds /\ evidence'[f].status # "Unknown"
    BY DEF ReportBackedByEvidence
  <2>2. CASE rep = report
    BY <1>1, <1>2, <1>4, <2>2
  <2>3. CASE rep \in reports
    <3> DEFINE f == EvidenceId(rep.module, rep.bundle, rep.reporter, "LocalClientReport")
    <3>1. /\ rep.module \in modules
          /\ \A other \in reports : other.module = rep.module => other = rep
          /\ f \in EvidenceIds /\ evidence[f].status # "Unknown"
      BY <2>3 DEF IntakeInv, ReportBackedByEvidence
    <3> HIDE DEF f, e
    <3>2. evidence'[f].status # "Unknown"
      BY <1>1, <3>1
    <3>3. \A other \in reports' : other.module = rep.module => other = rep
      BY <1>2, <1>4, <2>3, <3>1
    <3>4. QED BY <1>2, <3>1, <3>2, <3>3 DEF f
  <2>4. QED BY <1>2, <2>1, <2>2, <2>3
<1>6. ValidatorReportsQualified'
  BY <1>1, <1>2, <1>3 DEF IntakeInv, ValidatorReportsQualified
<1>7. QED BY <1>5, <1>6

\* Evidence of type ValidatorReport is filed by qualified validators only.
LEMMA EvidenceKeepsIntake ==
    ASSUME IntakeInv, NEW a \in Accounts, NEW m \in Modules, NEW b \in Bundles,
           NEW t \in EvidenceTypes, NEW g \in Groups, NEW w \in Windows,
           SubmitEvidence(a, m, b, t, g, w)
    PROVE  ReportBackedByEvidence' /\ ValidatorReportsQualified'
<1> DEFINE e == EvidenceId(m, b, a, FiledType(a, t))
<1>1. /\ e \in EvidenceIds /\ evidence'[e].status = "Active"
      /\ \A f \in EvidenceIds : f # e => evidence'[f] = evidence[f]
  BY RecordEffect DEF IntakeInv, SubmitEvidence
<1>2. UNCHANGED <<modules, reports, identities, validatorProfiles>>
  BY DEF SubmitEvidence, peopleVars, intakeVars
<1>3. e.type = FiledType(a, t) /\ e.reporter = a
  BY DEF EvidenceId
<1>4. e.type = "ValidatorReport" => IsQualifiedValidator(a)
  BY <1>3 DEF FiledType
<1> HIDE DEF e
<1>5. \A f \in EvidenceIds : evidence[f].status # "Unknown" => evidence'[f].status # "Unknown"
  BY <1>1
<1>6. ReportBackedByEvidence'
  BY <1>2, <1>5 DEF IntakeInv, ReportBackedByEvidence
<1>7. ValidatorReportsQualified'
  BY <1>1, <1>2, <1>3, <1>4 DEF IntakeInv, ValidatorReportsQualified, IsQualifiedValidator
<1>8. QED BY <1>6, <1>7

\* The inductive invariant of what is filed.
THEOREM IntakeInvCorrect == RegistrySpec => []IntakeInv
<1>1. RegistryInit => IntakeInv
  BY InitTypes DEF RegistryInit, IntakeInv, ReportBackedByEvidence, ValidatorReportsQualified,
                   NoEvidence
<1>2. IntakeInv /\ RegistryTypeOK' /\ [RegistryNext]_registryVars => IntakeInv'
  <2> SUFFICES ASSUME IntakeInv, RegistryTypeOK', [RegistryNext]_registryVars
               PROVE  ReportBackedByEvidence' /\ ValidatorReportsQualified'
    BY DEF IntakeInv
  <2>1. NothingFiled \/ ReportFiled \/ EvidenceFiled
    BY StepsOfIntake DEF IntakeInv
  <2>2. CASE NothingFiled
    <3>1. ReportBackedByEvidence'
      BY <2>2 DEF NothingFiled, PeopleKept, IntakeInv, ReportBackedByEvidence
    <3>2. ValidatorReportsQualified'
      BY <2>2 DEF NothingFiled, PeopleKept, IntakeInv, ValidatorReportsQualified
    <3>3. QED BY <3>1, <3>2
  <2>3. CASE ReportFiled
    BY <2>3, ReportKeepsIntake DEF ReportFiled
  <2>4. CASE EvidenceFiled
    BY <2>4, EvidenceKeepsIntake DEF EvidenceFiled
  <2>5. QED BY <2>1, <2>2, <2>3, <2>4
<1>3. QED BY <1>1, <1>2, RegistryTypeCorrect, PTL DEF RegistrySpec

\* A stored report is its module's only one and has its local evidence.
THEOREM ReportsAreBacked == RegistrySpec => []ReportBackedByEvidence
BY IntakeInvCorrect, PTL DEF IntakeInv

\* Validator reports belong to registered and profiled validators.
THEOREM ValidatorReportsAreQualified == RegistrySpec => []ValidatorReportsQualified
BY IntakeInvCorrect, PTL DEF IntakeInv

\* A validator report is filed under the group the owner profiled, and stays there.
THEOREM GroupsStayProfiled == RegistrySpec => GroupsAreProfiled
<1>1. RegistryTypeOK /\ [RegistryNext]_registryVars =>
        [\A e \in EvidenceIds :
            e.type = "ValidatorReport" =>
                \/ evidence'[e].group = evidence[e].group
                \/ /\ evidence[e].status = "Unknown"
                   /\ evidence'[e].group = validatorProfiles[e.reporter].group]_registryVars
  <2> SUFFICES ASSUME RegistryTypeOK, [RegistryNext]_registryVars,
                      NEW e \in EvidenceIds, e.type = "ValidatorReport"
               PROVE  \/ evidence'[e].group = evidence[e].group
                      \/ /\ evidence[e].status = "Unknown"
                         /\ evidence'[e].group = validatorProfiles[e.reporter].group
    OBVIOUS
  <2>1. NothingFiled \/ ReportFiled \/ EvidenceFiled
    BY StepsOfIntake
  <2>2. CASE NothingFiled
    BY <2>2 DEF NothingFiled
  <2>3. CASE ReportFiled
    <3> PICK a \in Accounts, m \in Modules, b \in Bundles : SubmitReport(a, m, b)
      BY <2>3 DEF ReportFiled
    <3> DEFINE f == EvidenceId(m, b, a, "LocalClientReport")
    <3>1. f # e
      BY DEF EvidenceId
    <3>2. \A x \in EvidenceIds : x # f => evidence'[x] = evidence[x]
      BY RecordEffect DEF SubmitReport
    <3> HIDE DEF f
    <3>3. QED BY <3>1, <3>2
  <2>4. CASE EvidenceFiled
    <3> PICK a \in Accounts, m \in Modules, b \in Bundles, t \in EvidenceTypes,
             g \in Groups, w \in Windows : SubmitEvidence(a, m, b, t, g, w)
      BY <2>4 DEF EvidenceFiled
    <3> DEFINE f == EvidenceId(m, b, a, FiledType(a, t))
    <3>1. /\ evidence[f].status = "Unknown" /\ evidence'[f].group = FiledGroup(a, t, g)
          /\ \A x \in EvidenceIds : x # f => evidence'[x] = evidence[x]
      BY RecordEffect DEF SubmitEvidence
    <3>2. f.type = FiledType(a, t) /\ f.reporter = a
      BY DEF EvidenceId
    <3>3. f.type = "ValidatorReport" => FiledGroup(a, t, g) = validatorProfiles[a].group
      BY <3>2 DEF FiledType, FiledGroup
    <3> HIDE DEF f
    <3>4. QED BY <3>1, <3>2, <3>3
  <2>5. QED BY <2>1, <2>2, <2>3, <2>4
<1>2. QED BY <1>1, RegistryTypeCorrect, PTL DEF RegistrySpec, GroupsAreProfiled

=============================================================================

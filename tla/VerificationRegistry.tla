------------------------ MODULE VerificationRegistry ------------------------
(***************************************************************************)
(* The registry contracts a verification claim passes through:             *)
(* IdentityRegistry, ModuleRegistry and VerificationRegistry               *)
(* (contracts/src/*.sol).                                                  *)
(*                                                                         *)
(* A transaction that reverts changes nothing, so an operation is an       *)
(* action whose conjuncts are the checks the code makes.  The owner-only   *)
(* operations take the caller as their first parameter.                    *)
(* Definitions named Deviating... are mistaken variants of the definition   *)
(* they stand before: what the properties below have to notice.            *)
(*                                                                         *)
(* Abstractions.  keccak256 is injective, so a record's id is the tuple    *)
(* it hashes: an evidence id is [module, bundle, reporter, type] (bundle   *)
(* stands for the proof and the report hash) and a challenge id is         *)
(* [evidence, challenger, reason].  A hash that the code only tests        *)
(* against zero is left out.  An unset enum is "Unknown", as in the code,  *)
(* and doubles as the record's "exists" flag.                              *)
(***************************************************************************)
EXTENDS Integers, FiniteSets

CONSTANTS
    Accounts,       \* externally owned addresses
    Owner,          \* the account that deployed the contracts
    Validators,     \* accounts that may register an identity and be profiled
    Registries,     \* addresses of deployed adjudication contracts
    NoAddress,      \* address(0)
    Candidates,     \* addresses the owner may propose as adjudicator
    Modules,        \* module digests
    Bundles,        \* (proof bundle, report) pairs
    Groups,         \* (operator group, runner fingerprint) pairs, never zero
    NoGroup,        \* the zero pair stored by submitReport
    Reasons,        \* challenge reason hashes
    Windows,        \* challengeWindowEnd arguments; 0 is "no end"
    EvidenceIds,    \* bound: the evidence that may be submitted
    ChallengeIds,   \* bound: the challenges that may be submitted
    AdjudicatorConfirmationDelay,
    MaxTime         \* bound on block.timestamp

Roles == {"Developer", "Validator", "Operator"}

EvidenceTypes == {"LocalClientReport", "UserSignedReceipt", "ValidatorReport",
                  "UnqualifiedValidatorReport", "FoundationSeedReport"}

Verdicts == {"Upheld", "Rejected"}

Addresses == Accounts \cup Registries

ASSUME AddressAssumption ==
    /\ Owner \in Accounts
    /\ Validators \subseteq Accounts
    /\ Accounts \cap Registries = {}
    /\ NoAddress \notin Addresses
    /\ Candidates \subseteq Addresses
    /\ IsFiniteSet(Accounts)

ASSUME IdAssumption ==
    /\ EvidenceIds \subseteq [module : Modules, bundle : Bundles,
                              reporter : Accounts, type : EvidenceTypes]
    /\ ChallengeIds \subseteq [evidence : EvidenceIds, challenger : Accounts,
                               reason : Reasons]
    /\ IsFiniteSet(ChallengeIds)
    /\ Windows \subseteq Nat
    /\ NoGroup \notin Groups

ASSUME TimeAssumption ==
    /\ AdjudicatorConfirmationDelay \in Nat
    /\ MaxTime \in Nat

VARIABLES
    now,                    \* block.timestamp; never 0 on a chain
    identities,             \* IdentityRegistry: the role each account registered
    modules,                \* ModuleRegistry: the digests submitted
    adjudicator,
    pendingAdjudicator,
    adjudicatorProposedAt,
    validatorProfiles,
    reports,                \* the set of stored VerificationReports
    evidence,
    challenges,
    alreadyInvalidated,     \* challenges whose resolution logged
                            \* ChallengeResolvedOnAlreadyInvalidated
    testnetReputation,
    adjudicationStarted     \* what each adjudication contract answers

adjudicatorVars == <<adjudicator, pendingAdjudicator, adjudicatorProposedAt>>
peopleVars      == <<identities, validatorProfiles>>
intakeVars      == <<modules, reports>>
disputeVars     == <<evidence, challenges, alreadyInvalidated, testnetReputation>>

registryVars == <<now, adjudicatorVars, peopleVars, intakeVars, disputeVars,
                  adjudicationStarted>>

NoProfile   == [exists |-> FALSE, allowed |-> FALSE, group |-> NoGroup]
NoEvidence  == [status |-> "Unknown", group |-> NoGroup, window |-> 0]
NoChallenge == [status |-> "Unknown", submittedAt |-> 0, resolvedAt |-> 0]

Profile   == [exists : BOOLEAN, allowed : BOOLEAN, group : Groups \cup {NoGroup}]
Evidence  == [status : {"Unknown", "Active", "Invalidated"},
              group : Groups \cup {NoGroup}, window : Nat]
Challenge == [status : {"Unknown", "Submitted"} \cup Verdicts,
              submittedAt : Nat, resolvedAt : Nat]

\* Every variable has the shape of the storage slot it models.
RegistryTypeOK ==
    /\ now \in Nat \ {0}
    /\ identities \in [Validators -> Roles \cup {"Unknown"}]
    /\ modules \subseteq Modules
    /\ adjudicator \in Addresses \cup {NoAddress}
    /\ pendingAdjudicator \in Addresses \cup {NoAddress}
    /\ adjudicatorProposedAt \in Nat
    /\ validatorProfiles \in [Validators -> Profile]
    /\ reports \subseteq [module : Modules, bundle : Bundles, reporter : Accounts]
    /\ evidence \in [EvidenceIds -> Evidence]
    /\ challenges \in [ChallengeIds -> Challenge]
    /\ alreadyInvalidated \subseteq ChallengeIds
    /\ testnetReputation \in [Accounts -> Int]
    /\ adjudicationStarted \in [Registries -> SUBSET ChallengeIds]

RegistryInit ==
    /\ now = 1
    /\ identities = [v \in Validators |-> "Unknown"]
    /\ modules = {}
    /\ adjudicator = NoAddress
    /\ pendingAdjudicator = NoAddress
    /\ adjudicatorProposedAt = 0
    /\ validatorProfiles = [v \in Validators |-> NoProfile]
    /\ reports = {}
    /\ evidence = [e \in EvidenceIds |-> NoEvidence]
    /\ challenges = [c \in ChallengeIds |-> NoChallenge]
    /\ alreadyInvalidated = {}
    /\ testnetReputation = [a \in Accounts |-> 0]
    /\ adjudicationStarted = [r \in Registries |-> {}]

-----------------------------------------------------------------------------
(* Identities, modules, validator profiles                                  *)

OnlyOwner(caller) == caller = Owner

RegisterIdentity(caller, role) ==
    /\ identities[caller] = "Unknown"
    /\ identities' = [identities EXCEPT ![caller] = role]
    /\ UNCHANGED <<now, adjudicatorVars, validatorProfiles, intakeVars,
                   disputeVars, adjudicationStarted>>

SubmitModule(m) ==
    /\ m \notin modules
    /\ modules' = modules \cup {m}
    /\ UNCHANGED <<now, adjudicatorVars, peopleVars, reports, disputeVars,
                   adjudicationStarted>>

SetValidatorProfile(caller, v, group, allowed) ==
    /\ OnlyOwner(caller)
    /\ validatorProfiles' = [validatorProfiles EXCEPT ![v] =
            [exists |-> TRUE, allowed |-> allowed, group |-> group]]
    /\ UNCHANGED <<now, adjudicatorVars, identities, intakeVars, disputeVars,
                   adjudicationStarted>>

DeviatingIsQualified(a) ==   \* forgets the identity's role
    a \in Validators /\ validatorProfiles[a].exists /\ validatorProfiles[a].allowed

IsQualifiedValidator(a) ==
    /\ a \in Validators
    /\ validatorProfiles[a].exists
    /\ validatorProfiles[a].allowed
    /\ identities[a] = "Validator"

-----------------------------------------------------------------------------
(* The adjudicator: proposed, then confirmed after a delay                  *)

ProposeAdjudicator(caller, a) ==
    /\ OnlyOwner(caller)
    /\ pendingAdjudicator' = a
    /\ adjudicatorProposedAt' = now
    /\ UNCHANGED <<now, adjudicator, peopleVars, intakeVars, disputeVars,
                   adjudicationStarted>>

ConfirmAdjudicator(caller) ==
    /\ OnlyOwner(caller)
    /\ pendingAdjudicator # NoAddress
    /\ now >= adjudicatorProposedAt + AdjudicatorConfirmationDelay
    /\ adjudicator' = pendingAdjudicator
    /\ pendingAdjudicator' = NoAddress
    /\ adjudicatorProposedAt' = 0
    /\ UNCHANGED <<now, peopleVars, intakeVars, disputeVars, adjudicationStarted>>

-----------------------------------------------------------------------------
(* Evidence                                                                  *)

EvidenceId(m, b, a, t) == [module |-> m, bundle |-> b, reporter |-> a, type |-> t]

RecordEvidence(e, group, window) ==
    /\ e \in EvidenceIds
    /\ evidence[e].status = "Unknown"
    /\ evidence' = [evidence EXCEPT ![e] =
            [status |-> "Active", group |-> group, window |-> window]]

DeviatingSubmitReport(caller, m, b) ==   \* files no evidence
    /\ m \in modules
    /\ \A rep \in reports : rep.module # m
    /\ reports' = reports \cup {[module |-> m, bundle |-> b, reporter |-> caller]}
    /\ UNCHANGED <<now, adjudicatorVars, peopleVars, modules, disputeVars,
                   adjudicationStarted>>

SubmitReport(caller, m, b) ==
    /\ m \in modules
    /\ \A rep \in reports : rep.module # m
    /\ reports' = reports \cup {[module |-> m, bundle |-> b, reporter |-> caller]}
    /\ RecordEvidence(EvidenceId(m, b, caller, "LocalClientReport"), NoGroup, 0)
    /\ UNCHANGED <<now, adjudicatorVars, peopleVars, modules, challenges,
                   alreadyInvalidated, testnetReputation, adjudicationStarted>>

\* A validator report keeps its type, and takes the group the owner profiled,
\* only if its sender is qualified; otherwise it is filed as unqualified.
FiledType(caller, type) ==
    IF type = "ValidatorReport" /\ ~ IsQualifiedValidator(caller)
    THEN "UnqualifiedValidatorReport" ELSE type

FiledGroup(caller, type, group) ==
    IF type = "ValidatorReport" /\ IsQualifiedValidator(caller)
    THEN validatorProfiles[caller].group ELSE group

SubmitEvidence(caller, m, b, type, group, window) ==
    /\ m \in modules
    /\ type = "FoundationSeedReport" => caller = Owner
    /\ RecordEvidence(EvidenceId(m, b, caller, FiledType(caller, type)),
                      FiledGroup(caller, type, group), window)
    /\ UNCHANGED <<now, adjudicatorVars, peopleVars, intakeVars, challenges,
                   alreadyInvalidated, testnetReputation, adjudicationStarted>>

\* Idempotent, and without any effect on reputation.
InvalidateEvidence(caller, e) ==
    /\ OnlyOwner(caller)
    /\ evidence[e].status # "Unknown"
    /\ evidence' = [evidence EXCEPT ![e].status = "Invalidated"]
    /\ UNCHANGED <<now, adjudicatorVars, peopleVars, intakeVars, challenges,
                   alreadyInvalidated, testnetReputation, adjudicationStarted>>

-----------------------------------------------------------------------------
(* Challenges                                                                *)

ChallengeId(e, a, reason) == [evidence |-> e, challenger |-> a, reason |-> reason]

DeviatingWindowOpen(e) ==   \* one tick longer
    evidence[e].window = 0 \/ now <= evidence[e].window + 1

WindowOpen(e) == evidence[e].window = 0 \/ now <= evidence[e].window

SubmitChallenge(caller, e, reason) ==
    LET c == ChallengeId(e, caller, reason) IN
    /\ evidence[e].status = "Active"
    /\ WindowOpen(e)
    /\ c \in ChallengeIds
    /\ challenges[c].status = "Unknown"
    /\ challenges' = [challenges EXCEPT ![c] =
            [status |-> "Submitted", submittedAt |-> now, resolvedAt |-> 0]]
    /\ UNCHANGED <<now, adjudicatorVars, peopleVars, intakeVars, evidence,
                   alreadyInvalidated, testnetReputation, adjudicationStarted>>

\* What an upheld challenge of active evidence pays, and to whom.  Challenger
\* and reporter may be the same account.
DeviatingPenalise(c) ==   \* two writes of values read before either
    [testnetReputation EXCEPT ![c.evidence.reporter] = testnetReputation[c.evidence.reporter] - 10,
                              ![c.challenger] = testnetReputation[c.challenger] + 5]

Penalise(c) ==
    [a \in Accounts |-> testnetReputation[a]
        + (IF a = c.challenger THEN 5 ELSE 0)
        - (IF a = c.evidence.reporter THEN 10 ELSE 0)]

DeviatingUpholdActive(c) ==   \* leaves the evidence active
    /\ evidence[c.evidence].status = "Active"
    /\ testnetReputation' = Penalise(c)
    /\ UNCHANGED <<evidence, alreadyInvalidated>>

UpholdActive(c) ==
    /\ evidence[c.evidence].status = "Active"
    /\ evidence' = [evidence EXCEPT ![c.evidence].status = "Invalidated"]
    /\ testnetReputation' = Penalise(c)
    /\ UNCHANGED alreadyInvalidated

UpholdInvalidated(c) ==
    /\ evidence[c.evidence].status = "Invalidated"
    /\ alreadyInvalidated' = alreadyInvalidated \cup {c}
    /\ UNCHANGED <<evidence, testnetReputation>>

Reject(c) ==
    /\ testnetReputation' = [testnetReputation EXCEPT ![c.challenger] = @ - 2]
    /\ UNCHANGED <<evidence, alreadyInvalidated>>

DeviatingUnresolved(c) == challenges[c].status # "Unknown"   \* resolves twice

Unresolved(c) == challenges[c].status = "Submitted"

\* The private _resolveChallenge: only the first upheld challenge of a piece
\* of evidence moves reputation, the later ones are logged.
SettleChallenge(c, verdict) ==
    /\ Unresolved(c)
    /\ \/ verdict = "Upheld" /\ (UpholdActive(c) \/ UpholdInvalidated(c))
       \/ verdict = "Rejected" /\ Reject(c)
    /\ challenges' = [challenges EXCEPT ![c] =
            [@ EXCEPT !.status = verdict, !.resolvedAt = now]]
    /\ UNCHANGED <<now, adjudicatorVars, peopleVars, intakeVars>>

\* _adjudicationStarted returns FALSE: there is no adjudicator, or the current
\* one is a contract that answers FALSE.  An adjudicator without code answers
\* with no data, which reverts the caller instead of reaching the catch clause.
DeviatingNotStarted(c) ==   \* does not ask
    adjudicator = NoAddress \/ adjudicator \in Registries

NotStarted(c) ==
    \/ adjudicator = NoAddress
    \/ adjudicator \in Registries /\ c \notin adjudicationStarted[adjudicator]

ResolveChallenge(caller, c, verdict) ==
    /\ OnlyOwner(caller)
    /\ NotStarted(c)
    /\ SettleChallenge(c, verdict)
    /\ UNCHANGED adjudicationStarted

DeviatingResolve(caller, c, verdict) ==   \* returns where it should revert
    \/ caller = adjudicator /\ SettleChallenge(c, verdict)
    \/ caller # adjudicator /\ UNCHANGED <<now, adjudicatorVars, peopleVars,
                                           intakeVars, disputeVars>>

ResolveChallengeFromAdjudicator(caller, c, verdict) ==
    /\ caller = adjudicator
    /\ SettleChallenge(c, verdict)

-----------------------------------------------------------------------------
Tick ==
    /\ now < MaxTime
    /\ now' = now + 1
    /\ UNCHANGED <<adjudicatorVars, peopleVars, intakeVars, disputeVars,
                   adjudicationStarted>>

\* The transactions people send to the three contracts.
RegistryCall ==
    \/ \E v \in Validators, role \in Roles : RegisterIdentity(v, role)
    \/ \E m \in Modules : SubmitModule(m)
    \/ \E a \in Accounts, v \in Validators, g \in Groups, ok \in BOOLEAN :
            SetValidatorProfile(a, v, g, ok)
    \/ \E a \in Accounts, x \in Candidates : ProposeAdjudicator(a, x)
    \/ \E a \in Accounts : ConfirmAdjudicator(a)
    \/ \E a \in Accounts, m \in Modules, b \in Bundles : SubmitReport(a, m, b)
    \/ \E a \in Accounts, m \in Modules, b \in Bundles, t \in EvidenceTypes,
          g \in Groups, w \in Windows : SubmitEvidence(a, m, b, t, g, w)
    \/ \E a \in Accounts, e \in EvidenceIds : InvalidateEvidence(a, e)
    \/ \E a \in Accounts, e \in EvidenceIds, reason \in Reasons :
            SubmitChallenge(a, e, reason)
    \/ \E a \in Accounts, c \in ChallengeIds, v \in Verdicts :
            ResolveChallenge(a, c, v)
    \/ \E a \in Accounts, c \in ChallengeIds, v \in Verdicts :
            /\ ResolveChallengeFromAdjudicator(a, c, v)
            /\ UNCHANGED adjudicationStarted

\* What VerificationRegistry relies on in an adjudication contract: it reports
\* open challenges as started, never takes that back, and sends verdicts.
AdjudicationContract(r) ==
    \/ \E c \in ChallengeIds :
        /\ challenges[c].status = "Submitted"
        /\ adjudicationStarted' = [adjudicationStarted EXCEPT ![r] = @ \cup {c}]
        /\ UNCHANGED <<now, adjudicatorVars, peopleVars, intakeVars, disputeVars>>
    \/ \E c \in ChallengeIds, v \in Verdicts :
        /\ ResolveChallengeFromAdjudicator(r, c, v)
        /\ UNCHANGED adjudicationStarted

RegistryNext ==
    \/ RegistryCall
    \/ Tick
    \/ \E r \in Registries : AdjudicationContract(r)

RegistrySpec == RegistryInit /\ [][RegistryNext]_registryVars

-----------------------------------------------------------------------------
(* Properties *)

\* submitReport files the report and its evidence in one transaction: a stored
\* report is the only one of its module and is backed by local evidence of the
\* same reporter and bundle.
ReportBackedByEvidence ==
    \A rep \in reports :
        /\ rep.module \in modules
        /\ \A other \in reports : other.module = rep.module => other = rep
        /\ LET e == EvidenceId(rep.module, rep.bundle, rep.reporter, "LocalClientReport")
           IN  e \in EvidenceIds /\ evidence[e].status # "Unknown"

\* Nobody but a registered, profiled validator ever owns evidence of type
\* ValidatorReport, whatever type the sender of submitEvidence asked for and
\* in whatever order registration, profiling and submission came.
ValidatorReportsQualified ==
    \A e \in EvidenceIds :
        evidence[e].status # "Unknown" /\ e.type = "ValidatorReport"
            => /\ e.reporter \in Validators
               /\ identities[e.reporter] = "Validator"
               /\ validatorProfiles[e.reporter].exists

\* A validator report is filed under the group the owner profiled at that
\* moment, never under a group its sender chose (the group is what evidence
\* diversity is later judged by), and the group is never rewritten.
GroupsAreProfiled ==
    [][\A e \in EvidenceIds :
        e.type = "ValidatorReport" =>
            \/ evidence'[e].group = evidence[e].group
            \/ /\ evidence[e].status = "Unknown"
               /\ evidence'[e].group = validatorProfiles[e.reporter].group]_registryVars

\* The challenges whose resolution moved reputation.
Paid(c) == challenges[c].status = "Upheld" /\ c \notin alreadyInvalidated

\* One piece of evidence costs its reporter reputation at most once, however
\* many challenges of it are upheld and however they interleave with the
\* owner's own invalidation; and upheld evidence is never active.
PenalisedOnce ==
    \A c \in ChallengeIds :
        /\ challenges[c].status = "Upheld"
                => evidence[c.evidence].status = "Invalidated"
        /\ \A d \in ChallengeIds :
                Paid(c) /\ Paid(d) /\ c.evidence = d.evidence => c = d

\* Replaying the challenge statuses and the ChallengeResolvedOnAlreadyInvalidated
\* log gives back every account's testnetReputation.
ReputationMatchesLog ==
    \A a \in Accounts :
        testnetReputation[a] =
              5 * Cardinality({c \in ChallengeIds : Paid(c) /\ c.challenger = a})
            - 10 * Cardinality({c \in ChallengeIds : Paid(c) /\ c.evidence.reporter = a})
            - 2 * Cardinality({c \in ChallengeIds :
                        challenges[c].status = "Rejected" /\ c.challenger = a})

\* A challenge names evidence that exists, was filed inside the evidence's
\* window (0 is "no end"), and is resolved no earlier than it was filed.
ChallengedInWindow ==
    \A c \in ChallengeIds :
        challenges[c].status # "Unknown" =>
            /\ evidence[c.evidence].status # "Unknown"
            /\ \/ evidence[c.evidence].window = 0
               \/ challenges[c].submittedAt <= evidence[c.evidence].window
            /\ challenges[c].submittedAt \in 1 .. now
            /\ challenges[c].status \in Verdicts
                    => challenges[c].resolvedAt \in challenges[c].submittedAt .. now

\* A verdict is final and invalidated evidence stays invalidated, no matter who
\* the adjudicator is by then.
DisputesAreFinal ==
    [][/\ \A c \in ChallengeIds :
            challenges[c].status \in Verdicts => challenges'[c] = challenges[c]
       /\ \A e \in EvidenceIds :
            /\ evidence[e].status = "Invalidated" => evidence'[e] = evidence[e]
            /\ evidence[e].status = "Active" => evidence'[e].status # "Unknown"]_registryVars

=============================================================================

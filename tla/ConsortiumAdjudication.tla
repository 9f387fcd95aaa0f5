------------------------ MODULE ConsortiumAdjudication ------------------------
(***************************************************************************)
(* The ChainMaker port (contracts-go) of the registries a challenge passes *)
(* through: module, verification and adjudication.  The contracts do not   *)
(* call each other: each reads the others' records from the state under    *)
(* their keys, so the state is one set of records here.                    *)
(*                                                                         *)
(* A transaction that returns an error changes nothing (the platform drops *)
(* its writes), so an operation is an action whose conjuncts are its       *)
(* checks.  Callers are told apart by organization.  Ids are the tuples    *)
(* they hash, and a commitment is the verdict it binds its sender to, or   *)
(* "Nothing" when none of the sender's verdicts opens it.                  *)
(***************************************************************************)
EXTENDS Integers, FiniteSets

CONSTANTS
    Addresses, Foundation, Adjudicators,    \* everybody, and two organizations
    Voters, Responders,                     \* bounds: who sends commitments, responses
    Modules, Bundles, Groups, NoGroup, Windows,
    EvidenceIds, ChallengeIds,              \* bounds: what may be submitted
    MinQuorum, MaxQuorum, DefaultQuorum,
    QuorumInputs,                           \* arguments of set_quorum
    ResponsePeriod, CommitPeriod, RevealPeriod,
    Nobody,
    thePoll,                                \* the challenge whose poll is seen as a ballot
    MaxTime                                 \* bound on transaction times

EvidenceTypes == {"LocalClientReport", "UserSignedReceipt", "ValidatorReport",
                  "UnqualifiedValidatorReport", "FoundationSeedReport"}

Verdicts == {"Upheld", "Rejected"}

ASSUME ConsortiumAssumption ==
    /\ Foundation \subseteq Addresses /\ Adjudicators \subseteq Addresses
    /\ Voters \cup Responders \subseteq Addresses /\ Nobody \notin Addresses
    /\ EvidenceIds \subseteq [module : Modules, bundle : Bundles,
                              reporter : Addresses, type : EvidenceTypes]
    /\ \A c \in ChallengeIds : c.evidence \in EvidenceIds /\ c.challenger \in Addresses
    /\ MinQuorum \in Nat \ {0} /\ MaxQuorum \in Nat
    /\ DefaultQuorum \in MinQuorum .. MaxQuorum /\ QuorumInputs \subseteq Nat
    /\ ResponsePeriod \in Nat /\ CommitPeriod \in Nat /\ RevealPeriod \in Nat
    /\ Windows \subseteq Nat /\ NoGroup \notin Groups
    /\ IsFiniteSet(Voters) /\ MaxTime \in Nat /\ thePoll \in ChallengeIds

VARIABLES
    now,            \* the time of the transactions
    modules, profiles, reports, evidence, challenges,
    quorum,         \* a field of the running contract object
    polls, commitments, verdicts

registryVars == <<modules, profiles, reports, evidence, challenges>>
pollVars     == <<quorum, polls, commitments, verdicts>>
vars         == <<now, registryVars, pollVars>>

NoProfile    == [exists |-> FALSE, allowed |-> FALSE, group |-> NoGroup]
NoEvidence   == [status |-> "Unknown", group |-> NoGroup, window |-> 0]
NoChallenge  == [status |-> "Unknown", submittedAt |-> 0]
NoPoll       == [started |-> FALSE, respondent |-> Nobody, responseSubmittedAt |-> 0,
                 finalized |-> FALSE, expired |-> FALSE, outcome |-> "None",
                 effectiveVerdictCount |-> 0, expiredAt |-> 0]
NoCommitment == [binds |-> "None", committedAt |-> 0, revealed |-> FALSE]
NoVerdict    == [claim |-> "None", revealedAt |-> 0]

RegistryInit ==
    /\ now = 1
    /\ modules = {}
    /\ profiles = [a \in Addresses |-> NoProfile]
    /\ reports = {}
    /\ evidence = [e \in EvidenceIds |-> NoEvidence]
    /\ challenges = [c \in ChallengeIds |-> NoChallenge]

\* InitContract
PollInit ==
    /\ quorum = DefaultQuorum
    /\ polls = [c \in ChallengeIds |-> NoPoll]
    /\ commitments = [c \in ChallengeIds |-> [v \in Voters |-> NoCommitment]]
    /\ verdicts = [c \in ChallengeIds |-> [v \in Voters |-> NoVerdict]]

Init == RegistryInit /\ PollInit

-----------------------------------------------------------------------------
(* Modules and evidence *)

SubmitModule(m) ==
    /\ m \notin modules
    /\ modules' = modules \cup {m}
    /\ UNCHANGED <<now, profiles, reports, evidence, challenges, pollVars>>

SetValidatorProfile(caller, v, group, allowed) ==
    /\ caller \in Foundation
    /\ profiles' = [profiles EXCEPT ![v] =
            [exists |-> TRUE, allowed |-> allowed, group |-> group]]
    /\ UNCHANGED <<now, modules, reports, evidence, challenges, pollVars>>

\* There are no identities here: to be allowed is enough.
IsQualifiedValidator(a) == profiles[a].exists /\ profiles[a].allowed

EvidenceId(m, b, a, t) == [module |-> m, bundle |-> b, reporter |-> a, type |-> t]

RecordEvidence(e, group, window) ==
    /\ e \in EvidenceIds
    /\ evidence[e].status = "Unknown"
    /\ evidence' = [evidence EXCEPT ![e] =
            [status |-> "Active", group |-> group, window |-> window]]

DeviatingSubmitReport(caller, m, b) ==   \* the report stays when its evidence is refused
    /\ m \in modules
    /\ \A rep \in reports : rep.module # m
    /\ reports' = reports \cup {[module |-> m, bundle |-> b, reporter |-> caller]}
    /\ UNCHANGED <<now, modules, profiles, evidence, challenges, pollVars>>

\* Stores the report first; that it cannot stay without its evidence is the error
\* that recordEvidence returns and submitReport passes on.
SubmitReport(caller, m, b) ==
    /\ m \in modules
    /\ \A rep \in reports : rep.module # m
    /\ reports' = reports \cup {[module |-> m, bundle |-> b, reporter |-> caller]}
    /\ RecordEvidence(EvidenceId(m, b, caller, "LocalClientReport"), NoGroup, 0)
    /\ UNCHANGED <<now, modules, profiles, challenges, pollVars>>

Demoted(caller, type) == type = "ValidatorReport" /\ ~ IsQualifiedValidator(caller)

DeviatingFiled(caller, type, group, window) ==   \* keeps the type of an unqualified report
    [type |-> type,
     group |-> IF type = "ValidatorReport" THEN profiles[caller].group ELSE group,
     window |-> IF Demoted(caller, type) THEN 0 ELSE window]

\* What of a submission is stored.  A validator report of an unqualified sender
\* becomes an unqualified one that can be challenged for ever.
Filed(caller, type, group, window) ==
    IF Demoted(caller, type)
    THEN [type |-> "UnqualifiedValidatorReport", group |-> group, window |-> 0]
    ELSE [type |-> type,
          group |-> IF type = "ValidatorReport" THEN profiles[caller].group ELSE group,
          window |-> window]

\* Asks neither whether the module exists nor for a group.
SubmitEvidence(caller, m, b, type, group, window) ==
    /\ type = "FoundationSeedReport" => caller \in Foundation
    /\ LET filed == Filed(caller, type, group, window)
       IN  RecordEvidence(EvidenceId(m, b, caller, filed.type), filed.group, filed.window)
    /\ UNCHANGED <<now, modules, profiles, reports, challenges, pollVars>>

InvalidateEvidence(caller, e) ==
    /\ caller \in Foundation
    /\ evidence[e].status # "Unknown"
    /\ evidence' = [evidence EXCEPT ![e].status = "Invalidated"]
    /\ UNCHANGED <<now, modules, profiles, reports, challenges, pollVars>>

-----------------------------------------------------------------------------
(* Challenges *)

SubmitChallenge(caller, c) ==
    LET ev == evidence[c.evidence] IN
    /\ caller = c.challenger
    /\ ev.status = "Active"
    /\ ev.window = 0 \/ now <= ev.window
    /\ challenges[c].status = "Unknown"
    /\ challenges' = [challenges EXCEPT ![c] = [status |-> "Submitted", submittedAt |-> now]]
    /\ UNCHANGED <<now, modules, profiles, reports, evidence, pollVars>>

DeviatingUphold(c) ==   \* gives what was invalidated another chance
    evidence' = [evidence EXCEPT ![c.evidence].status =
                    IF @ = "Active" THEN "Invalidated" ELSE "Active"]

Uphold(c) == evidence' = [evidence EXCEPT ![c.evidence].status = "Invalidated"]

DeviatingSettle(c, verdict) ==   \* whatever the status is
    /\ challenges[c].status # "Unknown"
    /\ IF verdict = "Upheld" THEN Uphold(c) ELSE UNCHANGED evidence
    /\ challenges' = [challenges EXCEPT ![c].status = verdict]
    /\ UNCHANGED <<now, modules, profiles, reports, pollVars>>

\* resolveChallengeInternal: no reputation is moved
Settle(c, verdict) ==
    /\ challenges[c].status = "Submitted"
    /\ IF verdict = "Upheld" THEN Uphold(c) ELSE UNCHANGED evidence
    /\ challenges' = [challenges EXCEPT ![c].status = verdict]
    /\ UNCHANGED <<now, modules, profiles, reports, pollVars>>

ResolveChallenge(caller, c, verdict) ==
    /\ caller \in Foundation
    /\ ~ polls[c].started
    /\ Settle(c, verdict)

\* A transaction of its own: the poll is not looked at.
ResolveChallengeFromAdjudicator(caller, c, verdict) ==
    /\ caller \in Adjudicators
    /\ Settle(c, verdict)

-----------------------------------------------------------------------------
(* Polls.  Of a challenge that is not stored all deadlines are 0. *)

Deadlines(c) ==
    LET responseBy  == challenges[c].submittedAt + ResponsePeriod
        commitStart == IF polls[c].responseSubmittedAt # 0
                       THEN polls[c].responseSubmittedAt ELSE responseBy
        commitBy    == commitStart + CommitPeriod
    IN  IF challenges[c].status = "Unknown"
        THEN [responseBy |-> 0, commitBy |-> 0, revealBy |-> 0]
        ELSE [responseBy |-> responseBy, commitBy |-> commitBy,
              revealBy |-> commitBy + RevealPeriod]

IsOpen(c) == ~ polls[c].finalized /\ ~ polls[c].expired

CurrentPhase(c) ==
    LET by == Deadlines(c) IN
    IF ~ IsOpen(c) THEN "Closed"
    ELSE IF now <= by.responseBy /\ polls[c].responseSubmittedAt = 0 THEN "ResponseOpen"
    ELSE IF now <= by.commitBy THEN "CommitOpen"
    ELSE IF now <= by.revealBy THEN "RevealOpen"
    ELSE "Unknown"

EffectiveVerdictCount(c, claim) ==
    Cardinality({v \in Voters : verdicts[c][v].claim = claim})

SetQuorum(caller, q) ==
    /\ caller \in Foundation
    /\ q \in MinQuorum .. MaxQuorum
    /\ quorum' = q
    /\ UNCHANGED <<now, registryVars, polls, commitments, verdicts>>

DeviatingSubmitResponse(caller, c) ==   \* in any phase
    /\ IsOpen(c) /\ challenges[c].status # "Unknown"
    /\ polls' = [polls EXCEPT ![c] = [polls[c] EXCEPT
            !.started = TRUE, !.respondent = caller, !.responseSubmittedAt = now]]
    /\ UNCHANGED <<now, registryVars, quorum, commitments, verdicts>>

\* Anybody may respond, and the first response opens the commit phase.
SubmitResponse(caller, c) ==
    /\ CurrentPhase(c) = "ResponseOpen"
    /\ polls' = [polls EXCEPT ![c] = [polls[c] EXCEPT
            !.started = TRUE, !.respondent = caller, !.responseSubmittedAt = now]]
    /\ UNCHANGED <<now, registryVars, quorum, commitments, verdicts>>

\* Neither asks for a profile nor marks the poll as started.
CommitVerdict(v, c, binds) ==
    /\ CurrentPhase(c) = "CommitOpen"
    /\ commitments[c][v].binds = "None"
    /\ commitments' = [commitments EXCEPT ![c][v] =
            [binds |-> binds, committedAt |-> now, revealed |-> FALSE]]
    /\ UNCHANGED <<now, registryVars, quorum, polls, verdicts>>

DeviatingOpens(v, c, claim) ==   \* does not compare the hashes
    commitments[c][v].binds # "None" /\ ~ commitments[c][v].revealed

Opens(v, c, claim) == commitments[c][v].binds = claim /\ ~ commitments[c][v].revealed

DeviatingRevealVerdict(v, c, claim) ==   \* also when the poll is closed
    /\ now > Deadlines(c).commitBy /\ now <= Deadlines(c).revealBy
    /\ Opens(v, c, claim)
    /\ commitments' = [commitments EXCEPT ![c][v].revealed = TRUE]
    /\ verdicts' = [verdicts EXCEPT ![c][v] = [claim |-> claim, revealedAt |-> now]]
    /\ UNCHANGED <<now, registryVars, quorum, polls>>

RevealVerdict(v, c, claim) ==
    /\ CurrentPhase(c) = "RevealOpen"
    /\ Opens(v, c, claim)
    /\ commitments' = [commitments EXCEPT ![c][v].revealed = TRUE]
    /\ verdicts' = [verdicts EXCEPT ![c][v] = [claim |-> claim, revealedAt |-> now]]
    /\ UNCHANGED <<now, registryVars, quorum, polls>>

\* The result stays here: the registry is not told, nor asked whether the
\* challenge exists or is still to be settled.
FinalizeChallenge(c, claim) ==
    /\ IsOpen(c)
    /\ EffectiveVerdictCount(c, claim) >= quorum
    /\ polls' = [polls EXCEPT ![c] = [polls[c] EXCEPT !.finalized = TRUE, !.outcome = claim,
            !.effectiveVerdictCount = EffectiveVerdictCount(c, claim)]]
    /\ UNCHANGED <<now, registryVars, quorum, commitments, verdicts>>

DeviatingNoQuorum(c) ==   \* expects that nobody revealed
    \A claim \in Verdicts : EffectiveVerdictCount(c, claim) = 0

NoQuorum(c) == \A claim \in Verdicts : EffectiveVerdictCount(c, claim) < quorum

ExpireChallenge(c) ==
    /\ IsOpen(c)
    /\ now > Deadlines(c).revealBy
    /\ NoQuorum(c)
    /\ polls' = [polls EXCEPT ![c] = [polls[c] EXCEPT !.expired = TRUE, !.expiredAt = now]]
    /\ UNCHANGED <<now, registryVars, quorum, commitments, verdicts>>

\* Only InitContract sets the field: a contract object made for an upgrade, or
\* for a contract that is started again, has none, and the quorum that set_quorum
\* put into the state is not read.
UpgradeContract ==
    /\ quorum' = 0
    /\ UNCHANGED <<now, registryVars, polls, commitments, verdicts>>

-----------------------------------------------------------------------------
Tick ==
    /\ now < MaxTime
    /\ now' = now + 1
    /\ UNCHANGED <<registryVars, pollVars>>

RegistryCall ==
    \/ \E m \in Modules : SubmitModule(m)
    \/ \E a \in Addresses, v \in Voters, g \in Groups, allowed \in BOOLEAN :
            SetValidatorProfile(a, v, g, allowed)
    \/ \E a \in Addresses, m \in Modules, b \in Bundles : SubmitReport(a, m, b)
    \/ \E a \in Addresses, m \in Modules, b \in Bundles, t \in EvidenceTypes,
          g \in Groups \cup {NoGroup}, w \in Windows : SubmitEvidence(a, m, b, t, g, w)
    \/ \E a \in Addresses, e \in EvidenceIds : InvalidateEvidence(a, e)
    \/ \E a \in Addresses, c \in ChallengeIds : SubmitChallenge(a, c)
    \/ \E a \in Addresses, c \in ChallengeIds, claim \in Verdicts :
            \/ ResolveChallenge(a, c, claim)
            \/ ResolveChallengeFromAdjudicator(a, c, claim)

PollCall ==
    \/ \E a \in Addresses, q \in QuorumInputs : SetQuorum(a, q)
    \/ \E a \in Responders, c \in ChallengeIds : SubmitResponse(a, c)
    \/ \E v \in Voters, c \in ChallengeIds, b \in Verdicts \cup {"Nothing"} :
            CommitVerdict(v, c, b)
    \/ \E v \in Voters, c \in ChallengeIds, claim \in Verdicts : RevealVerdict(v, c, claim)
    \/ \E c \in ChallengeIds, claim \in Verdicts : FinalizeChallenge(c, claim)
    \/ \E c \in ChallengeIds : ExpireChallenge(c)
    \/ UpgradeContract

Next == RegistryCall \/ PollCall \/ Tick

Spec == Init /\ [][Next]_vars

\* Everybody may send the two closing transactions.
CloseAdjudication(c) ==
    (\E claim \in Verdicts : FinalizeChallenge(c, claim)) \/ ExpireChallenge(c)

\* Time goes on for a challenge that is there, and somebody tries to close its poll.
Passes(c) == WF_vars(challenges[c].status # "Unknown" /\ Tick)

ClosesInTime(c) == WF_vars(challenges[c].status # "Unknown" /\ CloseAdjudication(c))

Fairness == \A c \in ChallengeIds : Passes(c) /\ ClosesInTime(c)

\* What the closing transactions ask for.
Closable(c) ==
    /\ IsOpen(c)
    /\ \/ now > Deadlines(c).revealBy /\ NoQuorum(c)
       \/ \E claim \in Verdicts : EffectiveVerdictCount(c, claim) >= quorum

-----------------------------------------------------------------------------
(* Properties *)

Profile    == [exists : BOOLEAN, allowed : BOOLEAN, group : Groups \cup {NoGroup}]
Evidence   == [status : {"Unknown", "Active", "Invalidated"},
               group : Groups \cup {NoGroup}, window : Nat]
Challenge  == [status : {"Unknown", "Submitted"} \cup Verdicts, submittedAt : Nat]
Poll       == [started : BOOLEAN, respondent : Addresses \cup {Nobody},
               responseSubmittedAt : Nat, finalized : BOOLEAN, expired : BOOLEAN,
               outcome : Verdicts \cup {"None"}, effectiveVerdictCount : Nat,
               expiredAt : Nat]
Commitment == [binds : Verdicts \cup {"None", "Nothing"}, committedAt : Nat,
               revealed : BOOLEAN]
Verdict    == [claim : Verdicts \cup {"None"}, revealedAt : Nat]

\* Every variable has the shape of the records it models, and a quorum is legal or
\* that of an upgraded contract.
TypeOK ==
    /\ now \in Nat \ {0} /\ modules \subseteq Modules
    /\ profiles \in [Addresses -> Profile]
    /\ reports \subseteq [module : Modules, bundle : Bundles, reporter : Addresses]
    /\ evidence \in [EvidenceIds -> Evidence]
    /\ challenges \in [ChallengeIds -> Challenge]
    /\ quorum \in {0} \cup (MinQuorum .. MaxQuorum)
    /\ polls \in [ChallengeIds -> Poll]
    /\ commitments \in [ChallengeIds -> [Voters -> Commitment]]
    /\ verdicts \in [ChallengeIds -> [Voters -> Verdict]]

\* A report is stored with its evidence or not at all, although it is written
\* first and the evidence may have been filed before it.
ReportBackedByEvidence ==
    \A rep \in reports :
        LET e == EvidenceId(rep.module, rep.bundle, rep.reporter, "LocalClientReport")
        IN  e \in EvidenceIds /\ evidence[e].status # "Unknown"

\* A validator report carries a group the foundation gave its sender: whatever
\* order profiling, delisting and filing come in, only a sender that has been
\* profiled owns one.
ValidatorReportsProfiled ==
    \A e \in EvidenceIds :
        e.type = "ValidatorReport" /\ evidence[e].status # "Unknown"
            => profiles[e.reporter].exists /\ evidence[e].group # NoGroup

\* Whoever settled it and whenever, an upheld challenge has taken its evidence
\* down, although the evidence may have been invalidated before.
UpheldEvidenceFalls ==
    \A c \in ChallengeIds :
        challenges[c].status = "Upheld" => evidence[c.evidence].status = "Invalidated"

\* The records of the registry agree with each other, in whatever order they were
\* written: reports with evidence, evidence with profiles and with challenges.
RecordsAgree == ReportBackedByEvidence /\ ValidatorReportsProfiled /\ UpheldEvidenceFalls

\* A settled challenge keeps its verdict, though the foundation, the adjudicators
\* and the poll each have a say of their own.
DisputesAreFinal ==
    [][\A c \in ChallengeIds :
            challenges[c].status \in Verdicts => UNCHANGED challenges[c]]_vars

\* No commitment of a poll is as late as a reveal of it, whoever responded and
\* whatever was settled or upgraded meanwhile.
Blinded ==
    \A c \in ChallengeIds : \A v, w \in Voters :
        commitments[c][v].binds # "None" /\ verdicts[c][w].claim # "None"
            => commitments[c][v].committedAt < verdicts[c][w].revealedAt

\* The count written down with a result is the one the verdicts show ever after:
\* finalizing before the reveal phase is over ends it for everybody.
CountStands ==
    \A c \in ChallengeIds :
        polls[c].finalized =>
            /\ polls[c].effectiveVerdictCount = EffectiveVerdictCount(c, polls[c].outcome)
            /\ ~ polls[c].expired

SealedView == [v \in Voters |-> commitments[thePoll][v].binds]

OpenedView == {v \in Voters : verdicts[thePoll][v].claim # "None"}

ResultView == IF polls[thePoll].finalized THEN polls[thePoll].outcome
              ELSE IF polls[thePoll].expired THEN "Lapsed" ELSE "Pending"

Ballot == INSTANCE SealedBallot WITH
    Electorate <- Voters, Choices <- Verdicts, Nothing <- "Nothing", None <- "None",
    Lapsed <- "Lapsed", Pending <- "Pending", Threshold <- 0,
    sealed <- SealedView, opened <- OpenedView, result <- ResultView

\* A poll of the port is a sealed ballot as far as sealing, opening and ending once
\* go, whatever order responses, upgrades and closing transactions come in; the
\* threshold is 0 because an upgraded contract has no quorum.
PollIsSealedBallot == Ballot!Spec

\* No poll hangs: after its deadlines it is finalized or expires, although the votes
\* split, quorums change and the contract is upgraded.
PollsClose ==
    \A c \in ChallengeIds :
        challenges[c].status = "Submitted" ~> ~ IsOpen(c)

\* Nothing blocks the end: the open poll of a stored challenge whose deadlines have
\* passed can be finalized or expires, with any votes and any quorum.
OverdueIsClosable ==
    \A c \in ChallengeIds :
        /\ challenges[c].status # "Unknown" /\ IsOpen(c)
        /\ now > Deadlines(c).revealBy
        => Closable(c)

\* Closable is all that the closing transactions ask for: whenever it holds for a
\* stored challenge one of them can be sent.
ClosableIsSendable(c) ==
    challenges[c].status # "Unknown" /\ Closable(c) =>
        ENABLED <<challenges[c].status # "Unknown" /\ CloseAdjudication(c)>>_vars

ClosableIsEnabled == \A c \in ChallengeIds : ClosableIsSendable(c)

-----------------------------------------------------------------------------
(* What the comments of the port say *)

\* "finalizeChallenge finalizes adjudication when quorum is met", and a quorum is
\* at least MinQuorum.
FinalizedWithQuorum ==
    \A c \in ChallengeIds : polls[c].finalized => polls[c].effectiveVerdictCount >= MinQuorum

=============================================================================

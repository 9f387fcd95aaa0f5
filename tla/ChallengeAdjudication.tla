------------------------ MODULE ChallengeAdjudication ------------------------
(***************************************************************************)
(* ChallengeAdjudicationRegistry (contracts/src) composed with the         *)
(* VerificationRegistry whose challenges it decides.                       *)
(*                                                                         *)
(* Validators commit to the hash of a verdict, reveal it after the commit  *)
(* deadline, and a quorum of equal verdicts finalizes the challenge: the   *)
(* same transaction closes the adjudication here and settles the challenge *)
(* there.  Several adjudication contracts may be deployed; the registry    *)
(* obeys the one its owner has confirmed.                                  *)
(*                                                                         *)
(* Abstractions.  A commitment hash is what it binds its validator to: a   *)
(* verdict, or "Nothing" when no verdict of that validator on that         *)
(* challenge opens it (another validator's hash, or any other 32 bytes).   *)
(* Verdict, method, salt and report hashes are left out.                   *)
(***************************************************************************)
EXTENDS VerificationRegistry

CONSTANTS
    MinQuorum, MaxQuorum, DefaultQuorum,
    QuorumInputs,                           \* arguments of setQuorum
    ResponsePeriod, CommitPeriod, RevealPeriod

ASSUME QuorumAssumption ==
    /\ MinQuorum \in Nat \ {0}
    /\ MaxQuorum \in Nat
    /\ DefaultQuorum \in MinQuorum .. MaxQuorum
    /\ QuorumInputs \subseteq Nat

ASSUME PeriodAssumption ==
    /\ ResponsePeriod \in Nat \ {0}
    /\ CommitPeriod \in Nat \ {0}
    /\ RevealPeriod \in Nat \ {0}

VARIABLES
    quorum,          \* [Registries -> Nat]
    adjudications,   \* _adjudications, by registry and challenge
    commitments,     \* _commitments, by registry, challenge and validator
    verdicts         \* _verdicts, likewise

pollVars == <<quorum, adjudications, commitments, verdicts>>

vars == <<registryVars, pollVars>>

Bindings == Verdicts \cup {"Nothing"}

NoDeadlines    == [responseBy |-> 0, commitBy |-> 0, revealBy |-> 0]
NoCommitment   == [binds |-> "None", committedAt |-> 0, revealed |-> FALSE]
NoVerdict      == [claim |-> "None", group |-> NoGroup, revealedAt |-> 0]
NoAdjudication ==
    [responseSubmittedAt |-> 0, responseCount |-> 0, commitmentCount |-> 0,
     revealCount |-> 0, finalized |-> FALSE, expired |-> FALSE,
     outcome |-> "None", effectiveVerdictCount |-> 0, finalizedAt |-> 0,
     expiredAt |-> 0, announced |-> NoDeadlines]

Deadlines    == [responseBy : Nat, commitBy : Nat, revealBy : Nat]
Commitment   == [binds : Bindings \cup {"None"}, committedAt : Nat, revealed : BOOLEAN]
Verdict      == [claim : Verdicts \cup {"None"}, group : Groups \cup {NoGroup},
                 revealedAt : Nat]
Adjudication ==
    [responseSubmittedAt : Nat, responseCount : Nat, commitmentCount : Nat,
     revealCount : Nat, finalized : BOOLEAN, expired : BOOLEAN,
     outcome : Verdicts \cup {"None"}, effectiveVerdictCount : Nat,
     finalizedAt : Nat, expiredAt : Nat, announced : Deadlines]

\* Every variable has the shape of the storage slot it models, and the quorum
\* stays in its legal range.
TypeOK ==
    /\ RegistryTypeOK
    /\ quorum \in [Registries -> MinQuorum .. MaxQuorum]
    /\ adjudications \in [Registries -> [ChallengeIds -> Adjudication]]
    /\ commitments \in [Registries -> [ChallengeIds -> [Validators -> Commitment]]]
    /\ verdicts \in [Registries -> [ChallengeIds -> [Validators -> Verdict]]]

PollInit ==
    /\ quorum = [r \in Registries |-> DefaultQuorum]
    /\ adjudications = [r \in Registries |-> [c \in ChallengeIds |-> NoAdjudication]]
    /\ commitments = [r \in Registries |->
            [c \in ChallengeIds |-> [v \in Validators |-> NoCommitment]]]
    /\ verdicts = [r \in Registries |->
            [c \in ChallengeIds |-> [v \in Validators |-> NoVerdict]]]

Init == RegistryInit /\ PollInit

-----------------------------------------------------------------------------
(* Deadlines and phases.  Both are recomputed from the stored times whenever *)
(* they are asked for.                                                       *)

AdjudicationDeadlines(r, c) ==
    LET responseBy  == challenges[c].submittedAt + ResponsePeriod
        commitStart == IF adjudications[r][c].responseSubmittedAt # 0
                       THEN adjudications[r][c].responseSubmittedAt
                       ELSE responseBy
        commitBy    == commitStart + CommitPeriod
    IN  [responseBy |-> responseBy, commitBy |-> commitBy,
         revealBy |-> commitBy + RevealPeriod]

IsOpen(r, c) == ~ adjudications[r][c].finalized /\ ~ adjudications[r][c].expired

ResponseOpen(r, c) ==
    /\ now <= AdjudicationDeadlines(r, c).responseBy
    /\ adjudications[r][c].responseSubmittedAt = 0

DeviatingCommitOpen(r, c) ==   \* until the reveal deadline
    ~ ResponseOpen(r, c) /\ now <= AdjudicationDeadlines(r, c).revealBy

CommitOpen(r, c) ==
    /\ ~ ResponseOpen(r, c)
    /\ now <= AdjudicationDeadlines(r, c).commitBy

DeviatingRevealOpen(r, c) ==   \* for ever
    ~ ResponseOpen(r, c) /\ now > AdjudicationDeadlines(r, c).commitBy

RevealOpen(r, c) ==
    /\ ~ ResponseOpen(r, c)
    /\ now > AdjudicationDeadlines(r, c).commitBy
    /\ now <= AdjudicationDeadlines(r, c).revealBy

\* _requireSubmittedChallenge and _requireOpen
DeviatingAdjudicable(r, c) == challenges[c].status = "Submitted"   \* though closed

DeviatingStatusCheck(r, c) == IsOpen(r, c)   \* the poll alone is looked at

Adjudicable(r, c) == challenges[c].status = "Submitted" /\ IsOpen(r, c)

\* _qualifiedValidatorProfile, called when a verdict is committed and again when
\* it is revealed
MayVote(v) == IsQualifiedValidator(v) /\ validatorProfiles[v].group # NoGroup

Voters(r, c, claim) == {v \in Validators : verdicts[r][c][v].claim = claim}

DeviatingVerdictCount(r, c, claim) ==   \* counts what is not yet revealed
    Cardinality({v \in Validators : commitments[r][c][v].binds = claim})

EffectiveVerdictCount(r, c, claim) == Cardinality(Voters(r, c, claim))

-----------------------------------------------------------------------------
(* Transactions                                                              *)

DeviatingLegalQuorum(q) == q <= MaxQuorum   \* no lower bound

LegalQuorum(q) == q \in MinQuorum .. MaxQuorum

SetQuorum(caller, r, q) ==
    /\ OnlyOwner(caller)
    /\ LegalQuorum(q)
    /\ quorum' = [quorum EXCEPT ![r] = q]
    /\ UNCHANGED <<registryVars, adjudications, commitments, verdicts>>

SetAdjudication(r, c, adj) ==
    adjudications' = [adjudications EXCEPT ![r][c] = adj]

Start(r, c) ==
    adjudicationStarted' = [adjudicationStarted EXCEPT ![r] = @ \cup {c}]

DeviatingSubmitResponse(caller, r, c) ==   \* in any phase
    /\ Adjudicable(r, c)
    /\ caller = c.evidence.reporter
    /\ Start(r, c)
    /\ SetAdjudication(r, c, [adjudications[r][c] EXCEPT
            !.responseSubmittedAt = now, !.responseCount = @ + 1])
    /\ UNCHANGED <<now, adjudicatorVars, peopleVars, intakeVars, disputeVars,
                   quorum, commitments, verdicts>>

\* The first response ends the response phase, so there is never a second one.
SubmitResponse(caller, r, c) ==
    /\ Adjudicable(r, c)
    /\ ResponseOpen(r, c)
    /\ caller = c.evidence.reporter
    /\ Start(r, c)
    /\ SetAdjudication(r, c, [adjudications[r][c] EXCEPT
            !.responseSubmittedAt = now, !.responseCount = @ + 1])
    /\ UNCHANGED <<now, adjudicatorVars, peopleVars, intakeVars, disputeVars,
                   quorum, commitments, verdicts>>

\* _emitPhaseStarted: the first commitment announces the deadlines
Announcement(r, c) ==
    IF adjudications[r][c].announced = NoDeadlines
    THEN AdjudicationDeadlines(r, c) ELSE adjudications[r][c].announced

CommitVerdict(v, r, c, binds) ==
    /\ Adjudicable(r, c)
    /\ CommitOpen(r, c)
    /\ MayVote(v)
    /\ commitments[r][c][v].binds = "None"
    /\ Start(r, c)
    /\ commitments' = [commitments EXCEPT ![r][c][v] =
            [binds |-> binds, committedAt |-> now, revealed |-> FALSE]]
    /\ SetAdjudication(r, c, [adjudications[r][c] EXCEPT
            !.commitmentCount = @ + 1, !.announced = Announcement(r, c)])
    /\ UNCHANGED <<now, adjudicatorVars, peopleVars, intakeVars, disputeVars,
                   quorum, verdicts>>

DeviatingOpens(v, r, c, claim) ==   \* any verdict opens any commitment
    commitments[r][c][v].binds # "None" /\ ~ commitments[r][c][v].revealed

\* _markCommitmentRevealed: the validator's own hash, opened for the first time
Opens(v, r, c, claim) ==
    commitments[r][c][v].binds = claim /\ ~ commitments[r][c][v].revealed

\* _recordVerdict: with the group the validator is profiled with now
VerdictRecord(v, claim) ==
    [claim |-> claim, group |-> validatorProfiles[v].group, revealedAt |-> now]

\* The validator must still be qualified.
RevealVerdict(v, r, c, claim) ==
    /\ Adjudicable(r, c)
    /\ RevealOpen(r, c)
    /\ Opens(v, r, c, claim)
    /\ MayVote(v)
    /\ commitments' = [commitments EXCEPT ![r][c][v].revealed = TRUE]
    /\ verdicts' = [verdicts EXCEPT ![r][c][v] = VerdictRecord(v, claim)]
    /\ SetAdjudication(r, c, [adjudications[r][c] EXCEPT !.revealCount = @ + 1])
    /\ UNCHANGED <<registryVars, quorum>>

\* There is no phase check: a quorum may finalize while others still reveal,
\* and when both sides have one the caller picks.  If the registry obeys
\* another adjudicator the call to it reverts, and with it everything here.
FinalizeChallenge(r, c, claim) ==
    /\ Adjudicable(r, c)
    /\ EffectiveVerdictCount(r, c, claim) >= quorum[r]
    /\ SetAdjudication(r, c, [adjudications[r][c] EXCEPT
            !.finalized = TRUE, !.outcome = claim, !.finalizedAt = now,
            !.effectiveVerdictCount = EffectiveVerdictCount(r, c, claim)])
    /\ ResolveChallengeFromAdjudicator(r, c, claim)
    /\ UNCHANGED <<adjudicationStarted, quorum, commitments, verdicts>>

DeviatingNoQuorum(r, c) ==   \* expects that nobody revealed
    \A claim \in Verdicts : EffectiveVerdictCount(r, c, claim) = 0

NoQuorum(r, c) ==
    \A claim \in Verdicts : EffectiveVerdictCount(r, c, claim) < quorum[r]

\* Leaves the challenge itself as it is.
ExpireChallengeNoQuorum(r, c) ==
    /\ Adjudicable(r, c)
    /\ now > AdjudicationDeadlines(r, c).revealBy
    /\ NoQuorum(r, c)
    /\ SetAdjudication(r, c, [adjudications[r][c] EXCEPT
            !.expired = TRUE, !.expiredAt = now])
    /\ UNCHANGED <<registryVars, quorum, commitments, verdicts>>

PollCall(r) ==
    \/ \E a \in Accounts, q \in QuorumInputs : SetQuorum(a, r, q)
    \/ \E a \in Accounts, c \in ChallengeIds : SubmitResponse(a, r, c)
    \/ \E v \in Validators, c \in ChallengeIds, b \in Bindings :
            CommitVerdict(v, r, c, b)
    \/ \E v \in Validators, c \in ChallengeIds, claim \in Verdicts :
            RevealVerdict(v, r, c, claim)
    \/ \E c \in ChallengeIds, claim \in Verdicts : FinalizeChallenge(r, c, claim)
    \/ \E c \in ChallengeIds : ExpireChallengeNoQuorum(r, c)

RegistryStep == (RegistryCall \/ Tick) /\ UNCHANGED pollVars

Next == RegistryStep \/ \E r \in Registries : PollCall(r)

Spec == Init /\ [][Next]_vars

\* Both closing transactions are open to everyone, so that somebody interested
\* sends one that stays possible; nothing is assumed of owner, reporter and
\* validators.
CloseAdjudication(r, c) ==
    \/ \E claim \in Verdicts : FinalizeChallenge(r, c, claim)
    \/ ExpireChallengeNoQuorum(r, c)

ClosesInTime(r, c) == WF_vars(CloseAdjudication(r, c))

Closers == \A r \in Registries, c \in ChallengeIds : ClosesInTime(r, c)

Fairness == WF_vars(Tick /\ UNCHANGED pollVars) /\ Closers

\* What the closing transactions ask for, in both contracts.
Finalizable(r, c, claim) ==
    /\ Adjudicable(r, c) /\ EffectiveVerdictCount(r, c, claim) >= quorum[r]
    /\ r = adjudicator /\ Unresolved(c)
    /\ claim = "Upheld" => evidence[c.evidence].status # "Unknown"

Expirable(r, c) ==
    Adjudicable(r, c) /\ now > AdjudicationDeadlines(r, c).revealBy /\ NoQuorum(r, c)

Closable(r, c) == Expirable(r, c) \/ \E claim \in Verdicts : Finalizable(r, c, claim)

-----------------------------------------------------------------------------
(* Properties *)

Committed(r, c, v) == commitments[r][c][v].binds # "None"
Revealed(r, c, v)  == verdicts[r][c][v].claim # "None"

\* No validator can commit with a verdict of the same poll in sight: every
\* commitment of a poll is older than every reveal of it, whatever response
\* moved the deadlines and however profiles changed meanwhile.
Blinded ==
    \A r \in Registries, c \in ChallengeIds : \A v, w \in Validators :
        Committed(r, c, v) /\ Revealed(r, c, w)
            => commitments[r][c][v].committedAt < verdicts[r][c][w].revealedAt

\* A revealed verdict is the one its validator committed to, inside both
\* windows, and the commitment counts as opened exactly when it exists.
VerdictsAreCommitted ==
    \A r \in Registries, c \in ChallengeIds, v \in Validators :
        /\ commitments[r][c][v].revealed <=> Revealed(r, c, v)
        /\ Committed(r, c, v) =>
                /\ challenges[c].submittedAt <= commitments[r][c][v].committedAt
                /\ commitments[r][c][v].committedAt <= AdjudicationDeadlines(r, c).commitBy
                /\ identities[v] = "Validator"
        /\ Revealed(r, c, v) =>
                /\ verdicts[r][c][v].claim = commitments[r][c][v].binds
                /\ verdicts[r][c][v].revealedAt > AdjudicationDeadlines(r, c).commitBy
                /\ verdicts[r][c][v].revealedAt <= AdjudicationDeadlines(r, c).revealBy

\* The deadlines announced with the first commitment hold until the end: no
\* later response or commitment moves them.
AnnouncedDeadlinesHold ==
    \A r \in Registries, c \in ChallengeIds :
        /\ (\E v \in Validators : Committed(r, c, v))
                => adjudications[r][c].announced # NoDeadlines
        /\ adjudications[r][c].announced # NoDeadlines
                => adjudications[r][c].announced = AdjudicationDeadlines(r, c)

\* An adjudication that says "finalized" and the registry agree on the verdict
\* and the time; it is not also expired, and no second contract finalized it.
FinalizedAgrees ==
    \A r \in Registries, c \in ChallengeIds :
        adjudications[r][c].finalized =>
            /\ challenges[c].status = adjudications[r][c].outcome
            /\ challenges[c].resolvedAt = adjudications[r][c].finalizedAt
            /\ ~ adjudications[r][c].expired
            /\ \A q \in Registries : adjudications[q][c].finalized => q = r

\* The verdict of a finalized challenge was revealed by at least MinQuorum
\* validators, and the count written down is the one its verdicts still show,
\* although finalizing checks no phase and others may hold unopened commitments.
QuorumBacked ==
    \A r \in Registries, c \in ChallengeIds :
        adjudications[r][c].finalized =>
            /\ adjudications[r][c].effectiveVerdictCount >= MinQuorum
            /\ adjudications[r][c].effectiveVerdictCount =
                    Cardinality(Voters(r, c, adjudications[r][c].outcome))

\* Settled by a step that finalizes it in the adjudicator, with its quorum.
SettledByVote(c) ==
    LET before == adjudications[adjudicator][c]
        after  == adjudications'[adjudicator][c]
    IN  /\ ~ before.finalized /\ ~ before.expired
        /\ after.finalized /\ after.outcome = challenges'[c].status
        /\ after.effectiveVerdictCount >= quorum[adjudicator]

Settled(c) == challenges[c].status = "Submitted" /\ challenges'[c].status # "Submitted"

StartedByAdjudicator(c) ==
    adjudicator \in Registries /\ c \in adjudicationStarted[adjudicator]

\* Once the current adjudicator has started on a challenge, only a vote there
\* settles it: not the owner, and not after the adjudication expired.
StartedSettledByVote ==
    [][\A c \in ChallengeIds :
            Settled(c) /\ StartedByAdjudicator(c) => SettledByVote(c)]_vars

\* What VerificationRegistry relies on in its adjudicator, the adjudication contracts
\* do: whatever the vote, they start only open challenges, never take a start back
\* and settle a challenge only through the call the registry guards.  So all that
\* is true of the registry among such contracts is true of it among these.
RegistryReliesRightly == [][RegistryNext]_registryVars

\* A poll that was closed, either way, never changes again.
ClosedForGood ==
    [][\A r \in Registries, c \in ChallengeIds :
        ~ IsOpen(r, c) =>
            UNCHANGED <<adjudications[r][c], commitments[r][c], verdicts[r][c]>>]_vars

\* What the README says of the owner's direct resolution, "blocked once v2
\* adjudication starts": a challenge that any adjudication contract has started
\* on is settled by a contract's finalization only.
LegacyBlockedOnceStarted ==
    [][\A c \in ChallengeIds :
            Settled(c) /\ (\E r \in Registries : c \in adjudicationStarted[r])
            => \E r \in Registries : /\ ~ adjudications[r][c].finalized
                                     /\ adjudications'[r][c].finalized]_vars

\* No challenge hangs: once the deadlines have passed a challenge of the confirmed
\* adjudicator ends, by a verdict or by expiry, even when validators commit and
\* never reveal, the votes split or the quorum is changed while they are counted.
ChallengesClose ==
    \A r \in Registries, c \in ChallengeIds :
        (challenges[c].status = "Submitted" /\ adjudicator = r)
            ~> \/ challenges[c].status \in Verdicts
               \/ adjudications[r][c].expired
               \/ adjudicator # r

\* Nothing blocks the end: a challenge of the confirmed adjudicator whose deadlines
\* have passed can be closed at once, in both contracts, unless it has expired.
OverdueIsClosable ==
    \A r \in Registries, c \in ChallengeIds :
        /\ challenges[c].status = "Submitted" /\ adjudicator = r
        /\ now > AdjudicationDeadlines(r, c).revealBy
        => adjudications[r][c].expired \/ Closable(r, c)

\* Closable is all that the closing transactions ask for: whenever it holds one of
\* them can be sent.
ClosableIsSendable(r, c) == Closable(r, c) => ENABLED <<CloseAdjudication(r, c)>>_vars

ClosableIsEnabled == \A r \in Registries, c \in ChallengeIds : ClosableIsSendable(r, c)

=============================================================================

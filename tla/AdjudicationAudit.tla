------------------------- MODULE AdjudicationAudit -------------------------
(***************************************************************************)
(* Adjudication reports, from the draft a curator makes while a poll is    *)
(* under way, through the transaction that ends the poll with it, to the   *)
(* audit that links it with the events of the contract.  Verdicts go on    *)
(* arriving, and the quorum goes on changing, after a draft was made.      *)
(***************************************************************************)
EXTENDS Integers, FiniteSets, Sequences, Functions, FiniteSetsExt

CONSTANTS Validators,
          VerdictHashes,
          ReportHashes,  \* hashes of the final or expiration report texts
          Quorums,       \* quorums the owner may set
          MaxDrafts      \* bound on the drafts of one poll

\* setQuorum takes no quorum below MIN_QUORUM.
ASSUME QuorumsAssumption == \A q \in Quorums : q \in Nat /\ q >= 2

VARIABLES stage, responded, committed, verdicts, quorum, result, \* the poll
          pollLog, \* the events of the poll, in the order of their blocks
          drafts,  \* reports that curators have created
          bonded   \* whether the audit is given a challenge bond artifact

auditVars == <<stage, responded, committed, verdicts, quorum, result, pollLog, drafts, bonded>>

-----------------------------------------------------------------------------
(* The contract, as the reports and the audit see it. *)

NoResult == [phase |-> "none", upheld |-> FALSE, text |-> "none", count |-> 0, quorum |-> 0]

Open == result = NoResult

Revealed == DOMAIN verdicts

EffectiveCount(upheld) == Cardinality({v \in Revealed : verdicts[v].upheld = upheld})

\* A response shortens the windows after it; the first commitment announces them.
Deadlines == IF responded THEN "after response" ELSE "after response window"

AuditInit ==
  /\ stage = "response"
  /\ responded = FALSE
  /\ committed = {}
  /\ verdicts = <<>>
  /\ quorum \in Quorums
  /\ result = NoResult
  /\ pollLog = <<>>
  /\ drafts = {}
  /\ bonded \in BOOLEAN

Respond ==
  /\ Open /\ stage = "response"
  /\ responded' = TRUE
  /\ stage' = "commit"
  /\ pollLog' = Append(pollLog, [name |-> "ChallengeResponseSubmitted"])
  /\ UNCHANGED <<committed, verdicts, quorum, result, drafts, bonded>>

Commit(v) ==
  /\ Open /\ stage = "commit" /\ v \notin committed
  /\ committed' = committed \cup {v}
  /\ pollLog' = pollLog
       \o (IF committed = {}
             THEN <<[name |-> "AdjudicationPhaseStarted", deadlines |-> Deadlines]>>
             ELSE <<>>)
       \o <<[name |-> "ValidatorVerdictCommitted", commitment |-> v]>>
  /\ UNCHANGED <<stage, responded, verdicts, quorum, result, drafts, bonded>>

Reveal(v, upheld, hash) ==
  /\ Open /\ stage = "reveal" /\ v \in committed \ Revealed
  /\ verdicts' = [w \in Revealed \cup {v} |->
                    IF w = v THEN [upheld |-> upheld, hash |-> hash] ELSE verdicts[w]]
  /\ pollLog' = Append(pollLog, [name |-> "ValidatorVerdictRevealed", verdict |-> hash])
  /\ UNCHANGED <<stage, responded, committed, quorum, result, drafts, bonded>>

SetQuorum(q) ==
  /\ quorum' = q
  /\ UNCHANGED <<stage, responded, committed, verdicts, result, pollLog, drafts, bonded>>

Tick ==
  /\ stage # "late"
  /\ stage' = CASE stage = "response" -> "commit"
                [] stage = "commit" -> "reveal"
                [] stage = "reveal" -> "late"
  /\ UNCHANGED <<responded, committed, verdicts, quorum, result, pollLog, drafts, bonded>>

-----------------------------------------------------------------------------
(* Reports. *)

\* A report of a poll, of either schema version.  A commitment hash binds its
\* validator, so it is the validator; verdict hashes may coincide.
NewReport(version, phase, upheld, text, q, count, listed) ==
  [version |-> version, phase |-> phase, upheld |-> upheld, text |-> text,
   quorum |-> q, count |-> count, responses |-> responded, commitments |-> committed,
   verdicts |-> listed, deadlines |-> Deadlines]

\* The hash arrays of a report hold no value twice.
NoDuplicates(listed) == IsInjective(listed)

EnoughVerdicts(r) == r.phase = "finalized" => r.count >= r.quorum

ValidReport(r) == /\ r.quorum >= 2
                  /\ NoDuplicates(r.verdicts)
                  /\ EnoughVerdicts(r)

\* create-adjudication-report fails when the report is not valid.
Draft(r) ==
  /\ Cardinality(drafts) < MaxDrafts
  /\ ValidReport(r)
  /\ drafts' = drafts \cup {r}
  /\ UNCHANGED <<stage, responded, committed, verdicts, quorum, result, pollLog, bonded>>

\* A curator reports what the contract shows at that moment.
VerdictHashesSeen == [v \in Revealed |-> verdicts[v].hash]

DraftFinal(version, upheld, text) ==
  Draft(NewReport(version, "finalized", upheld, text, quorum, EffectiveCount(upheld),
                  IF version = 1 THEN <<>> ELSE VerdictHashesSeen))

DraftExpired(text) ==
  Draft(NewReport(2, "expired_no_quorum", FALSE, text, quorum,
                  EffectiveCount(TRUE), VerdictHashesSeen))

DeviatingEnds(r, phase) == r.version = 2

\* Only a report of the second version has a phase.
Ends(r, phase) == r.version = 2 /\ r.phase = phase

\* finalize-challenge-adjudication passes the outcome and the text's hash of a
\* report; the contract counts the verdicts itself.
FinalizeWith(r) ==
  /\ Ends(r, "finalized")
  /\ Open
  /\ EffectiveCount(r.upheld) >= quorum
  /\ result' = [phase |-> "finalized", upheld |-> r.upheld, text |-> r.text,
                count |-> EffectiveCount(r.upheld), quorum |-> quorum]
  /\ pollLog' = Append(pollLog, [name |-> "ChallengeAdjudicationFinalized", upheld |-> r.upheld,
                               text |-> r.text, count |-> EffectiveCount(r.upheld)])
  /\ UNCHANGED <<stage, responded, committed, verdicts, quorum, drafts, bonded>>

ExpireWith(r) ==
  /\ Ends(r, "expired_no_quorum")
  /\ Open /\ stage = "late"
  /\ EffectiveCount(TRUE) < quorum /\ EffectiveCount(FALSE) < quorum
  /\ result' = [phase |-> "expired_no_quorum", upheld |-> FALSE, text |-> r.text,
                count |-> EffectiveCount(TRUE), quorum |-> quorum]
  /\ pollLog' = Append(pollLog, [name |-> "ChallengeAdjudicationExpiredNoQuorum", text |-> r.text])
  /\ UNCHANGED <<stage, responded, committed, verdicts, quorum, drafts, bonded>>

AuditNext ==
  \/ Respond
  \/ \E v \in Validators : Commit(v)
  \/ \E v \in Validators, upheld \in BOOLEAN, hash \in VerdictHashes : Reveal(v, upheld, hash)
  \/ \E q \in Quorums : SetQuorum(q)
  \/ Tick
  \/ \E version \in {1, 2}, upheld \in BOOLEAN, text \in ReportHashes :
       DraftFinal(version, upheld, text)
  \/ \E text \in ReportHashes : DraftExpired(text)
  \/ \E r \in drafts : FinalizeWith(r) \/ ExpireWith(r)

AuditSpec == AuditInit /\ [][AuditNext]_auditVars

-----------------------------------------------------------------------------
(* The audit, given a file of events: any block range of the log. *)

Indexed(first, last) == SubSeq(pollLog, first, last)

\* events.find: there is an event, and the first of its name is as wanted.
Found(events, name) == \E i \in DOMAIN events : events[i].name = name

FirstOf(events, name) ==
  events[Min({i \in DOMAIN events : events[i].name = name})]

DeviatingListed(r, events) == r.responses /\ Found(events, "ChallengeResponseSubmitted")

\* Every response, commitment and verdict the report lists has its event; what it
\* leaves out is not asked for.
RespondedLinked(r, events) == r.responses => Found(events, "ChallengeResponseSubmitted")

CommitmentsLinked(r, events) ==
  \A v \in r.commitments : \E i \in DOMAIN events :
    events[i] = [name |-> "ValidatorVerdictCommitted", commitment |-> v]

VerdictsLinked(r, events) ==
  \A v \in DOMAIN r.verdicts : \E i \in DOMAIN events :
    events[i] = [name |-> IF r.version = 1 THEN "ValidatorVerdictSubmitted"
                                           ELSE "ValidatorVerdictRevealed",
                 verdict |-> r.verdicts[v]]

DeadlinesLinked(r, events) ==
  /\ Found(events, "AdjudicationPhaseStarted")
  /\ FirstOf(events, "AdjudicationPhaseStarted").deadlines = r.deadlines

DeviatingFinalLinked(r, events) ==
  /\ Found(events, "ChallengeAdjudicationFinalized")
  /\ LET event == FirstOf(events, "ChallengeAdjudicationFinalized")
     IN  event.text = r.text /\ event.upheld = r.upheld

FinalLinked(r, events) ==
  /\ Found(events, "ChallengeAdjudicationFinalized")
  /\ LET event == FirstOf(events, "ChallengeAdjudicationFinalized")
     IN  event.text = r.text /\ event.upheld = r.upheld /\ event.count = r.count

ExpiryLinked(r, events) ==
  /\ Found(events, "ChallengeAdjudicationExpiredNoQuorum")
  /\ FirstOf(events, "ChallengeAdjudicationExpiredNoQuorum").text = r.text

LegacyLinked(r, events) ==
  /\ FinalLinked(r, events)
  /\ RespondedLinked(r, events)
  /\ VerdictsLinked(r, events)

CurrentLinked(r, events) ==
  /\ IF r.phase = "finalized" THEN FinalLinked(r, events) ELSE ExpiryLinked(r, events)
  /\ DeadlinesLinked(r, events)
  /\ RespondedLinked(r, events)
  /\ CommitmentsLinked(r, events)
  /\ VerdictsLinked(r, events)

\* A report of the second version needs the artifact of the challenger's bond.
BondAudited(r) == r.version = 2 => bonded

AuditOk(r, events) ==
  /\ BondAudited(r)
  /\ IF r.version = 1 THEN LegacyLinked(r, events)
                      ELSE CurrentLinked(r, events)
  /\ ValidReport(r)

-----------------------------------------------------------------------------
\* A report that passes the audit tells how the poll ended, with whatever part of
\* the log it is audited: phase, outcome, text and count are the contract's, and
\* what it lists did happen.  A draft that a later reveal, a competing report or
\* a changed quorum has made stale does not pass, although the contract may have
\* accepted it.
AuditIsSound ==
  \A r \in drafts, first, last \in 1 .. Len(pollLog) :
    AuditOk(r, Indexed(first, last)) =>
      /\ result.phase = r.phase /\ result.text = r.text
      /\ r.phase = "finalized" => result.upheld = r.upheld /\ result.count = r.count
      /\ r.commitments \subseteq committed
      /\ r.version = 2 => \A v \in DOMAIN r.verdicts : r.verdicts[v] = verdicts[v].hash
      /\ r.version = 2 => r.deadlines = Deadlines

\* Once a poll has ended, the report that says how it ended passes: unless nobody
\* committed, since then no deadlines were ever announced, or two validators
\* revealed one verdict hash, which no report may list twice.
HonestReport ==
  NewReport(2, result.phase, result.upheld, result.text, result.quorum, result.count,
            VerdictHashesSeen)

HonestReportPasses ==
  ~Open /\ bonded /\ committed # {} /\ IsInjective(VerdictHashesSeen)
    => AuditOk(HonestReport, pollLog)

\* The transactions end a poll as their report says, and a report whose outcome
\* was short of the quorum when it was drafted never ends it as finalized.
EndedAsReported ==
  ~Open => /\ \E r \in drafts : r.phase = result.phase /\ r.text = result.text
           /\ result.phase = "finalized" =>
                \E r \in drafts : /\ r.phase = "finalized"
                                  /\ r.upheld = result.upheld /\ r.text = result.text
                                  /\ r.quorum <= r.count /\ r.count <= result.count

\* From the draft to the audit: a poll ends as a report said, and what passes says how.
ReportsTellTheEnd == EndedAsReported /\ AuditIsSound

=============================================================================

--------------------------- MODULE EvidenceAudit ---------------------------
(***************************************************************************)
(* Evidence reports and challenge records: the files that validators and   *)
(* curators write, the evidence and the challenges of the verification     *)
(* contract they are about, and the audit that links the files with the    *)
(* contract's events and computes reputations and a score from them.       *)
(*                                                                         *)
(* Hashes are injective.  A report's hash covers the whole file, so an     *)
(* evidence id is [file, reporter, type]; a challenge id is [evidence,     *)
(* challenger], one reason for each challenger.  A file's report_status is *)
(* left out: only "active" reports are created, and another status would   *)
(* be another hash, hence the report of no evidence.                       *)
(***************************************************************************)
EXTENDS Integers, FiniteSets, SequencesExt

CONSTANTS Accounts,
          Files,         \* evidence reports that may be written
          MaxEvidence,   \* bound on evidence submitted
          MaxChallenges, \* bound on challenges submitted
          MaxBundle      \* bound on the files of a kind given to an audit

EvidenceTypes == {"local_client_report", "user_signed_receipt", "validator_report",
                  "unqualified_validator_report", "foundation_seed_report"}

ASSUME FilesAssumption == \A f \in Files : f.type \in EvidenceTypes

ASSUME MaxBundleAssumption == MaxBundle \in Nat

VARIABLES qualified,  \* validators the contract accepts reports of
          evidence,   \* evidence id -> its status
          challenges, \* challenge id -> its status
          reputation, \* the contract's testnetReputation
          evidenceLog \* its events; each has its id, so their order is left out

evidenceVars == <<qualified, evidence, challenges, reputation, evidenceLog>>

EvidenceId(f) == [file |-> f, reporter |-> f.reporter, type |-> f.type]

EvidenceInit ==
  /\ qualified = {}
  /\ evidence = <<>>
  /\ challenges = <<>>
  /\ reputation = [a \in Accounts |-> 0]
  /\ evidenceLog = {}

-----------------------------------------------------------------------------
(* Reports. *)

\* A validator's report names the artifact of the run it reports.
ValidEvidenceReport(f) == f.type = "validator_report" => f.artifact

Reports == {f \in Files : ValidEvidenceReport(f)}

SetValidatorProfile(v, allowed) ==
  /\ qualified' = IF allowed THEN qualified \cup {v} ELSE qualified \ {v}
  /\ UNCHANGED <<evidence, challenges, reputation, evidenceLog>>

\* Whoever submits a report file is the reporter the contract records; it stores
\* the report of a validator it does not accept as an unqualified one.
RecordedType(f, sender) ==
  IF f.type = "validator_report" /\ sender \notin qualified
    THEN "unqualified_validator_report" ELSE f.type

SubmitValidatorReport(f, sender) ==
  LET id == [file |-> f, reporter |-> sender, type |-> RecordedType(f, sender)] IN
  /\ id \notin DOMAIN evidence
  /\ Cardinality(DOMAIN evidence) < MaxEvidence
  /\ evidence' = [e \in DOMAIN evidence \cup {id} |->
                    IF e = id THEN "active" ELSE evidence[e]]
  /\ evidenceLog' = evidenceLog \cup {[name |-> "EvidenceSubmitted", evidence |-> id]}
  /\ UNCHANGED <<qualified, challenges, reputation>>

InvalidateEvidence(e) ==
  /\ evidence' = [evidence EXCEPT ![e] = "invalidated"]
  /\ evidenceLog' = evidenceLog \cup {[name |-> "EvidenceInvalidated", evidence |-> e]}
  /\ UNCHANGED <<qualified, challenges, reputation>>

-----------------------------------------------------------------------------
(* Challenges. *)

SubmitChallenge(e, challenger) ==
  LET id == [evidence |-> e, challenger |-> challenger] IN
  /\ evidence[e] = "active"
  /\ id \notin DOMAIN challenges
  /\ Cardinality(DOMAIN challenges) < MaxChallenges
  /\ challenges' = [c \in DOMAIN challenges \cup {id} |->
                      IF c = id THEN "submitted" ELSE challenges[c]]
  /\ evidenceLog' = evidenceLog \cup {[name |-> "ChallengeSubmitted", challenge |-> id]}
  /\ UNCHANGED <<qualified, evidence, reputation>>

\* Reputation moves only when the challenge is the one that invalidates.
ResolveChallenge(c, upheld) ==
  LET settles == upheld /\ evidence[c.evidence] = "active" IN
  /\ challenges[c] = "submitted"
  /\ challenges' = [challenges EXCEPT ![c] = IF upheld THEN "upheld" ELSE "rejected"]
  /\ evidence' = IF upheld THEN [evidence EXCEPT ![c.evidence] = "invalidated"]
                           ELSE evidence
  /\ reputation' = IF settles
       THEN [a \in Accounts |-> reputation[a] + (IF a = c.challenger THEN 5 ELSE 0)
                                - (IF a = c.evidence.reporter THEN 10 ELSE 0)]
       ELSE IF upheld THEN reputation
       ELSE [reputation EXCEPT ![c.challenger] = @ - 2]
  /\ evidenceLog' = evidenceLog
       \cup {[name |-> "ChallengeResolved", challenge |-> c, upheld |-> upheld]}
       \cup (IF ~upheld THEN {}
             ELSE IF settles THEN {[name |-> "EvidenceInvalidated", evidence |-> c.evidence]}
             ELSE {[name |-> "ChallengeResolvedOnAlreadyInvalidated", challenge |-> c]})
  /\ UNCHANGED <<qualified>>

EvidenceNext ==
  \/ \E v \in Accounts, allowed \in BOOLEAN : SetValidatorProfile(v, allowed)
  \/ \E f \in Reports, sender \in Accounts : SubmitValidatorReport(f, sender)
  \/ \E e \in DOMAIN evidence : InvalidateEvidence(e)
  \/ \E e \in DOMAIN evidence, a \in Accounts : SubmitChallenge(e, a)
  \/ \E c \in DOMAIN challenges, upheld \in BOOLEAN : ResolveChallenge(c, upheld)

EvidenceSpec == EvidenceInit /\ [][EvidenceNext]_evidenceVars

-----------------------------------------------------------------------------
(* The audit of a bundle of files against the events of a range.           *)

\* create-challenge-record takes whatever status it is given.  The record of an upheld
\* challenge must name a reporter, and nothing compares it with the evidence's; other
\* records may, and nothing reads it.
Records ==
  [challenge : DOMAIN challenges, status : {"submitted", "rejected"}]
    \cup [challenge : DOMAIN challenges, status : {"upheld"}, reporter : Accounts]

EvidenceLinked(f, events) ==
  [name |-> "EvidenceSubmitted", evidence |-> EvidenceId(f)] \in events

Resolved(c, upheld, events) ==
  [name |-> "ChallengeResolved", challenge |-> c, upheld |-> upheld] \in events

DeviatingStatusMatches(r, events) ==
  r.status # "submitted" => Resolved(r.challenge, r.status = "upheld", events)

\* A record that says nothing of a resolution passes when the challenge was rejected,
\* or resolved outside of the range.
StatusMatches(r, events) ==
  /\ r.status # "submitted" => Resolved(r.challenge, r.status = "upheld", events)
  /\ ~Resolved(r.challenge, r.status # "upheld", events)

ChallengeLinked(r, events) ==
  /\ [name |-> "ChallengeSubmitted", challenge |-> r.challenge] \in events
  /\ StatusMatches(r, events)
  /\ r.status = "upheld" =>
       [name |-> "EvidenceInvalidated", evidence |-> r.challenge.evidence] \in events

\* The events that linking a challenge reads, and what a range may have of
\* them: the log keeps no order, so any part.
EventsOf(c) ==
  {e \in evidenceLog : \/ /\ e.name \in {"ChallengeSubmitted", "ChallengeResolved"}
                          /\ e.challenge = c
                       \/ e.name = "EvidenceInvalidated" /\ e.evidence = c.evidence}

Seen(c) == SUBSET EventsOf(c)

-----------------------------------------------------------------------------
(* Summaries of a bundle, the list of record files as they were given:     *)
(* computeChallengeSummary and computeEvidenceSummary.                     *)

With(bundle, status) == {i \in DOMAIN bundle : bundle[i].status = status}

DeviatingReputationOf(bundle, a) ==
  5 * Cardinality({i \in With(bundle, "upheld") : bundle[i].challenge.challenger = a})
  - 2 * Cardinality({i \in With(bundle, "rejected") : bundle[i].challenge.challenger = a})

\* Every record counts, whatever reporter it names, and twice when it was given twice.
ReputationOf(bundle, a) ==
  5 * Cardinality({i \in With(bundle, "upheld") : bundle[i].challenge.challenger = a})
  - 10 * Cardinality({i \in With(bundle, "upheld") : bundle[i].reporter = a})
  - 2 * Cardinality({i \in With(bundle, "rejected") : bundle[i].challenge.challenger = a})

InvalidatedIds(bundle) == {bundle[i].challenge.evidence : i \in With(bundle, "upheld")}

Weight(type) == CASE type = "local_client_report" -> 10
                  [] type = "user_signed_receipt" -> 30
                  [] type = "validator_report" -> 60
                  [] type = "unqualified_validator_report" -> 0
                  [] type = "foundation_seed_report" -> 40

Counts(f, bundle) == /\ EvidenceId(f) \notin InvalidatedIds(bundle)
                     /\ ReputationOf(bundle, f.reporter) > -10

DeviatingCapped(f, summary) == f.type = "validator_report" /\ f.group \in summary.groups

\* A validator's report is capped when an earlier one came from its group or runner.
Capped(f, summary) == /\ f.type = "validator_report"
                      /\ f.group \in summary.groups \/ f.runner \in summary.runners

Accept(summary, f) ==
  [accepted |-> summary.accepted \cup {f},
   score    |-> summary.score + Weight(f.type),
   groups   |-> summary.groups \cup IF f.type = "validator_report" THEN {f.group} ELSE {},
   runners  |-> summary.runners \cup IF f.type = "validator_report" THEN {f.runner} ELSE {}]

NoSummary == [accepted |-> {}, score |-> 0, groups |-> {}, runners |-> {}]

Considered(summary, f, bundle) ==
  IF Counts(f, bundle) /\ ~Capped(f, summary) THEN Accept(summary, f) ELSE summary

\* The summaries after each of the files.
Summaries(files, bundle) ==
  LET after[n \in 0 .. Len(files)] ==
        IF n = 0 THEN NoSummary ELSE Considered(after[n - 1], files[n], bundle)
  IN  after

EvidenceSummary(files, bundle) == Summaries(files, bundle)[Len(files)]

HighConfidence(summary) == /\ summary.score >= 80
                           /\ Cardinality(summary.groups) >= 2
                           /\ Cardinality(summary.runners) >= 2

-----------------------------------------------------------------------------
\* A challenge record that passes the audit of any range says "upheld" or "rejected"
\* only of a challenge the contract upheld or rejected, and passes the audit of the
\* whole log about an upheld challenge only when it says so.
AuditedStatusAgrees ==
  \A r \in Records : \A events \in Seen(r.challenge) : ChallengeLinked(r, events) =>
    /\ r.status # "submitted" => challenges[r.challenge] = r.status
    /\ EventsOf(r.challenge) \subseteq events /\ challenges[r.challenge] = "upheld" =>
         r.status = "upheld"

\* Records that pass the audit of some range, and bundles of them that tell the outcome
\* of every resolved challenge, at least once or exactly once.
Passing == {r \in Records : \E events \in Seen(r.challenge) : ChallengeLinked(r, events)}

Telling(bundle, c) ==
  {i \in DOMAIN bundle : bundle[i].challenge = c /\ bundle[i].status = challenges[c]}

ResolvedChallenges == {c \in DOMAIN challenges : challenges[c] # "submitted"}

TellsAll(bundle) == \A c \in ResolvedChallenges : Telling(bundle, c) # {}

TellsOnce(bundle) == \A c \in ResolvedChallenges : Cardinality(Telling(bundle, c)) = 1

\* Every record of an upheld challenge names the reporter of its evidence.
Attributed(bundle) ==
  \A i \in With(bundle, "upheld") :
    bundle[i].reporter = bundle[i].challenge.evidence.reporter

\* What the contract leaves out, as the evidence of the challenge was invalid already.
Unsettled ==
  {c \in DOMAIN challenges :
     [name |-> "ChallengeResolvedOnAlreadyInvalidated", challenge |-> c] \in evidenceLog}

UnsettledPoints(a) == 5 * Cardinality({c \in Unsettled : c.challenger = a})
                        - 10 * Cardinality({c \in Unsettled : c.evidence.reporter = a})

\* The reputations computed from a bundle that tells every outcome once and names the
\* reporters are the contract's, but for the challenges of evidence invalid already,
\* which the summary settles and the contract does not.
ReputationAgrees ==
  \A bundle \in SeqOf(Passing, MaxBundle) :
    TellsOnce(bundle) /\ Attributed(bundle) =>
      \A a \in Accounts : ReputationOf(bundle, a) = reputation[a] + UnsettledPoints(a)

\* Outcomes and reputations told by files that pass the audit are the contract's.
OutcomesAgree == AuditedStatusAgrees /\ ReputationAgrees

\* High confidence in files that pass, in any order and given any number of times, comes
\* from two reports that the contract took from validators it accepted, that have
\* neither group nor runner in common, that no challenge has refuted and, as far as the
\* records name the reporters, whose reporters have their reputation; and no two
\* accepted reports share a source.
Independent(f, g) == f.group # g.group /\ f.runner # g.runner

Sound(f, bundle) ==
  /\ f.type = "validator_report" /\ f.artifact
  /\ EvidenceId(f) \in DOMAIN evidence
  /\ \A c \in DOMAIN challenges :
       c.evidence = EvidenceId(f) => challenges[c] # "upheld"
  /\ TellsOnce(bundle) /\ Attributed(bundle) =>
       reputation[f.reporter] + UnsettledPoints(f.reporter) > -10

HighConfidenceIsEarned ==
  \A bundle \in {b \in SeqOf(Passing, MaxBundle) : TellsAll(b)},
     files \in SeqOf({f \in Reports : EvidenceLinked(f, evidenceLog)}, MaxBundle) :
    LET summary == EvidenceSummary(files, bundle)
        counted == {f \in summary.accepted : f.type = "validator_report"}
    IN  /\ HighConfidence(summary) => \E f, g \in counted : Independent(f, g)
        /\ \A f \in counted : Sound(f, bundle)
        /\ \A f, g \in counted : f # g => Independent(f, g)

=============================================================================

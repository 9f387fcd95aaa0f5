----------------------------- MODULE TrustPolicy ------------------------------
(***************************************************************************)
(* The trust policy: signals gathered by the subjects they name, a risk    *)
(* and gates for each of these, and the test credit gate that follows for  *)
(* a passport and its owner.                                               *)
(***************************************************************************)
EXTENDS AbuseSignals

\* The kind of a subject follows from the category and the look of what is named.
DeviatingSubjectsForSignal(s) ==
  LET Type(x) ==
        CASE s.category = "module_spam"                           -> "module_submitter"
          [] s.category = "validator_collusion" /\ x \in Addresses -> "validator"
          [] s.category = "passport_sybil" /\ x \in Addresses      -> "address"
          [] s.category = "reputation_farming" /\ x \in Addresses  -> "address"
          [] OTHER                                                -> "artifact_set"
  IN  {[type |-> Type(x), id |-> x] : x \in s.subjects}

SubjectsForSignal(s) ==
  LET Type(x) ==
        CASE s.category = "module_spam"                           -> "module_submitter"
          [] s.category = "validator_collusion" /\ x \in Addresses -> "validator"
          [] s.category = "passport_sybil" /\ x \in Addresses      -> "address"
          [] s.category = "passport_sybil" /\ x \in Passports      -> "passport"
          [] s.category = "reputation_farming" /\ x \in Addresses  -> "address"
          [] OTHER                                                -> "artifact_set"
  IN  {[type |-> Type(x), id |-> x] : x \in s.subjects}

Risks == <<"low", "medium", "high", "critical">>

RiskRank(risk) == CHOOSE r \in 1 .. 4 : Risks[r] = risk

DeviatingAggregateRisk(signals) ==
  LET highest == Risks[Max({RiskRank(s.severity) : s \in signals} \cup {1})]
      mediums == Cardinality({s \in signals : s.severity = "medium"})
  IN  IF mediums = 3 /\ RiskRank(highest) < RiskRank("high") THEN "high" ELSE highest

AggregateRisk(signals) ==
  LET highest == Risks[Max({RiskRank(s.severity) : s \in signals} \cup {1})]
      mediums == Cardinality({s \in signals : s.severity = "medium"})
  IN  IF mediums >= 3 /\ RiskRank(highest) < RiskRank("high") THEN "high" ELSE highest

AdmissionGateForRisk(risk) ==
  CASE risk \in {"critical", "high"} -> "blocked"
    [] risk = "medium"               -> "manual_review"
    [] OTHER                         -> "eligible"

ValidatorGateForRisk(risk) ==
  CASE risk = "critical"           -> "zeroed"
    [] risk \in {"high", "medium"} -> "capped"
    [] OTHER                       -> "normal"

ArtifactGateForRisk(risk) ==
  CASE risk = "critical"           -> "quarantined"
    [] risk \in {"high", "medium"} -> "manual_review"
    [] OTHER                       -> "accepted"

GatesFor(type, categories, risk) ==
  LET Where(types, named, gate) ==
        IF type \in types \/ categories \cap named # {} THEN gate ELSE "not_applicable"
  IN  [test_credit |-> Where({"passport"}, {"passport_sybil", "reputation_farming"},
                             AdmissionGateForRisk(risk)),
       module_recommendation |-> Where({"module_submitter"}, {"module_spam"},
                                       AdmissionGateForRisk(risk)),
       validator_weight |-> Where({"validator"}, {"validator_collusion"},
                                  ValidatorGateForRisk(risk)),
       artifact_handling |-> Where({"artifact_set"}, {"artifact_tampering"},
                                   ArtifactGateForRisk(risk))]

BucketToDecision(subject, signals) ==
  LET bucket == {s \in signals : subject \in SubjectsForSignal(s)}
      categories == {s.category : s \in bucket}
      risk == AggregateRisk(bucket)
  IN  [type |-> subject.type, id |-> subject.id, risk |-> risk, categories |-> categories,
       count |-> Cardinality(bucket), gates |-> GatesFor(subject.type, categories, risk)]

EvaluateTrustPolicy(signals) ==
  {BucketToDecision(subject, signals) : subject \in UNION {SubjectsForSignal(s) : s \in signals}}

TestCreditGateFor(passport, owner, decisions) ==
  LET relevant == {d \in decisions : \/ d.type = "passport" /\ d.id = passport
                                     \/ d.type = "address" /\ d.id = owner}
      gates == {d.gates.test_credit : d \in relevant}
  IN  IF "blocked" \in gates THEN "blocked"
      ELSE IF "manual_review" \in gates THEN "manual_review" ELSE "eligible"

-----------------------------------------------------------------------------
Policy == EvaluateTrustPolicy(Signals)

Strictness(gate) ==
  CASE gate = "not_applicable"                     -> 0
    [] gate \in {"eligible", "normal", "accepted"} -> 1
    [] gate \in {"manual_review", "capped"}        -> 2
    [] OTHER                                       -> 3

\* Whatever else becomes known, in the log or from a file, no decision is dropped and
\* none of its gates is loosened.
Tighten(decisions, later) ==
  \A d \in decisions : \E e \in later :
    /\ e.type = d.type /\ e.id = d.id
    /\ \A gate \in DOMAIN d.gates : Strictness(e.gates[gate]) >= Strictness(d.gates[gate])

GatesOnlyTighten == [][Tighten(Policy, Policy')]_vars

TooMany(o) == Cardinality(PassportsByOwner(o)) >= PassportSybilHigh

Own(c, o) == c \in Args("ChallengeSubmitted") /\ c[1][1] = o

\* Where reports of o list somebody else's challenge of o's evidence: each record of each
\* report counts.
Listed(o) ==
  UNION {{<<i, j>> : j \in {n \in DOMAIN reputation[i].records :
            LET c == reputation[i].records[n] IN Own(c, o) /\ c[2] # o}}
         : i \in {k \in DOMAIN reputation : reputation[k].owner = o}}

Reviews(o) == Cardinality(Listed(o))
                + IF Cardinality(PassportsByOwner(o)) >= PassportSybilMedium THEN 1 ELSE 0

\* Test credit is blocked for a named owner iff it has too many passports, challenged its
\* own evidence, or gave cause for review three times; and for a passport, whichever owner
\* is named, iff it is one of too many.
BlockedForCause ==
  LET policy == Policy
  IN  \A o \in Owners, p \in Passports :
        TestCreditGateFor(p, o, policy) = "blocked" <=>
          \/ TooMany(o) \/ Reviews(o) >= 3
          \/ \E c \in Challenges : Own(c, o) /\ c[2] = o
          \/ TooMany(p[1]) /\ p \in PassportsByOwner(p[1])

\* Every signal of a report is linked with its event, and every block has its cause.
PolicyIsGrounded == ReportsLink /\ BlockedForCause

=============================================================================

----------------------------- MODULE MCReports ------------------------------
(***************************************************************************)
(* Small instances of the audits that link files with events: migrations   *)
(* of passports, reports of how a poll ended, and evidence, challenges and *)
(* reputations.  They read different events, so a behaviour is about one   *)
(* of them, its subject, and leaves the state of the others as it began.   *)
(***************************************************************************)
EXTENDS AgentPassport, AdjudicationAudit, EvidenceAudit

VARIABLE subject

-----------------------------------------------------------------------------
(* Evidence: two validators, reports that share a group, a runner or       *)
(* neither, one without the artifact, and a client's report.               *)
CONSTANTS v1, v2

Validator(who, group, runner, artifact) ==
  [reporter |-> who, type |-> "validator_report", group |-> group, runner |-> runner,
   artifact |-> artifact]

EvidenceFiles ==
  {Validator(v1, "g1", "r1", TRUE), Validator(v2, "g2", "r2", TRUE),
   Validator(v2, "g2", "r1", TRUE), Validator(v2, "g3", "r3", FALSE),
   [reporter |-> v1, type |-> "local_client_report", group |-> "g1",
    runner |-> "r1", artifact |-> FALSE]}

\* Nothing tells one verdict hash from another.
VerdictHashSymmetry == Permutations(VerdictHashes)

reportVars == <<subject, vars, auditVars, evidenceVars>>

-----------------------------------------------------------------------------
\* A poll starts with the lowest quorum; whether a bond is given matters to polls only.
ReportsInit ==
  /\ subject \in {"passports", "poll", "evidence"}
  /\ Init /\ AuditInit /\ EvidenceInit
  /\ \A q \in Quorums : quorum <= q
  /\ subject = "poll" \/ bonded

PassportStep ==
  subject = "passports" /\ Next /\ UNCHANGED <<subject, auditVars, evidenceVars>>

PollStep ==
  subject = "poll" /\ AuditNext /\ UNCHANGED <<subject, vars, evidenceVars>>

EvidenceStep ==
  subject = "evidence" /\ EvidenceNext /\ UNCHANGED <<subject, vars, auditVars>>

\* All the properties of the three hold of a state nothing has been done in yet.
ReportsNext == PassportStep \/ PollStep \/ EvidenceStep

ReportsSpec == ReportsInit /\ [][ReportsNext]_reportVars

=============================================================================

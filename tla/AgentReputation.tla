-------------------------- MODULE AgentReputation --------------------------
(***************************************************************************)
(* Reputation checkpoints of agent passports.  Challenges are submitted    *)
(* and resolved in the verification contract; a report file lists records  *)
(* of resolved challenges and sums their points; the owner of the registry *)
(* writes a score, two counts and a report's hash to the registry; the     *)
(* audit links a report with the events of all three contracts.            *)
(*                                                                         *)
(* A passport id is [owner, number] and a report is its own hash.          *)
(***************************************************************************)
EXTENDS Integers, Sequences, FiniteSets, SequencesExt

CONSTANTS Holders,          \* owners of passports
          Challenges,       \* challenge ids: [challenger, number]
          Slack,            \* how far a mistyped score may be off
          MaxCheckpoints,   \* bound on checkpoints
          MaxRecords        \* bound on the records of a report

Sources == {"challenge_upheld", "challenge_rejected"}

VARIABLES passports,   \* passports registered
          challenges,  \* challenge -> its status
          reputations, \* passport -> its latest checkpoint and their number
          checkpoints  \* the events of all checkpoints, in the order of their blocks

\* The events of a registration, a submission and a resolution are what passports
\* and challenges hold: each happens once, so no log of them is kept.
reputationVars == <<passports, challenges, reputations, checkpoints>>

PassportIds == [owner : Holders, number : {1}]

NoCheckpoint == [score |-> 0, positive |-> 0, negative |-> 0, hash |-> "none", count |-> 0]

ReputationInit ==
  /\ passports = {}
  /\ challenges = [c \in Challenges |-> "unknown"]
  /\ reputations = [p \in PassportIds |-> NoCheckpoint]
  /\ checkpoints = <<>>

-----------------------------------------------------------------------------
(* Reports. *)

\* The records of a report: a challenge may be listed twice, by mistake.
ReputationReports ==
  {r \in [passport : PassportIds, owner : Holders,
          records : BoundedSeq([challenge : Challenges, source : Sources], MaxRecords)]
     : r.records # <<>>}

DeltaOf(source) == IF source = "challenge_upheld" THEN 5 ELSE -2

Positive(r) == Cardinality({i \in DOMAIN r.records : DeltaOf(r.records[i].source) > 0})

Negative(r) == Cardinality({i \in DOMAIN r.records : DeltaOf(r.records[i].source) < 0})

Score(r) == 5 * Positive(r) - 2 * Negative(r)

-----------------------------------------------------------------------------
(* The contracts. *)

Register(p) ==
  /\ p \notin passports
  /\ passports' = passports \cup {p}
  /\ UNCHANGED <<challenges, reputations, checkpoints>>

SubmitChallenge(c) ==
  /\ challenges[c] = "unknown"
  /\ challenges' = [challenges EXCEPT ![c] = "submitted"]
  /\ UNCHANGED <<passports, reputations, checkpoints>>

ResolveChallenge(c, source) ==
  /\ challenges[c] = "submitted"
  /\ challenges' = [challenges EXCEPT ![c] = source]
  /\ UNCHANGED <<passports, reputations, checkpoints>>

\* checkpoint-agent-reputation takes the numbers and the hash as flags of their
\* own; the registry overwrites the latest checkpoint, whatever it was.
CheckpointAgentReputation(p, score, positive, negative, hash) ==
  LET checkpoint == [score |-> score, positive |-> positive, negative |-> negative,
                     hash |-> hash, count |-> reputations[p].count + 1] IN
  /\ p \in passports
  /\ reputations' = [reputations EXCEPT ![p] = checkpoint]
  /\ checkpoints' = Append(checkpoints, [passport |-> p, checkpoint |-> checkpoint])
  /\ UNCHANGED <<passports, challenges>>

Checkpoint(r, slip) ==
  /\ Len(checkpoints) < MaxCheckpoints
  /\ CheckpointAgentReputation(r.passport, Score(r) + slip, Positive(r), Negative(r), r)

ReputationNext ==
  \/ \E p \in PassportIds : Register(p)
  \/ \E c \in Challenges : SubmitChallenge(c)
  \/ \E c \in Challenges, source \in Sources : ResolveChallenge(c, source)
  \/ \E r \in ReputationReports, slip \in 0 .. Slack : Checkpoint(r, slip)

ReputationSpec == ReputationInit /\ [][ReputationNext]_reputationVars

-----------------------------------------------------------------------------
(* The audit of a report, over the checkpoints of a range of blocks that   *)
(* holds the other events.                                                 *)

OwnerLinked(r) == r.owner = r.passport.owner /\ r.passport \in passports

DeviatingSourceMatched(record, r) == challenges[record.challenge] = record.source

\* The challenge of a record was the owner's and was resolved as the record says.
SourceMatched(record, r) == /\ record.challenge.challenger = r.owner
                            /\ challenges[record.challenge] = record.source

CheckpointsOf(r, events) ==
  {i \in DOMAIN events : events[i].passport = r.passport /\ events[i].checkpoint.hash = r}

DeviatingCheckpointMatched(r, events) == CheckpointsOf(r, events) # {}

\* Only the first checkpoint with the report's hash is looked at.
CheckpointMatched(r, events) ==
  /\ CheckpointsOf(r, events) # {}
  /\ LET first == events[Min(CheckpointsOf(r, events))].checkpoint
     IN  /\ first.score = Score(r)
         /\ first.positive = Positive(r) /\ first.negative = Negative(r)

ReportLinked(r, events) ==
  /\ OwnerLinked(r)
  /\ \A i \in DOMAIN r.records : SourceMatched(r.records[i], r)
  /\ CheckpointMatched(r, events)

-----------------------------------------------------------------------------
CheckpointRanges == {SubSeq(checkpoints, first, last) : first, last \in 1 .. Len(checkpoints)}

Audited == {r \in {checkpoints[i].checkpoint.hash : i \in DOMAIN checkpoints} :
              \E events \in CheckpointRanges : ReportLinked(r, events)}

ResolvedFor(owner, source) ==
  Cardinality({c \in Challenges : c.challenger = owner /\ challenges[c] = source})

\* The score of an audited report that lists no challenge twice is made of the
\* owner's own resolved challenges only: no report can claim more than they earned,
\* or another owner's, or those of a passport the owner does not have.
ScoreWasEarned ==
  \A r \in Audited :
    /\ r.passport \in passports /\ r.passport.owner = r.owner
    /\ IsInjective([i \in DOMAIN r.records |-> r.records[i].challenge]) =>
         /\ Positive(r) <= ResolvedFor(r.owner, "challenge_upheld")
         /\ Negative(r) <= ResolvedFor(r.owner, "challenge_rejected")
         /\ Score(r) \in -2 * ResolvedFor(r.owner, "challenge_rejected")
                         .. 5 * ResolvedFor(r.owner, "challenge_upheld")

\* A report whose numbers the registry shows wrongly, because its latest checkpoint
\* was mistyped, is audited only by a file that holds a right checkpoint of it from
\* before; and a report that was checkpointed rightly from the start stays audited
\* whatever is checkpointed later.
ShownIsAudited ==
  \A i \in DOMAIN checkpoints :
    LET r == checkpoints[i].checkpoint.hash
        right == {j \in DOMAIN checkpoints : /\ checkpoints[j].checkpoint.hash = r
                                     /\ checkpoints[j].checkpoint.score = Score(r)}
    IN  /\ r \in Audited /\ reputations[r.passport].hash = r =>
             \/ reputations[r.passport].score = Score(r)
             \/ \E j \in right : j < Len(checkpoints)
        /\ (ReportLinked(r, SubSeq(checkpoints, 1, i))) => ReportLinked(r, checkpoints)

\* What the registry shows of an audited report is what its owner has earned.
CheckpointsAgree == ScoreWasEarned /\ ShownIsAudited

=============================================================================

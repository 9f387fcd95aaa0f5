------------------------------- MODULE UnitKind -------------------------------
(***************************************************************************)
(* Kinds of evolution units: anyone proposes a version of a kind, the      *)
(* owner of the registry sets review reports and statuses, and the audit   *)
(* links a proposal file and the first review file of its kind with the    *)
(* registry's events.                                                      *)
(*                                                                         *)
(* A kind stands for a kind and its version, a body for what a file says,  *)
(* and a hash is the body it is computed from.  Files are edited by hand:  *)
(* a file is any body with any hash, whether its fields have the form they *)
(* should (fit) or not.                                                    *)
(***************************************************************************)
EXTENDS Integers, Sequences, FiniteSetsExt

CONSTANTS Kinds, Schemas, Texts,
          Accounts, Owner,
          Statuses,  \* the statuses the owner uses
          MaxEvents  \* bound on the registry's events

VARIABLES kinds,  \* kind -> its record
          kindLog \* the registry's events
kindVars == <<kinds, kindLog>>

Proposals == [kind : Kinds, schema : Schemas, text : Texts]

Reviews == [kind : Kinds, status : Statuses]

NoKind == [status |-> "None", proposal |-> {}, review |-> {}, submitter |-> {}]

KindInit == kinds = [k \in Kinds |-> NoKind] /\ kindLog = <<>>

-----------------------------------------------------------------------------
(* Files, and the commands that send their hashes. *)

ProposalFiles == [body : Proposals, hash : Proposals, fit : BOOLEAN]

ReviewFiles == [body : Reviews, hash : Reviews, fit : BOOLEAN]

DeviatingValidProposal(f) == f.fit

ValidProposal(f) == f.fit /\ f.hash = f.body

ValidReview(f) == f.fit /\ f.hash = f.body

ProposeKind(account, kind, schema, hash) ==
  /\ kinds[kind].status = "None"
  /\ kinds' = [kinds EXCEPT ![kind] = [status |-> "Draft", proposal |-> {hash}, review |-> {},
                                       submitter |-> {account}]]
  /\ kindLog' = Append(kindLog, [name |-> "Proposed", kind |-> kind, schema |-> schema,
                                 hash |-> hash])

\* propose-unit-kind, sent by any account.
ProposeUnitKind(account, f) ==
  /\ ValidProposal(f)
  /\ ProposeKind(account, f.body.kind, f.body.schema, f.hash)

\* set-unit-kind-review: the transaction is not sent unless the key is the
\* deployer's, who is the owner of the registry.
SetUnitKindReview(account, f) ==
  /\ ValidReview(f) /\ account = Owner
  /\ kinds[f.body.kind].status # "None"
  /\ kinds' = [kinds EXCEPT ![f.body.kind].review = {f.hash}]
  /\ kindLog' = Append(kindLog, [name |-> "ReviewSet", kind |-> f.body.kind, hash |-> f.hash])

\* set-unit-kind-status: from any status to any, with or without a review.
SetUnitKindStatus(account, kind, status) ==
  /\ account = Owner /\ status # "None"
  /\ kinds[kind].status # "None"
  /\ kinds' = [kinds EXCEPT ![kind].status = status]
  /\ kindLog' = Append(kindLog, [name |-> "StatusChanged", kind |-> kind,
                         old |-> kinds[kind].status, new |-> status])

KindNext ==
  /\ Len(kindLog) < MaxEvents
  /\ \E account \in Accounts :
       \/ \E f \in ProposalFiles : ProposeUnitKind(account, f)
       \/ \E f \in ReviewFiles : SetUnitKindReview(account, f)
       \/ \E kind \in Kinds, status \in Statuses : SetUnitKindStatus(account, kind, status)

KindSpec == KindInit /\ [][KindNext]_kindVars

-----------------------------------------------------------------------------
(* The audit. *)

\* The blocks of the events of a kind with a name.
EventsOf(events, name, kind) ==
  {i \in DOMAIN events : events[i].name = name /\ events[i].kind = kind}

\* Schema and proposal hashes are fields of the file, compared with the first event's.
ProposalMatched(f, events) ==
  LET proposed == EventsOf(events, "Proposed", f.body.kind)
  IN  /\ proposed # {}
      /\ events[Min(proposed)].schema = f.body.schema /\ events[Min(proposed)].hash = f.hash

\* The review files of the proposal's kind, of which the audit takes the first.
ReviewsOf(f, reviews) == {i \in DOMAIN reviews : reviews[i].body.kind = f.body.kind}

DeviatingStatusFound(r, events) == EventsOf(events, "StatusChanged", r.body.kind) # {}

\* Any event that sets the status the review recommends, also an overtaken one.
StatusFound(r, events) ==
  \E i \in EventsOf(events, "StatusChanged", r.body.kind) : events[i].new = r.body.status

ReviewLinked(r, events) ==
  /\ ValidReview(r)
  /\ \E i \in EventsOf(events, "ReviewSet", r.body.kind) : events[i].hash = r.hash
  /\ StatusFound(r, events)

ProposalLinked(f, events) == ValidProposal(f) /\ ProposalMatched(f, events)

UnitKindLinked(f, reviews, events) ==
  /\ ProposalLinked(f, events)
  /\ LET found == ReviewsOf(f, reviews)
     IN  found # {} /\ ReviewLinked(reviews[Min(found)], events)

-----------------------------------------------------------------------------
KindRanges == {SubSeq(kindLog, first, last) : first, last \in 1 .. Len(kindLog)}

\* Whatever is proposed, re-proposed, edited in the files or cut from the log, a
\* proposal file that passes says exactly what the registry holds of its kind: two
\* files with different bodies never both pass for one version of a kind.
AuditedProposalIsRegistered ==
  \A events \in KindRanges : \A f \in ProposalFiles :
    ProposalLinked(f, events) => kinds[f.body.kind].proposal = {f.body}

\* The review a passing bundle shows was set for that very kind, and its status was
\* given by the owner to the kind after it was proposed; if it is not the kind's
\* status any more, a later event of the log moved the kind on from it.
WasGiven(review) ==
  LET Of(name) == EventsOf(kindLog, name, review.kind)
  IN  /\ \E i \in Of("ReviewSet") : kindLog[i].hash = review
      /\ \E i \in Of("StatusChanged") :
           /\ kindLog[i].new = review.status
           /\ \E j \in Of("Proposed") : j < i
           /\ \/ kinds[review.kind].status = review.status
              \/ \E j \in Of("StatusChanged") : i < j

AuditedReviewWasGiven ==
  \A events \in KindRanges : \A f \in {f \in ProposalFiles : ProposalLinked(f, events)} :
    \A r, s \in {r \in ReviewFiles : ValidReview(r)} :
      UnitKindLinked(f, <<r, s>>, events) =>
        WasGiven(IF r.body.kind = f.body.kind THEN r.body ELSE s.body)

\* What passes the audit, proposal and review, is what the registry was told of the kind.
AuditedKindsAgree == AuditedProposalIsRegistered /\ AuditedReviewWasGiven

=============================================================================

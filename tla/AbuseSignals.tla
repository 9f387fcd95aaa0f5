----------------------------- MODULE AbuseSignals ------------------------------
(***************************************************************************)
(* The analysis for abuse: what it is given, an event log and artifact     *)
(* files, grows step by step, and Signals is what it reports of it.        *)
(*                                                                         *)
(* The ids of passports, evidence and challenges are hashes of what they   *)
(* stand for: a passport is <<owner, key>>, an evidence is <<reporter,     *)
(* proof>>, a challenge is <<evidence, challenger>>.                       *)
(***************************************************************************)
EXTENDS Integers, Sequences, FiniteSets, FiniteSetsExt

CONSTANTS Passports, Submitters, Evidence, Challenges, Groups, Runners,
          RecordLists,           \* the challenges one reputation report lists
          PassportSybilMedium, PassportSybilHigh, ModuleSpamBlockWindow, ModuleSpamHigh,
          ValidatorCollusionHigh,
          MaxBlock, MaxInputs    \* bounds: the last block, and events and files in all

\* Thresholds are positive integers (validateThresholds).
ASSUME ThresholdsAssumption ==
  /\ {PassportSybilMedium, PassportSybilHigh, ModuleSpamBlockWindow, ModuleSpamHigh,
      ValidatorCollusionHigh} \subseteq Nat \ {0}
  /\ MaxBlock \in Nat \ {0}

Owners == {p[1] : p \in Passports}
Reporters == {e[1] : e \in Evidence}
Addresses == Owners \cup Reporters \cup Submitters \cup {c[2] : c \in Challenges}

\* A hash is no address, and reports list challenges.
ASSUME IdsAssumption ==
  /\ IsFiniteSet(Passports)
  /\ (Passports \cup Challenges) \cap Addresses = {}
  /\ RecordLists \subseteq Seq(Challenges)

VARIABLES block,      \* the block being mined
          events,     \* the indexed log
          passports,  \* the passports given as files
          evidence,   \* the evidence reports given, in order
          reputation  \* the reputation reports given, in order
vars == <<block, events, passports, evidence, reputation>>

Init == /\ block = 1 /\ events = <<>>
        /\ passports = {} /\ evidence = <<>> /\ reputation = <<>>

-----------------------------------------------------------------------------
(* What the analysis is given.  Of the contracts' calls only the events    *)
(* count here: passports, evidence and challenges are registered once, and *)
(* a challenge follows its evidence.                                       *)

Args(name) == {events[i].args : i \in {j \in DOMAIN events : events[j].name = name}}

Emit(name, args) == /\ events' = Append(events, [name |-> name, args |-> args, block |-> block])
                    /\ UNCHANGED <<block, passports, evidence, reputation>>

RegisterPassport(p) == /\ p \notin Args("AgentPassportRegistered")
                       /\ Emit("AgentPassportRegistered", p)

SubmitModule(a) == Emit("ModuleSubmitted", a)

SubmitEvidence(e) == /\ e \notin Args("EvidenceSubmitted")
                     /\ Emit("EvidenceSubmitted", e)

SubmitChallenge(c) == /\ c[1] \in Args("EvidenceSubmitted")
                      /\ c \notin Args("ChallengeSubmitted")
                      /\ Emit("ChallengeSubmitted", c)

NextBlock == /\ block < MaxBlock /\ block' = block + 1
             /\ UNCHANGED <<events, passports, evidence, reputation>>

GivePassport(p) == /\ p \notin passports
                   /\ passports' = passports \cup {p}
                   /\ UNCHANGED <<block, events, evidence, reputation>>

\* A file that was altered (valid is FALSE) is analysed like the others.
GiveEvidence(e, group, runner, valid) ==
  /\ evidence' = Append(evidence, [id |-> e, operatorGroup |-> group, runner |-> runner,
                                   valid |-> valid])
  /\ UNCHANGED <<block, events, passports, reputation>>

\* Reports of one owner may list the same challenge again.
GiveReputation(owner, list) ==
  /\ reputation' = Append(reputation, [owner |-> owner, records |-> list])
  /\ UNCHANGED <<block, events, passports, evidence>>

Room == Len(events) + Cardinality(passports) + Len(evidence) + Len(reputation) < MaxInputs

Next ==
  \/ NextBlock
  \/ /\ Room
     /\ \/ \E p \in Passports : RegisterPassport(p) \/ GivePassport(p)
        \/ \E a \in Submitters : SubmitModule(a)
        \/ \E e \in Evidence : SubmitEvidence(e)
        \/ \E c \in Challenges : SubmitChallenge(c)
        \/ \E e \in Evidence, g \in Groups, r \in Runners, valid \in BOOLEAN :
             GiveEvidence(e, g, r, valid)
        \/ \E o \in Addresses, list \in RecordLists : GiveReputation(o, list)

Spec == Init /\ [][Next]_vars

-----------------------------------------------------------------------------
(* The signals.  link is the event a signal claims, <<>> for an artifact,  *)
(* and nth tells signals apart that are otherwise the same.  The report    *)
(* lists them by severity; nothing depends on the order.                   *)

Signal(severity, category, subjects, link, nth) ==
  [severity |-> severity, category |-> category, subjects |-> subjects, link |-> link, nth |-> nth]

ArtifactTamperingSignals ==
  {Signal("critical", "artifact_tampering", {<<"evidence_report", i>>}, <<>>, 0)
     : i \in {j \in DOMAIN evidence : ~evidence[j].valid}}

PassportsByOwner(o) ==
  {p \in Args("AgentPassportRegistered") \cup passports : p[1] = o}

PassportSybilSignals ==
  LET Count(o) == Cardinality(PassportsByOwner(o))
      Severity(o) == IF Count(o) >= PassportSybilHigh THEN "high" ELSE "medium"
  IN  {Signal(Severity(o), "passport_sybil", {o} \cup PassportsByOwner(o),
              <<"AgentPassportRegistered", o>>, 0)
         : o \in {a \in Owners : Count(a) >= PassportSybilHigh \/ Count(a) >= PassportSybilMedium}}

Submitted(a) == {i \in DOMAIN events : events[i].name = "ModuleSubmitted" /\ events[i].args = a}

\* Where the window that ends at each submission begins: at the first one, from where the
\* last window began, that is near enough.  Submissions are taken in order of their blocks.
DeviatingWindowStarts(a) ==
  LET left[right \in 0 .. Len(events)] ==
        IF right = 0 THEN 1
        ELSE IF right \notin Submitted(a) THEN left[right - 1]
        ELSE Min({right} \cup {i \in left[right - 1] .. right :
               /\ i \in Submitted(a)
               /\ events[right].block - events[i].block < ModuleSpamBlockWindow})
  IN  left

WindowStarts(a) ==
  LET left[right \in 0 .. Len(events)] ==
        IF right = 0 THEN 1
        ELSE IF right \notin Submitted(a) THEN left[right - 1]
        ELSE Min({right} \cup {i \in left[right - 1] .. right :
               /\ i \in Submitted(a)
               /\ events[right].block - events[i].block <= ModuleSpamBlockWindow})
  IN  left

MaxWindow(a) ==
  LET left == WindowStarts(a)
  IN  Max({Cardinality(Submitted(a) \cap left[right] .. right) : right \in Submitted(a)} \cup {0})

ModuleSpamSignals ==
  {Signal("high", "module_spam", {a}, <<"ModuleSubmitted", a>>, 0)
     : a \in {s \in Submitters : MaxWindow(s) >= ModuleSpamHigh}}

\* mark: what of each evidence file is compared
CollusionSignals(mark, marks) ==
  LET ReportersOf(m) == {evidence[i].id[1] : i \in {j \in DOMAIN mark : mark[j] = m}}
  IN  {Signal("high", "validator_collusion", {m} \cup ReportersOf(m), <<>>, 0)
         : m \in {x \in marks : Cardinality(ReportersOf(x)) >= ValidatorCollusionHigh}}

ValidatorCollusionSignals ==
  CollusionSignals([i \in DOMAIN evidence |-> evidence[i].operatorGroup], Groups)
    \cup CollusionSignals([i \in DOMAIN evidence |-> evidence[i].runner], Runners)

\* The reporter of an evidence is known from its file or its event.
ReporterKnown(e) ==
  e \in Args("EvidenceSubmitted") \/ \E i \in DOMAIN evidence : evidence[i].id = e

Seen == {c \in Args("ChallengeSubmitted") : ReporterKnown(c[1]) /\ c[1][1] = c[2]}

IsFarming(c, owner) == /\ c \in Args("ChallengeSubmitted") /\ c \notin Seen
                       /\ ReporterKnown(c[1]) /\ c[1][1] = owner

\* Besides the challenges of one's own evidence, every record of every report counts.
ReputationFarmingSignals ==
  LET Farming(severity, who, c, nth) ==
        Signal(severity, "reputation_farming", {who, c}, <<"ChallengeSubmitted", c>>, nth)
      Of(i) == {Farming("medium", reputation[i].owner, reputation[i].records[j], <<i, j>>)
                  : j \in {n \in DOMAIN reputation[i].records :
                             IsFarming(reputation[i].records[n], reputation[i].owner)}}
  IN  {Farming("high", c[2], c, 0) : c \in Seen} \cup UNION {Of(i) : i \in DOMAIN reputation}

Signals == ArtifactTamperingSignals \cup PassportSybilSignals \cup ModuleSpamSignals
             \cup ValidatorCollusionSignals \cup ReputationFarmingSignals

-----------------------------------------------------------------------------
\* The audit wants an event of the claimed name in which the claimed address or id occurs.
Mentions(e, x) ==
  CASE e.name \in {"AgentPassportRegistered", "EvidenceSubmitted"} -> x \in {e.args, e.args[1]}
    [] e.name = "ModuleSubmitted" -> x = e.args
    [] OTHER -> x \in {e.args, e.args[1], e.args[2]}

DeviatingLinked(s) == s.link = <<>> \/ \E i \in DOMAIN events : events[i].name = s.link[1]

Linked(s) ==
  s.link = <<>> \/ \E i \in DOMAIN events : /\ events[i].name = s.link[1]
                                            /\ Mentions(events[i], s.link[2])

-----------------------------------------------------------------------------
\* A submitter is reported for spam iff some window of blocks, wherever it begins, holds
\* the number of submissions that counts as spam.
SpamIsAFullWindow ==
  {s.subjects : s \in {t \in Signals : t.category = "module_spam"}}
    = {{a} : a \in {x \in Submitters : \E first \in 1 .. MaxBlock :
                      Cardinality({i \in DOMAIN events :
                        /\ events[i].name = "ModuleSubmitted" /\ events[i].args = x
                        /\ events[i].block \in first .. first + ModuleSpamBlockWindow})
                        >= ModuleSpamHigh}}

\* The audit of a report against the log it was made from refuses just the sybil
\* signals of owners whose passports all came from files.
ReportsLink ==
  \A s \in Signals :
    Linked(s) <=> (s.category = "passport_sybil" =>
                     \E p \in Args("AgentPassportRegistered") : p[1] \in s.subjects)

=============================================================================

----------------------------- MODULE MCOpenings -----------------------------
(***************************************************************************)
(* What was committed can be opened: verdicts kept in a vault, and scores. *)
(* A behaviour is about one of the two, its subject.                       *)
(***************************************************************************)
EXTENDS AdjudicationVault

VARIABLES subject, submitted, commits, reveals, disclosed

scoreVars == <<submitted, commits, reveals, disclosed>>
openingVars == <<subject, vars, scoreVars>>

CONSTANTS Scorers, Modules, Scores, NoHash, NoOpening

\* The contract of contracts/src: its ChainMaker port hashes something else.
Score == INSTANCE ScoreReveal WITH Port <- FALSE

\* What stands for an empty slot is no hash and no opening (the contract rejects a
\* zero hash and keeps a flag with every reveal), and a score is a number.
ASSUME SlotAssumption ==
  /\ NoHash \notin {Score!ContractHash(o) : o \in Score!Openings}
  /\ NoOpening \notin Score!Openings
  /\ Scores \subseteq Nat

OpeningsInit == /\ subject \in {"verdict", "score"}
                /\ Init /\ Score!Init
                /\ subject = "verdict" \/ backup = {}

VerdictStep == subject = "verdict" /\ Next /\ UNCHANGED <<subject, scoreVars>>

ScoreStep == subject = "score" /\ Score!Next /\ UNCHANGED <<subject, vars>>

\* Verdicts have the vault's fairness; scores need none.
OpeningsSpec ==
  /\ OpeningsInit /\ [][VerdictStep \/ ScoreStep]_openingVars
  /\ subject = "verdict" => Fairness

-----------------------------------------------------------------------------
\* A score committed as the specification says stays openable.
ProtocolCommitmentsOpen == subject = "score" => Score!ProtocolCommitmentsOpen

=============================================================================

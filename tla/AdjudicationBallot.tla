------------------------- MODULE AdjudicationBallot -------------------------
(***************************************************************************)
(* One adjudication of the contract, seen as a SealedBallot.               *)
(***************************************************************************)
EXTENDS ChallengeAdjudication

CONSTANTS theRegistry, theChallenge

ASSUME PollAssumption == theRegistry \in Registries /\ theChallenge \in ChallengeIds

SealedView == [v \in Validators |-> commitments[theRegistry][theChallenge][v].binds]

OpenedView == {v \in Validators : commitments[theRegistry][theChallenge][v].revealed}

ResultView == LET adj == adjudications[theRegistry][theChallenge]
              IN  IF adj.finalized THEN adj.outcome
                  ELSE IF adj.expired THEN "Lapsed" ELSE "Pending"

Ballot == INSTANCE SealedBallot WITH
            Electorate <- Validators, Choices <- Verdicts, Nothing <- "Nothing",
            None <- "None", Lapsed <- "Lapsed", Pending <- "Pending",
            Threshold <- MinQuorum,
            sealed <- SealedView, opened <- OpenedView, result <- ResultView

\* Every adjudication behaves as a sealed ballot: deadlines, responses, quorum
\* changes, delisted validators and the registry's own steps never let it accept
\* a commitment after a reveal, miscount, or end twice.
ImplementsSealedBallot == Ballot!Spec

=============================================================================

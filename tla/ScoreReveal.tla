----------------------------- MODULE ScoreReveal -----------------------------
(***************************************************************************)
(* Commitments to scores: the contract ScoreCommitReveal, its ChainMaker   *)
(* port (Port) and the SDK's two transactions.                             *)
(*                                                                         *)
(* A commitment is what it hashes: the score and the salt (and reason) a   *)
(* scorer drew for a module.  The SDK and the contract hash the bytes the  *)
(* hex digits stand for, the port hashes the digits.  A transaction is     *)
(* seen by everybody when it is sent, mined or not.                        *)
(***************************************************************************)
EXTENDS Naturals

CONSTANTS Scorers, Modules, Scores, NoHash, NoOpening,
          Port      \* is the contract the port's?

Secrets  == [by : Scorers, for : Modules]
Openings == [score : Scores, salt : Secrets]

ProtocolHash(o) == [encoding |-> "bytes", of |-> o]

ContractHash(o) == [encoding |-> IF Port THEN "text" ELSE "bytes", of |-> o]

VARIABLES
    submitted,      \* the modules the registry knows
    commits,        \* by module and scorer
    reveals,        \* by module and scorer: the opening, if any
    disclosed       \* openings that were sent

vars == <<submitted, commits, reveals, disclosed>>

Init ==
    /\ submitted = {}
    /\ commits = [m \in Modules |-> [s \in Scorers |-> NoHash]]
    /\ reveals = [m \in Modules |-> [s \in Scorers |-> NoOpening]]
    /\ disclosed = {}

RequireModule(m) == Port \/ m \in submitted

SubmitModule(m) ==
    /\ m \notin submitted
    /\ submitted' = submitted \cup {m}
    /\ UNCHANGED <<commits, reveals, disclosed>>

OwnOpenings(s, m) == {o \in Openings : o.salt = [by |-> s, for |-> m]}

\* What a scorer may commit: a score of its own, by either hash, or a commitment it
\* finds on the chain.
Committable(s, m) ==
    {ProtocolHash(o) : o \in OwnOpenings(s, m)} \cup {ContractHash(o) : o \in OwnOpenings(s, m)}
        \cup ({commits[n][t] : n \in Modules, t \in Scorers} \ {NoHash})

CommitScore(s, m, hash) ==
    /\ RequireModule(m)
    /\ commits[m][s] = NoHash
    /\ commits' = [commits EXCEPT ![m][s] = hash]
    /\ UNCHANGED <<submitted, reveals, disclosed>>

\* submit-score-reveal: sent without asking the chain.
SendReveal(s, m, o) ==
    /\ o \in OwnOpenings(s, m) /\ commits[m][s] # NoHash
    /\ disclosed' = disclosed \cup {o}
    /\ UNCHANGED <<submitted, commits, reveals>>

DeviatingMayReveal(s, m, o) ==   \* an opening is used once
    /\ o \in disclosed
    /\ RequireModule(m)
    /\ commits[m][s] = ContractHash(o)
    /\ reveals[m][s] = NoOpening /\ o.score <= 100
    /\ \A n \in Modules, t \in Scorers : reveals[n][t] # o

\* The checks of revealScore, in a call that somebody can send.
MayReveal(s, m, o) ==
    /\ o \in disclosed
    /\ RequireModule(m)
    /\ commits[m][s] = ContractHash(o)
    /\ reveals[m][s] = NoOpening /\ o.score <= 100

\* The transaction is mined, the sender's own or one another account made of it.
RevealScore(s, m, o) ==
    /\ MayReveal(s, m, o)
    /\ reveals' = [reveals EXCEPT ![m][s] = o]
    /\ UNCHANGED <<submitted, commits, disclosed>>

Next ==
    \/ \E m \in Modules : SubmitModule(m)
    \/ \E s \in Scorers, m \in Modules :
        \/ \E hash \in Committable(s, m) : CommitScore(s, m, hash)
        \/ \E o \in Openings : SendReveal(s, m, o) \/ RevealScore(s, m, o)

Spec == Init /\ [][Next]_vars

-----------------------------------------------------------------------------
\* A commitment computed as spec/protocol.md:31 says is opened by its score and salt
\* until that is done, although others may copy it, here or for another module, and
\* open the copy first.
ProtocolCommitmentsOpen ==
    \A s \in Scorers, m \in Modules : \A o \in OwnOpenings(s, m) :
        commits[m][s] = ProtocolHash(o) /\ o.score <= 100 /\ o \in disclosed
            => reveals[m][s] = o \/ MayReveal(s, m, o)

=============================================================================

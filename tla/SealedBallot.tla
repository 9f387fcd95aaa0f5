---------------------------- MODULE SealedBallot ----------------------------
(***************************************************************************)
(* What an adjudication promises, without time, money or contracts: voters *)
(* seal a choice, no seal is accepted once any has been opened, a seal     *)
(* opens to what was sealed, and the ballot ends once, with a choice that  *)
(* enough opened seals hold or with none.                                  *)
(***************************************************************************)
EXTENDS Integers, FiniteSets

CONSTANTS
    Electorate,         \* the voters, finitely many
    Choices,
    Nothing,            \* what a seal that no choice opens holds
    None,               \* no seal yet
    Lapsed, Pending,    \* results other than a choice
    Threshold

VARIABLES
    sealed,     \* what each voter is bound to: a choice, Nothing, or None yet
    opened,     \* the voters whose seal is open
    result      \* Pending, Lapsed or a choice

ballotVars == <<sealed, opened, result>>

Support(x) == {v \in opened : sealed[v] = x}

Init ==
    /\ sealed = [v \in Electorate |-> None]
    /\ opened = {}
    /\ result = Pending

Seal(v, x) ==
    /\ result = Pending
    /\ opened = {}
    /\ sealed[v] = None
    /\ sealed' = [sealed EXCEPT ![v] = x]
    /\ UNCHANGED <<opened, result>>

Open(v) ==
    /\ result = Pending
    /\ v \notin opened
    /\ sealed[v] \in Choices
    /\ opened' = opened \cup {v}
    /\ UNCHANGED <<sealed, result>>

Decide(x) ==
    /\ result = Pending
    /\ Cardinality(Support(x)) >= Threshold
    /\ result' = x
    /\ UNCHANGED <<sealed, opened>>

Lapse ==
    /\ result = Pending
    /\ result' = Lapsed
    /\ UNCHANGED <<sealed, opened>>

Next ==
    \/ \E v \in Electorate, x \in Choices \cup {Nothing} : Seal(v, x)
    \/ \E v \in Electorate : Open(v)
    \/ \E x \in Choices : Decide(x)
    \/ Lapse

Spec == Init /\ [][Next]_ballotVars

=============================================================================

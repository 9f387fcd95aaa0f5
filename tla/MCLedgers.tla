----------------------------- MODULE MCLedgers ------------------------------
(***************************************************************************)
(* Small instances of the ledgers of test credit, reputation checkpoints   *)
(* and unit kinds, and of module verification.  None reads another's       *)
(* state, so a behaviour is about one of them, its subject, and leaves the *)
(* others as they began.                                                   *)
(***************************************************************************)
EXTENDS TestCredit, AgentReputation, UnitKind, ModuleVerification

VARIABLE subject

-----------------------------------------------------------------------------
(* Credit: one passport and its owner, a policy that finds no risk and one *)
(* that wants a review of the owner.                                       *)
CONSTANTS p, o

Clean == [s \in {p, o} |-> "eligible"]

Review == [Clean EXCEPT ![o] = "manual_review"]

MCPolicies == {Clean, Review}

MCReasons == {"passport_bootstrap", "audit_request_fee", "challenge_bond_lock",
              "blocked_by_trust_policy"}

\* Reputation: every owner has a challenge.
MCChallenges == [challenger : Holders, number : {1}]

ledgerVars == <<subject, vars, reputationVars, kindVars, workVars>>

-----------------------------------------------------------------------------
LedgersInit ==
  /\ subject \in {"credit", "reputation", "kind", "work"}
  /\ Init /\ ReputationInit /\ KindInit /\ WorkInit

CreditStep ==
  subject = "credit" /\ Next /\ UNCHANGED <<subject, reputationVars, kindVars, workVars>>

ReputationStep ==
  /\ subject = "reputation" /\ ReputationNext
  /\ UNCHANGED <<subject, vars, kindVars, workVars>>

KindStep ==
  subject = "kind" /\ KindNext /\ UNCHANGED <<subject, vars, reputationVars, workVars>>

WorkStep ==
  subject = "work" /\ WorkNext /\ UNCHANGED <<subject, vars, reputationVars, kindVars>>

\* All the properties of the four hold of a state nothing has been done in yet.
LedgersNext == CreditStep \/ ReputationStep \/ KindStep \/ WorkStep

LedgersSpec == LedgersInit /\ [][LedgersNext]_ledgerVars

=============================================================================

------------------------------ MODULE TestCredit ------------------------------
(***************************************************************************)
(* The test credit of agent passports.  An action file grants, consumes or *)
(* denies an amount for a reason, through a gate that a trust policy       *)
(* report sets; the owner of the ledger sends grants and consumptions of   *)
(* an action file, or of flags typed by hand; a report file lists actions, *)
(* and the audit links it with the ledger's events.                        *)
(*                                                                         *)
(* An action is its own hash, a policy is the gate its report gives every  *)
(* passport and address.                                                   *)
(***************************************************************************)
EXTENDS Integers, Sequences, FiniteSets, SequencesExt

CONSTANTS Passports, Owners,
          Policies,      \* trust policy reports: subject -> its test credit gate
          Reasons,       \* the reasons in use
          Slips,         \* how far an amount typed by hand is off
          MaxOperations, \* bound on ledger operations
          MaxActions     \* bound on the actions of a report

Gates == {"eligible", "manual_review", "blocked"}

ASSUME CreditAssumption ==
  /\ \A policy \in Policies : \A s \in Passports \cup Owners : policy[s] \in Gates
  /\ 0 \in Slips /\ Slips \subseteq Int

VARIABLES credits, \* passport -> its account
          used,    \* the action hashes used
          log      \* the ledger's events
vars == <<credits, used, log>>

Init == /\ credits = [p \in Passports |-> [granted |-> 0, consumed |-> 0, balance |-> 0,
                                           operations |-> 0]]
        /\ used = {} /\ log = <<>>

-----------------------------------------------------------------------------
(* Action files. *)

GrantReasons == {"passport_bootstrap", "validator_report_grant", "module_submission_grant",
                 "challenge_bond_refund"}

ConsumeReasons == {"audit_request_fee", "challenge_bond", "challenge_bond_lock",
                   "challenge_bond_consume", "challenge_bond_partial_fee"}

Amounts(reason) ==
  CASE reason = "passport_bootstrap"         -> {100}
    [] reason = "validator_report_grant"     -> {25}
    [] reason = "challenge_bond_refund"      -> {5, 9, 10}
    [] reason = "challenge_bond_partial_fee" -> {1, 5}
    [] reason = "audit_request_fee"          -> {5}
    [] reason = "blocked_by_trust_policy"    -> {0}
    [] OTHER                                 -> {10}

\* The bonds of challenges are settled in files only, not in the ledger.
IsBond(action) == action.reason \in {"challenge_bond_lock", "challenge_bond_refund",
                                     "challenge_bond_consume", "challenge_bond_partial_fee"}

DeviatingGateFor(passport, owner, policy) == policy[passport]

\* The stricter of what the policy says of the passport and of the owner that is named.
GateFor(passport, owner, policy) ==
  LET gates == {policy[passport], policy[owner]}
  IN  IF "blocked" \in gates THEN "blocked"
      ELSE IF "manual_review" \in gates THEN "manual_review" ELSE "eligible"

\* An action by itself: the gate is not checked against the policy it names, and is
\* "eligible" when the file was made without one.
ValidAction(a) ==
  /\ a.amount \in Amounts(a.reason)
  /\ a.action = "grant" => a.reason \in GrantReasons
  /\ a.action = "consume" => a.reason \in ConsumeReasons
  /\ a.action = "deny" => a.reason = "blocked_by_trust_policy"
  /\ a.gate = "eligible" <=> a.action # "deny"

ValidUnder(a, policy) == /\ ValidAction(a) /\ a.policy = policy
                         /\ a.gate = GateFor(a.passport, a.owner, policy)

Actions == {a \in [passport : Passports, owner : Owners, action : {"grant", "consume", "deny"},
                   reason : Reasons, amount : UNION {Amounts(reason) : reason \in Reasons},
                   gate : Gates, policy : Policies]
              : ValidAction(a)}

-----------------------------------------------------------------------------
(* The ledger. *)

ValidOperation(amount, hash) == amount > 0 /\ hash \notin used

DeviatingGrantCredit(p, amount, hash, policy) ==
  /\ ValidOperation(amount, hash)
  /\ credits' = [credits EXCEPT ![p].granted = amount, ![p].balance = @ + amount,
                                ![p].operations = @ + 1]
  /\ used' = used \cup {hash}
  /\ log' = Append(log, [name |-> "grant", passport |-> p, amount |-> amount, hash |-> hash,
                         policy |-> policy])

GrantCredit(p, amount, hash, policy) ==
  /\ ValidOperation(amount, hash)
  /\ credits' = [credits EXCEPT ![p].granted = @ + amount, ![p].balance = @ + amount,
                                ![p].operations = @ + 1]
  /\ used' = used \cup {hash}
  /\ log' = Append(log, [name |-> "grant", passport |-> p, amount |-> amount, hash |-> hash,
                         policy |-> policy])

DeviatingConsumeCredit(p, amount, hash, policy) ==
  /\ ValidOperation(amount, hash)
  /\ credits[p].balance >= amount
  /\ credits' = [credits EXCEPT ![p].consumed = @ + amount, ![p].balance = @ - amount,
                                ![p].operations = @ + 1]
  /\ used' = used
  /\ log' = Append(log, [name |-> "consume", passport |-> p, amount |-> amount, hash |-> hash,
                         policy |-> policy])

ConsumeCredit(p, amount, hash, policy) ==
  /\ ValidOperation(amount, hash)
  /\ credits[p].balance >= amount
  /\ credits' = [credits EXCEPT ![p].consumed = @ + amount, ![p].balance = @ - amount,
                                ![p].operations = @ + 1]
  /\ used' = used \cup {hash}
  /\ log' = Append(log, [name |-> "consume", passport |-> p, amount |-> amount, hash |-> hash,
                         policy |-> policy])

\* grant-test-credit and consume-test-credit with --action take their own kind of
\* action only; with flags, the hash of a file goes with any command and amount.
GrantTestCredit(a, slip) ==
  /\ Len(log) < MaxOperations
  /\ slip = 0 => a.action = "grant"
  /\ GrantCredit(a.passport, a.amount + slip, a, a.policy)

ConsumeTestCredit(a, slip) ==
  /\ Len(log) < MaxOperations
  /\ slip = 0 => a.action = "consume"
  /\ ConsumeCredit(a.passport, a.amount + slip, a, a.policy)

Next == \E a \in Actions, slip \in Slips : GrantTestCredit(a, slip) \/ ConsumeTestCredit(a, slip)

Spec == Init /\ [][Next]_vars

-----------------------------------------------------------------------------
(* Reports and their audit, with or without (the empty set) a policy.  A   *)
(* report that consumes more than it grants is not valid.                  *)

\* The sum of the first n amounts.
SumTo(amounts, n) ==
  LET sum[i \in 0 .. n] == IF i = 0 THEN 0 ELSE sum[i - 1] + amounts[i] IN sum[n]

Total(actions, type) ==
  SumTo([i \in DOMAIN actions |-> IF actions[i].action = type THEN actions[i].amount ELSE 0],
        Len(actions))

ValidReport(r, given) ==
  /\ \A policy \in given : r.policy = policy
  /\ \A i \in DOMAIN r.actions :
       LET a == r.actions[i]
       IN  /\ ValidAction(a)
           /\ \A policy \in given : ValidUnder(a, policy)
           /\ a.passport = r.passport /\ a.owner = r.owner /\ a.policy = r.policy
  /\ IsInjective(r.actions)
  /\ Total(r.actions, "grant") >= Total(r.actions, "consume")

DeviatingEventMatched(e, a) == e.policy = a.policy

EventMatched(e, a) == e.amount = a.amount /\ e.policy = a.policy

\* The first event of the action's kind, passport and hash.
ActionLinked(a, events) ==
  LET found == {i \in DOMAIN events : /\ events[i].name = a.action
                                      /\ events[i].passport = a.passport
                                      /\ events[i].hash = a}
  IN  IsBond(a) \/ a.action = "deny" \/ (found # {} /\ EventMatched(events[Min(found)], a))

CreditLinked(r, given, events) ==
  /\ ValidReport(r, given)
  /\ \A i \in DOMAIN r.actions : ActionLinked(r.actions[i], events)

-----------------------------------------------------------------------------
Candidates == {log[i].hash : i \in DOMAIN log} \cup {a \in Actions : a.action = "deny"}

\* Other actions than these cannot pass.
ReportsOf(p, owner, policy) ==
  LET own == {a \in Candidates : a.passport = p /\ a.owner = owner /\ a.policy = policy}
  IN  [passport : {p}, owner : {owner}, policy : {policy}, actions : BoundedSeq(own, MaxActions)]

Reports == UNION {ReportsOf(p, owner, policy) : p \in Passports, owner \in Owners,
                                                policy \in Policies}

Ranges == {SubSeq(log, first, last) : first, last \in 1 .. Len(log)}

OperationsOf(p) == {i \in DOMAIN log : log[i].passport = p}

Moved(p, name) ==
  SumTo([i \in DOMAIN log |-> IF i \in OperationsOf(p) /\ log[i].name = name
                              THEN log[i].amount ELSE 0], Len(log))

\* However often an action is sent again, as a grant or as a consumption, with a right
\* or a wrong amount, it moves credit once.
EachActionOnce == \A i, j \in DOMAIN log : log[i].hash = log[j].hash => i = j

\* A balance is what the ledger's events add up to and is never overdrawn.
BalanceIsHistory ==
  \A p \in Passports :
    /\ credits[p] = [granted |-> Moved(p, "grant"), consumed |-> Moved(p, "consume"),
                     balance |-> Moved(p, "grant") - Moved(p, "consume"),
                     operations |-> Cardinality(OperationsOf(p))]
    /\ credits[p].balance >= 0

\* Whatever range of the log is audited, the ledger did all that a passing report
\* lists, and if it did nothing else for the passport, the report's balance is the
\* ledger's.  A report of bonds claims nothing of the ledger.
AuditedCreditWasMoved ==
  \A events \in Ranges : \A r \in Reports :
    LET listed == {i \in DOMAIN r.actions : ~IsBond(r.actions[i]) /\ r.actions[i].action # "deny"}
    IN  CreditLinked(r, {}, events) =>
          /\ Cardinality(listed) <= credits[r.passport].operations
          /\ (/\ listed = DOMAIN r.actions
              /\ Cardinality(listed) = credits[r.passport].operations) =>
               Total(r.actions, "grant") - Total(r.actions, "consume")
                 = credits[r.passport].balance

\* Where a policy blocks a passport or the owner that a report names, or asks for a
\* review, no report that passes with this policy lists a grant or a consumption,
\* although the ledger takes them and a file made without the policy has them.
GatesHoldInAudit ==
  \A events \in Ranges : \A r \in Reports, policy \in Policies :
    CreditLinked(r, {policy}, events) =>
      \A i \in DOMAIN r.actions :
        r.actions[i].action = "deny" <=>
          \E subject \in {r.passport, r.owner} : policy[subject] # "eligible"

\* The ledger's balances are its history, and an audited report is part of it that
\* the policy allowed.
CreditAgrees == BalanceIsHistory /\ AuditedCreditWasMoved /\ GatesHoldInAudit

=============================================================================

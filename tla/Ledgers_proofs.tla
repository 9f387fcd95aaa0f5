---------------------------- MODULE Ledgers_proofs ----------------------------
(***************************************************************************)
(* The ledgers of test credit, of reputation and of unit kinds, and the    *)
(* audit of verification work.  The first moves credit once for an action  *)
(* and never overdraws an account, for any passports, policies and         *)
(* mistyped amounts.  What the second shows of a report that passes the    *)
(* audit is what the passport's owner has earned.  What the audit of kinds *)
(* concludes from files is so, and that of work passes on receipts of a    *)
(* match only, for any kinds, texts, digests, files and events.            *)
(***************************************************************************)
EXTENDS TestCredit, AgentReputation, UnitKind, ModuleVerification, LogLemmas,
        FiniteSetTheorems

-----------------------------------------------------------------------------
(* Test credit. *)

Account == [granted : Nat, consumed : Nat, balance : Nat, operations : Nat]

Event == [name : {"grant", "consume"}, passport : Passports, amount : Nat, hash : Actions,
          policy : Policies]

TypeOK == /\ credits \in [Passports -> Account]
          /\ used \subseteq Actions
          /\ log \in Seq(Event)

\* What EachActionOnce needs: the hash of every event is marked as used.
LoggedIsUsed == \A i \in DOMAIN log : log[i].hash \in used

\* An account's balance is the rest of what was granted.
Rest == \A p \in Passports : credits[p].balance = credits[p].granted - credits[p].consumed

IInv == TypeOK /\ LoggedIsUsed /\ EachActionOnce /\ Rest

\* The amounts a reason allows are numbers,
LEMMA AmountsAreNat ==
  ASSUME NEW reason
  PROVE  Amounts(reason) \subseteq Nat
  BY DEF Amounts

\* and so an action has the fields the ledger is called with.
LEMMA ActionTypes ==
  ASSUME NEW a \in Actions
  PROVE  /\ a.passport \in Passports /\ a.policy \in Policies /\ a.amount \in Nat
  BY AmountsAreNat DEF Actions

\* An event with a hash that was not used keeps the log free of repetitions.
LEMMA LogStaysInjective ==
  ASSUME TypeOK, LoggedIsUsed, EachActionOnce,
         NEW e \in Event, e.hash \notin used,
         log' = Append(log, e), used' = used \cup {e.hash}
  PROVE  log' \in Seq(Event) /\ LoggedIsUsed' /\ EachActionOnce'
<1>1. /\ log \in Seq(Event) /\ log' \in Seq(Event)
      /\ DOMAIN log = 1 .. Len(log) /\ Len(log) \in Nat
      /\ DOMAIN log' = 1 .. Len(log) + 1
      /\ \A i \in DOMAIN log : log'[i] = log[i]
      /\ log'[Len(log) + 1] = e
  BY DEF TypeOK
<1>2. \A i \in DOMAIN log : log[i].hash # e.hash
  BY DEF LoggedIsUsed
<1>3. LoggedIsUsed'
  BY <1>1 DEF LoggedIsUsed
<1>4. EachActionOnce'
  BY <1>1, <1>2 DEF EachActionOnce
<1>. QED
  BY <1>1, <1>3, <1>4

\* A grant of any amount keeps the invariant,
LEMMA GrantKeeps ==
  ASSUME IInv, NEW p \in Passports, NEW amount \in Int, NEW hash \in Actions,
         NEW policy \in Policies, GrantCredit(p, amount, hash, policy)
  PROVE  IInv'
<1>. DEFINE account == [granted |-> credits[p].granted + amount,
                        consumed |-> credits[p].consumed,
                        balance |-> credits[p].balance + amount,
                        operations |-> credits[p].operations + 1]
            e == [name |-> "grant", passport |-> p, amount |-> amount, hash |-> hash,
                  policy |-> policy]
<1>1. credits \in [Passports -> Account] /\ amount \in Nat /\ hash \notin used
  BY DEF IInv, TypeOK, GrantCredit, ValidOperation
<1>2. credits' = [credits EXCEPT ![p] = account] /\ account \in Account
  BY <1>1 DEF GrantCredit, Account
<1>3. account.balance = account.granted - account.consumed
  BY <1>1 DEF IInv, Rest, Account
<1>4. e \in Event /\ e.hash = hash
  BY <1>1 DEF Event
<1>5. log' = Append(log, e) /\ used' = used \cup {hash}
  BY DEF GrantCredit
<1>. HIDE DEF account, e
<1>6. credits' \in [Passports -> Account] /\ Rest'
  BY <1>1, <1>2, <1>3 DEF IInv, Rest
<1>7. log' \in Seq(Event) /\ LoggedIsUsed' /\ EachActionOnce'
  BY <1>1, <1>4, <1>5, LogStaysInjective DEF IInv
<1>. QED
  BY <1>5, <1>6, <1>7 DEF IInv, TypeOK

\* and so does a consumption, which the balance must cover.
LEMMA ConsumeKeeps ==
  ASSUME IInv, NEW p \in Passports, NEW amount \in Int, NEW hash \in Actions,
         NEW policy \in Policies, ConsumeCredit(p, amount, hash, policy)
  PROVE  IInv'
<1>. DEFINE account == [granted |-> credits[p].granted,
                        consumed |-> credits[p].consumed + amount,
                        balance |-> credits[p].balance - amount,
                        operations |-> credits[p].operations + 1]
            e == [name |-> "consume", passport |-> p, amount |-> amount, hash |-> hash,
                  policy |-> policy]
<1>1. /\ credits \in [Passports -> Account] /\ amount \in Nat /\ hash \notin used
      /\ credits[p].balance >= amount
  BY DEF IInv, TypeOK, ConsumeCredit, ValidOperation
<1>2. credits' = [credits EXCEPT ![p] = account] /\ account \in Account
  BY <1>1 DEF ConsumeCredit, Account
<1>3. account.balance = account.granted - account.consumed
  BY <1>1 DEF IInv, Rest, Account
<1>4. e \in Event /\ e.hash = hash
  BY <1>1 DEF Event
<1>5. log' = Append(log, e) /\ used' = used \cup {hash}
  BY DEF ConsumeCredit
<1>. HIDE DEF account, e
<1>6. credits' \in [Passports -> Account] /\ Rest'
  BY <1>1, <1>2, <1>3 DEF IInv, Rest
<1>7. log' \in Seq(Event) /\ LoggedIsUsed' /\ EachActionOnce'
  BY <1>1, <1>4, <1>5, LogStaysInjective DEF IInv
<1>. QED
  BY <1>5, <1>6, <1>7 DEF IInv, TypeOK

\* IInv is inductive: every command ends in one of the two, or in neither.
LEMMA Inductive == Spec => []IInv
<1>1. Init => IInv
  BY DEF Init, IInv, TypeOK, LoggedIsUsed, EachActionOnce, Rest, Account
<1>2. IInv /\ [Next]_vars => IInv'
  <2>. SUFFICES ASSUME IInv, [Next]_vars PROVE IInv'
    OBVIOUS
  <2>1. ASSUME NEW a \in Actions, NEW slip \in Slips, GrantTestCredit(a, slip)
        PROVE  IInv'
    BY <2>1, ActionTypes, GrantKeeps, CreditAssumption DEF GrantTestCredit
  <2>2. ASSUME NEW a \in Actions, NEW slip \in Slips, ConsumeTestCredit(a, slip)
        PROVE  IInv'
    BY <2>2, ActionTypes, ConsumeKeeps, CreditAssumption DEF ConsumeTestCredit
  <2>3. CASE UNCHANGED vars
    BY <2>3 DEF vars, IInv, TypeOK, LoggedIsUsed, EachActionOnce, Rest
  <2>. QED
    BY <2>1, <2>2, <2>3 DEF Next
<1>. QED
  BY <1>1, <1>2, PTL DEF Spec

\* The ledger's types: in particular no account is ever below zero.
THEOREM CreditTypes == Spec => []TypeOK
  BY Inductive, PTL DEF IInv

\* An action moves credit at most once, whichever of the two operations it is sent with,
\* with whatever amount, and however often.
THEOREM CreditMovesOnce == Spec => []EachActionOnce
  BY Inductive, PTL DEF IInv

\* Where the policy that a report is audited with asks for a review or blocks, a report
\* that passes has denials only; and where it does not, it has none.
LEMMA GatesAreKept == GatesHoldInAudit
<1>. SUFFICES ASSUME NEW events \in Ranges, NEW r \in Reports, NEW policy \in Policies,
                     CreditLinked(r, {policy}, events), NEW i \in DOMAIN r.actions
              PROVE  r.actions[i].action = "deny" <=>
                       \E subject \in {r.passport, r.owner} : policy[subject] # "eligible"
  BY DEF GatesHoldInAudit
<1>. DEFINE a == r.actions[i]
<1>1. /\ ValidAction(a) /\ a.gate = GateFor(a.passport, a.owner, policy)
      /\ a.passport = r.passport /\ a.owner = r.owner
  BY DEF CreditLinked, ValidReport, ValidUnder
<1>2. r.passport \in Passports /\ r.owner \in Owners
  <2>1. PICK p \in Passports, owner \in Owners, given \in Policies :
           r \in ReportsOf(p, owner, given)
    BY DEF Reports
  <2>. QED
    BY <2>1 DEF ReportsOf
<1>3. policy[r.passport] \in Gates /\ policy[r.owner] \in Gates
  BY <1>2, CreditAssumption
<1>4. a.gate = "eligible" <=> policy[r.passport] = "eligible" /\ policy[r.owner] = "eligible"
  BY <1>1, <1>3 DEF GateFor, Gates
<1>. HIDE DEF a
<1>5. a.gate = "eligible" <=> a.action # "deny"
  BY <1>1 DEF ValidAction
<1>. QED
  BY <1>4, <1>5 DEF a

-----------------------------------------------------------------------------
(* Sums of amounts. *)

LEMMA SumGrows ==
  ASSUME NEW N \in Nat, NEW f, \A n \in 1 .. N : f[n] \in Int
  PROVE  /\ SumTo(f, 0) = 0
         /\ \A n \in 0 .. N : SumTo(f, n) \in Int
         /\ \A n \in 1 .. N : SumTo(f, n) = SumTo(f, n - 1) + f[n]
<1>. DEFINE step == [n \in 1 .. N |-> [x \in Int |-> x + f[n]]]
<1>1. PICK s \in [0 .. N -> Int] : s[0] = 0 /\ \A n \in 1 .. N : s[n] = s[n - 1] + f[n]
  <2>1. step \in Steps(Int, N)
    BY DEF Steps
  <2>2. \A n \in 1 .. N : \A x \in Int : step[n][x] = x + f[n]
    OBVIOUS
  <2>. HIDE DEF step
  <2>3. \E s \in [0 .. N -> Int] : Follows(s, 0, N, step)
    <3>1. 0 \in Int
      OBVIOUS
    <3>. QED
      BY <2>1, <3>1, StepByStep
  <2>4. PICK s \in [0 .. N -> Int] : Follows(s, 0, N, step)
    BY <2>3
  <2>5. ASSUME NEW n \in 1 .. N PROVE s[n] = s[n - 1] + f[n]
    <3>1. s[n - 1] \in Int
      OBVIOUS
    <3>. QED
      BY <2>2, <2>4, <3>1 DEF Follows
  <2>. QED
    BY <2>4, <2>5 DEF Follows
<1>2. ASSUME NEW n \in 0 .. N PROVE SumTo(f, n) = s[n]
  <2>. DEFINE Is(t) == t = [i \in 0 .. n |-> IF i = 0 THEN 0 ELSE t[i - 1] + f[i]]
              sum == CHOOSE t : Is(t)
  <2>1. Is([i \in 0 .. n |-> s[i]])
    BY <1>1
  <2>2. \E t : Is(t)
    BY <2>1
  <2>3. Is(sum)
    <3>. HIDE DEF Is
    <3>. QED
      BY <2>2
  <2>4. SumTo(f, n) = sum[n]
    BY DEF SumTo
  <2>. HIDE DEF sum
  <2>5. sum[0] = 0 /\ \A i \in 1 .. n : sum[i] = sum[i - 1] + f[i]
    BY <2>3
  <2>. HIDE DEF Is
  <2>. DEFINE T == {i \in Nat : i <= n => sum[i] = s[i]}
  <2>6. 0 \in T
    BY <1>1, <2>5
  <2>7. ASSUME NEW i \in T PROVE i + 1 \in T
    <3>1. CASE i + 1 <= n
      <4>1. i + 1 \in 1 .. n /\ i + 1 \in 1 .. N /\ (i + 1) - 1 = i /\ sum[i] = s[i]
        BY <3>1
      <4>2. sum[i + 1] = sum[i] + f[i + 1] /\ s[i + 1] = s[i] + f[i + 1]
        BY <1>1, <2>5, <4>1
      <4>. QED
        BY <4>1, <4>2
    <3>. QED
      BY <3>1
  <2>8. T = Nat
    <3>. HIDE DEF T
    <3>1. T \in SUBSET Nat
      BY DEF T
    <3>. QED
      BY <2>6, <2>7, <3>1, Induction
  <2>. QED
    BY <2>4, <2>8
<1>3. ASSUME NEW n \in 1 .. N PROVE SumTo(f, n) = SumTo(f, n - 1) + f[n]
  BY <1>1, <1>2
<1>. QED
  BY <1>1, <1>2, <1>3

\* If one amount is changed, the sum changes as much.
LEMMA SumChanges ==
  ASSUME NEW N \in Nat, NEW f, NEW g, NEW j \in Nat,
         \A n \in 1 .. N : f[n] \in Int /\ g[n] \in Int /\ (n # j => g[n] = f[n])
  PROVE  /\ j \in 1 .. N => SumTo(g, N) = SumTo(f, N) + (g[j] - f[j])
         /\ j \notin 1 .. N => SumTo(g, N) = SumTo(f, N)
<1>. DEFINE More(n) == IF j \in 1 .. n THEN g[j] - f[j] ELSE 0
            T == {n \in Nat : n <= N => SumTo(g, n) = SumTo(f, n) + More(n)}
<1>1. /\ SumTo(f, 0) = 0 /\ SumTo(g, 0) = 0
      /\ \A n \in 0 .. N : SumTo(f, n) \in Int /\ SumTo(g, n) \in Int
      /\ \A n \in 1 .. N : /\ SumTo(f, n) = SumTo(f, n - 1) + f[n]
                           /\ SumTo(g, n) = SumTo(g, n - 1) + g[n]
  BY SumGrows
<1>2. 0 \in T
  BY <1>1
<1>3. ASSUME NEW n \in T PROVE n + 1 \in T
  <2>1. CASE n + 1 <= N
    <3>1. n + 1 \in 1 .. N /\ n \in 0 .. N /\ (n + 1) - 1 = n
      BY <2>1
    <3>2. /\ SumTo(g, n) = SumTo(f, n) + More(n)
          /\ SumTo(g, n + 1) = SumTo(g, n) + g[n + 1]
          /\ SumTo(f, n + 1) = SumTo(f, n) + f[n + 1]
      BY <1>1, <3>1
    <3>3. g[n + 1] = f[n + 1] + (More(n + 1) - More(n)) /\ More(n) \in Int /\ More(n + 1) \in Int
      BY <3>1
    <3>4. /\ SumTo(f, n) \in Int /\ SumTo(g, n) \in Int /\ f[n + 1] \in Int /\ g[n + 1] \in Int
      BY <1>1, <3>1
    <3>. HIDE DEF More
    <3>5. SumTo(g, n + 1) = SumTo(f, n + 1) + More(n + 1)
      BY <3>2, <3>3, <3>4
    <3>. QED
      BY <3>5
  <2>. QED
    BY <2>1
<1>4. T = Nat
  <2>. HIDE DEF T
  <2>1. T \in SUBSET Nat
    BY DEF T
  <2>. QED
    BY <1>2, <1>3, <2>1, Induction
<1>5. SumTo(g, N) = SumTo(f, N) + More(N) /\ SumTo(f, N) \in Int
  BY <1>1, <1>4
<1>. QED
  BY <1>5

\* A sum of zeros.
LEMMA SumOfZeros ==
  ASSUME NEW N \in Nat, NEW f, \A n \in 1 .. N : f[n] = 0
  PROVE  SumTo(f, N) = 0
<1>. DEFINE T == {n \in Nat : n <= N => SumTo(f, n) = 0}
<1>1. /\ SumTo(f, 0) = 0
      /\ \A n \in 1 .. N : SumTo(f, n) = SumTo(f, n - 1) + f[n]
  BY SumGrows
<1>2. 0 \in T
  BY <1>1
<1>3. ASSUME NEW n \in T PROVE n + 1 \in T
  <2>1. CASE n + 1 <= N
    <3>1. n + 1 \in 1 .. N /\ (n + 1) - 1 = n /\ SumTo(f, n) = 0
      BY <2>1
    <3>2. SumTo(f, n + 1) = 0 + 0
      BY <1>1, <3>1
    <3>. QED
      BY <3>2
  <2>. QED
    BY <2>1
<1>4. T = Nat
  <2>. HIDE DEF T
  <2>1. T \in SUBSET Nat
    BY DEF T
  <2>. QED
    BY <1>2, <1>3, <2>1, Induction
<1>. QED
  BY <1>4

\* m says where among N amounts each of K amounts is; the others are zero.
Rearranges(m, S, f, K, g, N) ==
  /\ S \in SUBSET (1 .. N)
  /\ m \in Injection(1 .. K, S) /\ m \in Surjection(1 .. K, S)
  /\ \A i \in 1 .. K : f[i] \in Int /\ g[m[i]] = f[i]
  /\ \A j \in 1 .. N : g[j] \in Int /\ (j \notin S => g[j] = 0)

\* Amounts have the same sum in another order, and with zeros between them.
LEMMA SumRearranged ==
  ASSUME NEW K \in Nat, NEW N \in Nat, NEW f, NEW g, NEW S, NEW m, Rearranges(m, S, f, K, g, N)
  PROVE  SumTo(f, K) = SumTo(g, N)
<1>. USE DEF Rearranges
<1>. DEFINE Part(k) == [j \in 1 .. N |-> IF \E i \in 1 .. k : m[i] = j THEN g[j] ELSE 0]
            T == {k \in Nat : k <= K => SumTo(f, k) = SumTo(Part(k), N)}
<1>1. /\ m \in [1 .. K -> S]
      /\ \A i, k \in 1 .. K : m[i] = m[k] => i = k
      /\ \A j \in S : \E i \in 1 .. K : m[i] = j
  BY DEF Injection, IsInjective, Surjection
<1>2. \A k \in Nat : \A j \in 1 .. N : Part(k)[j] \in Int
  OBVIOUS
<1>3. 0 \in T
  <2>1. \A j \in 1 .. N : Part(0)[j] = 0
    OBVIOUS
  <2>. HIDE DEF Part
  <2>2. SumTo(Part(0), N) = 0
    BY <2>1, SumOfZeros
  <2>3. SumTo(f, 0) = 0
    BY SumGrows
  <2>. QED
    BY <2>2, <2>3
<1>4. ASSUME NEW k \in T PROVE k + 1 \in T
  <2>1. CASE k + 1 <= K
    <3>. DEFINE j == m[k + 1]
                before == Part(k)
                after == Part(k + 1)
    <3>1. k + 1 \in 1 .. K /\ (k + 1) - 1 = k /\ j \in 1 .. N /\ j \in Nat
      <4>1. k + 1 \in 1 .. K /\ (k + 1) - 1 = k
        BY <2>1
      <4>2. j \in S
        BY <1>1, <4>1
      <4>. HIDE DEF j
      <4>3. j \in 1 .. N /\ j \in Nat
        BY <4>2
      <4>. QED
        BY <4>1, <4>3
    <3>2. \A i \in 1 .. k : m[i] # j
      BY <1>1, <3>1
    <3>3. before[j] = 0 /\ after[j] = f[k + 1]
      BY <3>1, <3>2
    <3>4. \A n \in 1 .. N : n # j => after[n] = before[n]
      BY <3>1
    <3>5. \A n \in 1 .. N : before[n] \in Int /\ after[n] \in Int
      BY <1>2
    <3>6. SumTo(f, k) = SumTo(before, N)
      BY <2>1
    <3>. HIDE DEF Part, before, after, j
    <3>7. SumTo(after, N) = SumTo(before, N) + (after[j] - before[j])
      <4>. HIDE DEF Rearranges
      <4>1. \A n \in 1 .. N : before[n] \in Int /\ after[n] \in Int
                             /\ (n # j => after[n] = before[n])
        BY <3>4, <3>5
      <4>. QED
        BY <3>1, <4>1, SumChanges
    <3>8. SumTo(f, k + 1) = SumTo(f, k) + f[k + 1]
      BY <3>1, SumGrows
    <3>9. SumTo(before, N) \in Int /\ f[k + 1] \in Int
      <4>1. \A n \in 0 .. N : SumTo(before, n) \in Int
        BY <3>5, SumGrows
      <4>. QED
        BY <3>1, <4>1
    <3>10. SumTo(f, k + 1) = SumTo(after, N)
      BY <3>3, <3>6, <3>7, <3>8, <3>9
    <3>. QED
      BY <3>10 DEF after
  <2>. QED
    BY <2>1
<1>5. T = Nat
  <2>. HIDE DEF T
  <2>1. T \in SUBSET Nat
    BY DEF T
  <2>. QED
    BY <1>3, <1>4, <2>1, Induction
<1>6. SumTo(f, K) = SumTo(Part(K), N)
  <2>. HIDE DEF Part
  <2>. QED
    BY <1>5
<1>7. \A j \in 1 .. N : Part(K)[j] = g[j]
  BY <1>1
<1>. DEFINE whole == Part(K)
<1>8. \A j \in 1 .. N : whole[j] \in Int /\ whole[j] = g[j]
  BY <1>7
<1>. HIDE DEF Part, T, whole
<1>9. SumTo(g, N) = SumTo(whole, N)
  BY <1>8, SumChanges
<1>. QED
  BY <1>6, <1>9 DEF whole

-----------------------------------------------------------------------------
(* The balance is what the events add up to. *)

AmountsOf(p, name) ==
  [i \in DOMAIN log |-> IF i \in OperationsOf(p) /\ log[i].name = name THEN log[i].amount ELSE 0]

CreditInv == IInv /\ BalanceIsHistory

\* What is logged of a passport, and how often, grows with its own events only.
LEMMA HistoryGrows ==
  ASSUME TypeOK, NEW e \in Event, log' = Append(log, e), NEW p \in Passports, NEW name
  PROVE  /\ Moved(p, name) \in Int
         /\ Moved(p, name)' = Moved(p, name)
              + IF e.passport = p /\ e.name = name THEN e.amount ELSE 0
         /\ Cardinality(OperationsOf(p)) \in Nat
         /\ Cardinality(OperationsOf(p))' = Cardinality(OperationsOf(p))
              + IF e.passport = p THEN 1 ELSE 0
<1>. DEFINE N == Len(log)
            f == AmountsOf(p, name)
            g == AmountsOf(p, name)'
            S == OperationsOf(p)
<1>1. /\ N \in Nat /\ DOMAIN log = 1 .. N /\ \A i \in 1 .. N : log[i].amount \in Nat
  <2>1. log \in Seq(Event) /\ N \in Nat /\ DOMAIN log = 1 .. N
    BY DEF TypeOK
  <2>. HIDE DEF N
  <2>2. ASSUME NEW i \in 1 .. N PROVE log[i].amount \in Nat
    <3>1. log[i] \in Event
      BY <2>1
    <3>. QED
      BY <3>1 DEF Event
  <2>. QED
    BY <2>1, <2>2
<1>2. /\ Len(log)' = N + 1 /\ DOMAIN log' = 1 .. N + 1
      /\ \A i \in 1 .. N : log'[i] = log[i]
      /\ log'[N + 1] = e /\ e.amount \in Nat
  BY DEF TypeOK, Event
<1>3. OperationsOf(p)' = IF e.passport = p THEN S \cup {N + 1} ELSE S
  BY <1>1, <1>2 DEF OperationsOf
<1>4. /\ IsFiniteSet(S) /\ N + 1 \notin S
  <2>1. S \subseteq 1 .. N /\ 0 \in Int /\ 1 \in Int /\ N \in Int
    BY <1>1 DEF OperationsOf
  <2>2. IsFiniteSet(1 .. N)
    BY <2>1, FS_Interval
  <2>. HIDE DEF S, N
  <2>3. S \in SUBSET (1 .. N) /\ N + 1 \notin 1 .. N
    BY <1>1, <2>1
  <2>. QED
    BY <2>2, <2>3, FS_Subset
<1>5. /\ \A i \in 1 .. N : f[i] \in Int /\ g[i] = f[i]
      /\ g[N + 1] = IF e.passport = p /\ e.name = name THEN e.amount ELSE 0
  BY <1>1, <1>2 DEF AmountsOf, OperationsOf
<1>6. Moved(p, name) = SumTo(f, N) /\ Moved(p, name)' = SumTo(g, N + 1)
  BY <1>2 DEF Moved, AmountsOf
<1>. HIDE DEF f, g, N, S
<1>7. SumTo(g, N) = SumTo(f, N) /\ SumTo(f, N) \in Int
  <2>1. \A i \in 1 .. N : f[i] \in Int /\ g[i] \in Int /\ g[i] = f[i]
    BY <1>5
  <2>2. 0 \in Nat /\ 0 \notin 1 .. N /\ N \in 0 .. N
    BY <1>1
  <2>3. SumTo(g, N) = SumTo(f, N)
    BY <1>1, <2>1, <2>2, SumChanges
  <2>4. \A n \in 0 .. N : SumTo(f, n) \in Int
    BY <1>1, <2>1, SumGrows
  <2>. QED
    BY <2>2, <2>3, <2>4
<1>8. SumTo(g, N + 1) = SumTo(g, N) + g[N + 1]
  <2>1. N + 1 \in Nat /\ N + 1 \in 1 .. N + 1 /\ (N + 1) - 1 = N
    BY <1>1
  <2>2. \A i \in 1 .. N + 1 : g[i] \in Int
    BY <1>1, <1>2, <1>5
  <2>3. \A n \in 1 .. N + 1 : SumTo(g, n) = SumTo(g, n - 1) + g[n]
    BY <2>1, <2>2, SumGrows
  <2>. QED
    BY <2>1, <2>3
<1>9. Cardinality(S) \in Nat /\ Cardinality(S \cup {N + 1}) = Cardinality(S) + 1
  BY <1>4, FS_CardinalityType, FS_AddElement
<1>10. Cardinality(OperationsOf(p))' = Cardinality(S) + IF e.passport = p THEN 1 ELSE 0
  BY <1>3, <1>9
<1>. QED
  BY <1>5, <1>6, <1>7, <1>8, <1>9, <1>10 DEF S

\* An operation moves what its event tells.
LEMMA OperationKeepsHistory ==
  ASSUME IInv, BalanceIsHistory, IInv', NEW p \in Passports, NEW amount \in Nat,
         NEW e \in Event, log' = Append(log, e), e.passport = p, e.amount = amount,
         NEW account \in Account, credits' = [credits EXCEPT ![p] = account],
         account.granted = credits[p].granted + IF e.name = "grant" THEN amount ELSE 0,
         account.consumed = credits[p].consumed + IF e.name = "consume" THEN amount ELSE 0,
         account.balance = credits[p].balance + IF e.name = "grant" THEN amount ELSE -amount,
         account.operations = credits[p].operations + 1
  PROVE  BalanceIsHistory'
<1>. SUFFICES ASSUME NEW q \in Passports
              PROVE
    /\ credits'[q] = [granted |-> Moved(q, "grant")', consumed |-> Moved(q, "consume")',
                      balance |-> Moved(q, "grant")' - Moved(q, "consume")',
                      operations |-> Cardinality(OperationsOf(q))']
    /\ credits'[q].balance >= 0
  BY DEF BalanceIsHistory
<1>1. TypeOK /\ TypeOK' /\ e.name \in {"grant", "consume"}
  BY DEF IInv, Event
<1>2. credits'[q].balance >= 0
  BY <1>1 DEF TypeOK, Account
<1>. DEFINE granted == Moved(q, "grant")
            consumed == Moved(q, "consume")
            count == Cardinality(OperationsOf(q))
<1>3. /\ granted \in Int /\ consumed \in Int /\ count \in Nat
      /\ Moved(q, "grant")' = granted + IF e.passport = q /\ e.name = "grant" THEN amount ELSE 0
      /\ Moved(q, "consume")' = consumed
           + IF e.passport = q /\ e.name = "consume" THEN amount ELSE 0
      /\ Cardinality(OperationsOf(q))' = count + IF e.passport = q THEN 1 ELSE 0
  BY <1>1, HistoryGrows
<1>4. credits[q] = [granted |-> granted, consumed |-> consumed,
                    balance |-> granted - consumed, operations |-> count]
  BY DEF BalanceIsHistory
<1>5. q # p => credits'[q] = credits[q]
  BY <1>1 DEF TypeOK
<1>6. q = p => credits'[q] =
        [granted |-> account.granted, consumed |-> account.consumed,
         balance |-> account.balance, operations |-> account.operations]
  BY <1>1 DEF TypeOK, Account
<1>. HIDE DEF granted, consumed, count
<1>7. CASE q # p
  BY <1>2, <1>3, <1>4, <1>5, <1>7
<1>8. CASE q = p /\ e.name = "grant"
  BY <1>2, <1>3, <1>4, <1>6, <1>8
<1>9. CASE q = p /\ e.name = "consume"
  BY <1>2, <1>3, <1>4, <1>6, <1>9
<1>. QED
  BY <1>1, <1>7, <1>8, <1>9

LEMMA GrantKeepsHistory ==
  ASSUME IInv, BalanceIsHistory, IInv', NEW p \in Passports, NEW amount \in Int,
         NEW hash \in Actions, NEW policy \in Policies, GrantCredit(p, amount, hash, policy)
  PROVE  BalanceIsHistory'
<1>. DEFINE account == [granted |-> credits[p].granted + amount,
                        consumed |-> credits[p].consumed,
                        balance |-> credits[p].balance + amount,
                        operations |-> credits[p].operations + 1]
            e == [name |-> "grant", passport |-> p, amount |-> amount, hash |-> hash,
                  policy |-> policy]
<1>1. credits \in [Passports -> Account] /\ amount \in Nat
  BY DEF IInv, TypeOK, GrantCredit, ValidOperation
<1>2. credits' = [credits EXCEPT ![p] = account] /\ account \in Account
  BY <1>1 DEF GrantCredit, Account
<1>3. e \in Event /\ e.passport = p /\ e.amount = amount /\ e.name = "grant"
  BY <1>1 DEF Event
<1>4. log' = Append(log, e)
  BY DEF GrantCredit
<1>5. /\ account.granted = credits[p].granted + IF e.name = "grant" THEN amount ELSE 0
      /\ account.consumed = credits[p].consumed + IF e.name = "consume" THEN amount ELSE 0
      /\ account.balance = credits[p].balance + IF e.name = "grant" THEN amount ELSE -amount
      /\ account.operations = credits[p].operations + 1
  BY <1>1, <1>3 DEF Account
<1>. HIDE DEF account, e
<1>. QED
  BY <1>1, <1>2, <1>3, <1>4, <1>5, OperationKeepsHistory

LEMMA ConsumeKeepsHistory ==
  ASSUME IInv, BalanceIsHistory, IInv', NEW p \in Passports, NEW amount \in Int,
         NEW hash \in Actions, NEW policy \in Policies, ConsumeCredit(p, amount, hash, policy)
  PROVE  BalanceIsHistory'
<1>. DEFINE account == [granted |-> credits[p].granted,
                        consumed |-> credits[p].consumed + amount,
                        balance |-> credits[p].balance - amount,
                        operations |-> credits[p].operations + 1]
            e == [name |-> "consume", passport |-> p, amount |-> amount, hash |-> hash,
                  policy |-> policy]
<1>1. credits \in [Passports -> Account] /\ amount \in Nat /\ credits[p].balance >= amount
  BY DEF IInv, TypeOK, ConsumeCredit, ValidOperation
<1>2. credits' = [credits EXCEPT ![p] = account] /\ account \in Account
  BY <1>1 DEF ConsumeCredit, Account
<1>3. e \in Event /\ e.passport = p /\ e.amount = amount /\ e.name = "consume"
  BY <1>1 DEF Event
<1>4. log' = Append(log, e)
  BY DEF ConsumeCredit
<1>5. /\ account.granted = credits[p].granted + IF e.name = "grant" THEN amount ELSE 0
      /\ account.consumed = credits[p].consumed + IF e.name = "consume" THEN amount ELSE 0
      /\ account.balance = credits[p].balance + IF e.name = "grant" THEN amount ELSE -amount
      /\ account.operations = credits[p].operations + 1
  BY <1>1, <1>3 DEF Account
<1>. HIDE DEF account, e
<1>. QED
  BY <1>1, <1>2, <1>3, <1>4, <1>5, OperationKeepsHistory

LEMMA CreditInductive == Spec => []CreditInv
<1>1. Init => CreditInv
  <2>. SUFFICES ASSUME Init PROVE CreditInv
    OBVIOUS
  <2>1. IInv
    BY DEF Init, IInv, TypeOK, LoggedIsUsed, EachActionOnce, Rest, Account
  <2>2. /\ log = <<>> /\ Len(log) = 0 /\ DOMAIN log = {}
        /\ credits = [p \in Passports |-> [granted |-> 0, consumed |-> 0, balance |-> 0,
                                           operations |-> 0]]
    BY DEF Init
  <2>3. ASSUME NEW p \in Passports, NEW name PROVE Moved(p, name) = 0
    <3>. DEFINE f == AmountsOf(p, name)
    <3>1. \A n \in 1 .. 0 : f[n] \in Int
      OBVIOUS
    <3>. HIDE DEF f
    <3>2. SumTo(f, 0) = 0
      BY <3>1, SumGrows
    <3>. QED
      BY <2>2, <3>2 DEF Moved, AmountsOf, f
  <2>4. ASSUME NEW p \in Passports PROVE Cardinality(OperationsOf(p)) = 0
    <3>1. OperationsOf(p) = {}
      BY <2>2 DEF OperationsOf
    <3>. QED
      BY <3>1, FS_EmptySet
  <2>5. BalanceIsHistory
    BY <2>2, <2>3, <2>4 DEF BalanceIsHistory
  <2>. QED
    BY <2>1, <2>5 DEF CreditInv
<1>2. CreditInv /\ IInv' /\ [Next]_vars => CreditInv'
  <2>. SUFFICES ASSUME CreditInv, IInv', [Next]_vars PROVE BalanceIsHistory'
    BY DEF CreditInv
  <2>1. ASSUME NEW a \in Actions, NEW slip \in Slips, GrantTestCredit(a, slip)
        PROVE  BalanceIsHistory'
    BY <2>1, ActionTypes, GrantKeepsHistory, CreditAssumption DEF GrantTestCredit, CreditInv
  <2>2. ASSUME NEW a \in Actions, NEW slip \in Slips, ConsumeTestCredit(a, slip)
        PROVE  BalanceIsHistory'
    BY <2>2, ActionTypes, ConsumeKeepsHistory, CreditAssumption DEF ConsumeTestCredit, CreditInv
  <2>3. CASE UNCHANGED vars
    BY <2>3 DEF vars, CreditInv, BalanceIsHistory, Moved, OperationsOf
  <2>. QED
    BY <2>1, <2>2, <2>3 DEF Next
<1>. QED
  BY <1>1, <1>2, Inductive, PTL DEF Spec

-----------------------------------------------------------------------------
(* What an audited report lists was moved. *)

Listed(r) == {i \in DOMAIN r.actions : ~IsBond(r.actions[i]) /\ r.actions[i].action # "deny"}

\* An event that a listed action is linked to.
Did(a, j) == /\ log[j].name = a.action /\ log[j].passport = a.passport
             /\ log[j].hash = a /\ log[j].amount = a.amount

LEMMA ReportTypes ==
  ASSUME TypeOK, NEW r \in Reports
  PROVE  /\ r.passport \in Passports
         /\ Len(r.actions) \in Nat /\ DOMAIN r.actions = 1 .. Len(r.actions)
         /\ \A i \in DOMAIN r.actions : r.actions[i] \in Actions
<1>1. PICK p \in Passports, owner \in Owners, policy \in Policies : r \in ReportsOf(p, owner, policy)
  BY DEF Reports
<1>. DEFINE own == {a \in Candidates : a.passport = p /\ a.owner = owner /\ a.policy = policy}
<1>2. own \subseteq Actions
  <2>1. ASSUME NEW i \in DOMAIN log PROVE log[i].hash \in Actions
    <3>1. log[i] \in Event
      BY DEF TypeOK
    <3>. QED
      BY <3>1 DEF Event
  <2>. QED
    BY <2>1 DEF Candidates
<1>3. r.passport = p /\ r.actions \in BoundedSeq(own, MaxActions)
  BY <1>1 DEF ReportsOf
<1>. HIDE DEF own
<1>4. PICK n \in Nat : r.actions \in [1 .. n -> own]
  BY <1>3 DEF BoundedSeq, SeqOf
<1>5. ASSUME NEW s \in [1 .. n -> own] PROVE s \in Seq(own)
  OBVIOUS
<1>6. r.actions \in Seq(own)
  BY <1>4, <1>5
<1>7. Len(r.actions) \in Nat /\ DOMAIN r.actions = 1 .. Len(r.actions)
  BY <1>6
<1>8. ASSUME NEW i \in DOMAIN r.actions PROVE r.actions[i] \in Actions
  BY <1>2, <1>4
<1>. QED
  BY <1>3, <1>7, <1>8

LEMMA ListedIsLogged ==
  ASSUME TypeOK, NEW events \in Ranges, NEW a \in Actions, ActionLinked(a, events),
         ~IsBond(a), a.action # "deny"
  PROVE  \E j \in OperationsOf(a.passport) : Did(a, j)
<1>1. PICK first \in 1 .. Len(log), last \in 1 .. Len(log) : events = SubSeq(log, first, last)
  BY DEF Ranges
<1>2. events \in Seq(Event) /\ Range(events) \subseteq Range(log)
  BY <1>1, SubRange DEF TypeOK
<1>. DEFINE found == {i \in DOMAIN events : /\ events[i].name = a.action
                                            /\ events[i].passport = a.passport
                                            /\ events[i].hash = a}
            k == Min(found)
<1>3. found # {} /\ EventMatched(events[k], a) /\ found \in SUBSET DOMAIN events
  BY DEF ActionLinked
<1>4. k \in found /\ events[k] \in Range(events)
  <2>. HIDE DEF found
  <2>. QED
    BY <1>2, <1>3, FirstIsOne
<1>. HIDE DEF k
<1>5. events[k].name = a.action /\ events[k].passport = a.passport /\ events[k].hash = a
  BY <1>4
<1>6. PICK j \in DOMAIN log : log[j] = events[k]
  BY <1>2, <1>4 DEF Range
<1>. QED
  BY <1>3, <1>5, <1>6 DEF EventMatched, Did, OperationsOf

LEMMA ReportsAreMoved ==
  ASSUME CreditInv
  PROVE  AuditedCreditWasMoved
<1>. SUFFICES ASSUME NEW events \in Ranges, NEW r \in Reports, CreditLinked(r, {}, events)
              PROVE
    /\ Cardinality(Listed(r)) <= credits[r.passport].operations
    /\ (/\ Listed(r) = DOMAIN r.actions
        /\ Cardinality(Listed(r)) = credits[r.passport].operations) =>
         Total(r.actions, "grant") - Total(r.actions, "consume") = credits[r.passport].balance
  BY DEF AuditedCreditWasMoved, Listed
<1>. DEFINE p == r.passport
            K == Len(r.actions)
            N == Len(log)
            L == Listed(r)
            S == OperationsOf(p)
            m == [i \in L |-> CHOOSE j \in S : Did(r.actions[i], j)]
<1>1. /\ p \in Passports /\ K \in Nat /\ DOMAIN r.actions = 1 .. K
      /\ \A i \in 1 .. K : r.actions[i] \in Actions
      /\ N \in Nat /\ DOMAIN log = 1 .. N /\ TypeOK
  BY ReportTypes DEF CreditInv, IInv, TypeOK
<1>2. /\ \A i \in 1 .. K : r.actions[i].passport = p /\ ActionLinked(r.actions[i], events)
      /\ \A i, k \in 1 .. K : r.actions[i] = r.actions[k] => i = k
  BY <1>1 DEF CreditLinked, ValidReport, IsInjective
<1>3. ASSUME NEW i \in L
      PROVE  m[i] \in S /\ Did(r.actions[i], m[i])
  <2>1. \E j \in S : Did(r.actions[i], j)
    BY <1>1, <1>2, ListedIsLogged DEF Listed
  <2>. HIDE DEF S
  <2>. QED
    BY <2>1
<1>4. m \in [L -> S]
  BY <1>3
<1>5. DOMAIN m = L
  OBVIOUS
<1>. HIDE DEF m
<1>6. m \in Injection(L, S)
  <2>1. ASSUME NEW i \in L, NEW k \in L, m[i] = m[k] PROVE i = k
    BY <1>1, <1>2, <1>3, <2>1 DEF Did, Listed
  <2>. QED
    BY <1>4, <1>5, <2>1 DEF Injection, IsInjective
<1>7. IsFiniteSet(S) /\ S \in SUBSET (1 .. N)
  <2>1. S \in SUBSET (1 .. N)
    BY <1>1 DEF OperationsOf
  <2>2. IsFiniteSet(1 .. N)
    BY <1>1, FS_Interval
  <2>. HIDE DEF S, N
  <2>. QED
    BY <2>1, <2>2, FS_Subset
<1>8. Cardinality(L) <= Cardinality(S) /\ (Cardinality(L) = Cardinality(S) <=> m \in Surjection(L, S))
  <2>. HIDE DEF L, S
  <2>. QED
    BY <1>6, <1>7, FS_Injection
<1>9. /\ credits[p].operations = Cardinality(S)
      /\ credits[p].balance = Moved(p, "grant") - Moved(p, "consume")
  <2>. HIDE DEF p
  <2>1. credits[p] = [granted |-> Moved(p, "grant"), consumed |-> Moved(p, "consume"),
                      balance |-> Moved(p, "grant") - Moved(p, "consume"),
                      operations |-> Cardinality(OperationsOf(p))]
    BY <1>1 DEF CreditInv, BalanceIsHistory
  <2>. QED
    BY <2>1
<1>10. ASSUME L = 1 .. K, Cardinality(L) = Cardinality(S), NEW name
       PROVE  Total(r.actions, name) = Moved(p, name)
  <2>. DEFINE f == [i \in DOMAIN r.actions |-> IF r.actions[i].action = name
                                               THEN r.actions[i].amount ELSE 0]
              g == AmountsOf(p, name)
  <2>1. Total(r.actions, name) = SumTo(f, K) /\ Moved(p, name) = SumTo(g, N)
    BY DEF Total, Moved, AmountsOf
  <2>2. ASSUME NEW i \in 1 .. K PROVE f[i] \in Int
    BY <1>1, ActionTypes
  <2>3. ASSUME NEW j \in 1 .. N PROVE g[j] \in Int /\ (j \notin S => g[j] = 0)
    <3>1. log[j] \in Event
      BY <1>1 DEF TypeOK
    <3>. QED
      BY <1>1, <3>1 DEF AmountsOf, Event
  <2>4. ASSUME NEW i \in 1 .. K PROVE g[m[i]] = f[i]
    BY <1>1, <1>3, <1>7, <1>10 DEF Did, AmountsOf
  <2>5. m \in Injection(1 .. K, S) /\ m \in Surjection(1 .. K, S)
    BY <1>6, <1>8, <1>10
  <2>. HIDE DEF f, g, S, K, N
  <2>6. SumTo(f, K) = SumTo(g, N)
    <3>1. K \in Nat /\ N \in Nat /\ S \in SUBSET (1 .. N)
      BY <1>1, <1>7
    <3>2. /\ \A i \in 1 .. K : f[i] \in Int
          /\ \A j \in 1 .. N : g[j] \in Int /\ (j \notin S => g[j] = 0)
          /\ \A i \in 1 .. K : g[m[i]] = f[i]
      BY <2>2, <2>3, <2>4
    <3>3. Rearranges(m, S, f, K, g, N)
      BY <2>5, <3>1, <3>2 DEF Rearranges
    <3>. QED
      BY <3>1, <3>3, SumRearranged
  <2>. QED
    BY <2>1, <2>6
<1>. QED
  BY <1>1, <1>8, <1>9, <1>10

\* An account is what its events add up to, never overdrawn, and a report that passes the
\* audit of any range of blocks lists only what the ledger did: its balance is the
\* account's if it lists all that was done for the passport, in whatever order, and where
\* the policy that it is audited with asks for a review or blocks it lists denials only.
THEOREM CreditIsTold == Spec => []CreditAgrees
<1>1. CreditInv => CreditAgrees
  BY ReportsAreMoved, GatesAreKept DEF CreditInv, CreditAgrees
<1>. QED
  BY <1>1, CreditInductive, PTL

-----------------------------------------------------------------------------
(* Reputation. *)

CheckpointEvents == [passport : PassportIds,
                     checkpoint : [score : Int, positive : Nat, negative : Nat,
                                   hash : ReputationReports, count : Int]]

ReputationTypes ==
  /\ challenges \in [Challenges -> {"unknown", "submitted"} \cup Sources]
  /\ IsFiniteSet({c \in Challenges : challenges[c] # "unknown"})
  /\ \A p \in PassportIds : reputations[p].count \in Int
  /\ DOMAIN reputations = PassportIds
  /\ checkpoints \in Seq(CheckpointEvents)

\* What the registry shows of a passport is its latest checkpoint.
LatestIsShown ==
  checkpoints # <<>> =>
    LET latest == checkpoints[Len(checkpoints)]
    IN  reputations[latest.passport] = latest.checkpoint

ReputationInv == ReputationTypes /\ LatestIsShown

\* A report counts its records.
LEMMA CountsAreNat ==
  ASSUME NEW r \in ReputationReports
  PROVE  /\ r.passport \in PassportIds
         /\ r.records \in Seq([challenge : Challenges, source : Sources])
         /\ \A i \in DOMAIN r.records : /\ r.records[i].challenge \in Challenges
                                       /\ r.records[i].source \in Sources
         /\ Positive(r) \in Nat /\ Negative(r) \in Nat /\ Score(r) \in Int
<1>1. PICK n \in Nat : r.records \in [1 .. n -> [challenge : Challenges, source : Sources]]
  BY DEF ReputationReports, BoundedSeq, SeqOf
<1>2. IsFiniteSet(1 .. n)
  BY FS_Interval
<1>. DEFINE P == {i \in DOMAIN r.records : DeltaOf(r.records[i].source) > 0}
            N == {i \in DOMAIN r.records : DeltaOf(r.records[i].source) < 0}
<1>3. P \subseteq 1 .. n /\ N \subseteq 1 .. n
  BY <1>1
<1>4. Positive(r) = Cardinality(P) /\ Negative(r) = Cardinality(N)
  BY DEF Positive, Negative
<1>. HIDE DEF P, N
<1>5. IsFiniteSet(P) /\ IsFiniteSet(N)
  BY <1>2, <1>3, FS_Subset
<1>6. Cardinality(P) \in Nat /\ Cardinality(N) \in Nat
  BY <1>5, FS_CardinalityType
<1>7. Positive(r) \in Nat /\ Negative(r) \in Nat
  BY <1>4, <1>6
<1>8. r.passport \in PassportIds
  BY DEF ReputationReports
<1>9. Score(r) \in Int
  BY <1>7 DEF Score
<1>10. r.records \in Seq([challenge : Challenges, source : Sources])
  <2>. DEFINE S == [challenge : Challenges, source : Sources]
  <2>. HIDE DEF S
  <2>1. ASSUME NEW s \in [1 .. n -> S] PROVE s \in Seq(S)
    OBVIOUS
  <2>2. r.records \in [1 .. n -> S]
    BY <1>1 DEF S
  <2>3. r.records \in Seq(S)
    BY <2>1, <2>2
  <2>. QED
    BY <2>3 DEF S
<1>11. ASSUME NEW i \in DOMAIN r.records
       PROVE  r.records[i].challenge \in Challenges /\ r.records[i].source \in Sources
  <2>1. r.records[i] \in [challenge : Challenges, source : Sources]
    BY <1>1
  <2>. QED
    BY <2>1
<1>. QED
  BY <1>7, <1>8, <1>9, <1>10, <1>11

\* A checkpoint is logged and shown.
LEMMA CheckpointKeeps ==
  ASSUME ReputationInv, NEW r \in ReputationReports, NEW slip \in Nat, Checkpoint(r, slip)
  PROVE  ReputationInv'
<1>. DEFINE p == r.passport
            checkpoint == [score |-> Score(r) + slip, positive |-> Positive(r),
                           negative |-> Negative(r), hash |-> r,
                           count |-> reputations[p].count + 1]
            e == [passport |-> p, checkpoint |-> checkpoint]
<1>1. p \in PassportIds /\ e \in CheckpointEvents
  BY CountsAreNat DEF CheckpointEvents, ReputationInv, ReputationTypes
<1>2. /\ reputations' = [reputations EXCEPT ![p] = checkpoint]
      /\ checkpoints' = Append(checkpoints, e)
      /\ UNCHANGED challenges
  BY DEF Checkpoint, CheckpointAgentReputation
<1>3. e.passport = p /\ e.checkpoint = checkpoint /\ checkpoint.count \in Int
  BY <1>1 DEF CheckpointEvents, ReputationInv, ReputationTypes
<1>. HIDE DEF e, checkpoint, p
<1>4. ReputationTypes'
  BY <1>1, <1>2, <1>3 DEF ReputationInv, ReputationTypes
<1>5. /\ checkpoints'[Len(checkpoints')] = e
      /\ reputations'[p] = checkpoint
  BY <1>1, <1>2 DEF ReputationInv, ReputationTypes
<1>6. LatestIsShown'
  BY <1>3, <1>5 DEF LatestIsShown
<1>. QED
  BY <1>4, <1>6 DEF ReputationInv

\* A challenge that is submitted or resolved leaves finitely many of them.
LEMMA OutcomeKeeps ==
  ASSUME ReputationInv, NEW c \in Challenges, NEW status \in {"submitted"} \cup Sources,
         challenges' = [challenges EXCEPT ![c] = status],
         UNCHANGED <<passports, reputations, checkpoints>>
  PROVE  ReputationInv'
<1>. DEFINE S == {d \in Challenges : challenges[d] # "unknown"}
<1>1. {d \in Challenges : challenges[d] # "unknown"}' = S \cup {c}
  BY DEF ReputationInv, ReputationTypes, Sources
<1>2. IsFiniteSet(S)
  BY DEF ReputationInv, ReputationTypes
<1>. HIDE DEF S
<1>3. IsFiniteSet(S \cup {c})
  BY <1>2, FS_AddElement
<1>4. IsFiniteSet({d \in Challenges : challenges[d] # "unknown"}')
  BY <1>1, <1>3
<1>5. ReputationTypes'
  BY <1>4 DEF ReputationInv, ReputationTypes
<1>. QED
  BY <1>5 DEF ReputationInv, LatestIsShown

LEMMA ReputationInductive == ReputationSpec => []ReputationInv
<1>1. ReputationInit => ReputationInv
  <2>. SUFFICES ASSUME ReputationInit PROVE ReputationInv
    OBVIOUS
  <2>1. {c \in Challenges : challenges[c] # "unknown"} = {}
    BY DEF ReputationInit
  <2>2. IsFiniteSet({c \in Challenges : challenges[c] # "unknown"})
    BY <2>1, FS_EmptySet
  <2>. QED
    BY <2>2 DEF ReputationInit, ReputationInv, ReputationTypes, LatestIsShown, NoCheckpoint
<1>2. ReputationInv /\ [ReputationNext]_reputationVars => ReputationInv'
  <2>. SUFFICES ASSUME ReputationInv, [ReputationNext]_reputationVars PROVE ReputationInv'
    OBVIOUS
  <2>1. ASSUME NEW p \in PassportIds, Register(p) PROVE ReputationInv'
    BY <2>1 DEF Register, ReputationInv, ReputationTypes, LatestIsShown
  <2>2. ASSUME NEW c \in Challenges, SubmitChallenge(c) PROVE ReputationInv'
    BY <2>2, OutcomeKeeps DEF SubmitChallenge
  <2>3. ASSUME NEW c \in Challenges, NEW source \in Sources, ResolveChallenge(c, source)
        PROVE  ReputationInv'
    BY <2>3, OutcomeKeeps DEF ResolveChallenge
  <2>4. ASSUME NEW r \in ReputationReports, NEW slip \in 0 .. Slack, Checkpoint(r, slip)
        PROVE  ReputationInv'
    BY <2>4, CheckpointKeeps
  <2>5. CASE UNCHANGED reputationVars
    BY <2>5 DEF reputationVars, ReputationInv, ReputationTypes, LatestIsShown
  <2>. QED
    BY <2>1, <2>2, <2>3, <2>4, <2>5 DEF ReputationNext
<1>. QED
  BY <1>1, <1>2, PTL DEF ReputationSpec

\* The checkpoint that the audit of a range looks at is one of the log's.
LEMMA FirstIsLogged ==
  ASSUME ReputationInv, NEW r, NEW first \in 1 .. Len(checkpoints),
         NEW last \in 1 .. Len(checkpoints),
         CheckpointMatched(r, SubSeq(checkpoints, first, last))
  PROVE  \E j \in DOMAIN checkpoints :
           /\ checkpoints[j].passport = r.passport /\ checkpoints[j].checkpoint.hash = r
           /\ checkpoints[j].checkpoint.score = Score(r)
<1>. DEFINE events == SubSeq(checkpoints, first, last)
            k == Min(CheckpointsOf(r, events))
<1>1. /\ events \in Seq(CheckpointEvents) /\ Range(events) \subseteq Range(checkpoints)
  <2>1. checkpoints \in Seq(CheckpointEvents)
    BY DEF ReputationInv, ReputationTypes
  <2>. QED
    BY <2>1, SubRange
<1>. HIDE DEF events
<1>2. CheckpointsOf(r, events) # {} /\ CheckpointsOf(r, events) \in SUBSET DOMAIN events
  BY DEF CheckpointMatched, CheckpointsOf, events
<1>3. k \in CheckpointsOf(r, events)
  BY <1>1, <1>2, FirstIsOne
<1>4. events[k].checkpoint.score = Score(r)
  BY DEF CheckpointMatched, events
<1>. HIDE DEF k
<1>5. k \in DOMAIN events /\ events[k].passport = r.passport /\ events[k].checkpoint.hash = r
  BY <1>3 DEF CheckpointsOf
<1>6. events[k] \in Range(checkpoints)
  BY <1>1, <1>5 DEF Range
<1>. QED
  BY <1>4, <1>5, <1>6 DEF Range

\* The records of a report that are linked, if no challenge is listed twice, are no
\* more than the challenges of the owner that were resolved like this.
LEMMA RecordsAreFew ==
  ASSUME ReputationInv, NEW r \in ReputationReports, NEW source \in Sources,
         \A i \in DOMAIN r.records : SourceMatched(r.records[i], r),
         IsInjective([i \in DOMAIN r.records |-> r.records[i].challenge])
  PROVE  /\ ResolvedFor(r.owner, source) \in Nat
         /\ Cardinality({i \in DOMAIN r.records : r.records[i].source = source})
              <= ResolvedFor(r.owner, source)
<1>. DEFINE P == {i \in DOMAIN r.records : r.records[i].source = source}
            C == {c \in Challenges : c.challenger = r.owner /\ challenges[c] = source}
            f == [i \in P |-> r.records[i].challenge]
<1>1. /\ r.records \in Seq([challenge : Challenges, source : Sources])
  BY CountsAreNat
<1>2. IsFiniteSet(C)
  <2>1. C \subseteq {c \in Challenges : challenges[c] # "unknown"}
    BY DEF Sources
  <2>. QED
    BY <2>1, FS_Subset DEF ReputationInv, ReputationTypes
<1>3. f \in [P -> C]
  <2>1. ASSUME NEW i \in P PROVE r.records[i].challenge \in C
    <3>1. r.records[i].challenge \in Challenges
      BY CountsAreNat
    <3>2. SourceMatched(r.records[i], r) /\ r.records[i].source = source
      OBVIOUS
    <3>. QED
      BY <3>1, <3>2 DEF SourceMatched
  <2>. QED
    BY <2>1
<1>4. ASSUME NEW i \in P, NEW j \in P, f[i] = f[j] PROVE i = j
  BY <1>4 DEF IsInjective
<1>5. f \in Injection(P, C)
  BY <1>3, <1>4 DEF Injection, IsInjective
<1>6. ResolvedFor(r.owner, source) = Cardinality(C)
  BY DEF ResolvedFor
<1>. HIDE DEF P, C, f
<1>7. Cardinality(P) <= Cardinality(C) /\ Cardinality(C) \in Nat
  BY <1>2, <1>5, FS_Injection, FS_CardinalityType DEF ExistsInjection
<1>. QED
  BY <1>6, <1>7 DEF P

LEMMA EarnedOnly ==
  ASSUME ReputationInv
  PROVE  ScoreWasEarned
<1>. SUFFICES ASSUME NEW r \in Audited
              PROVE  /\ r.passport \in passports /\ r.passport.owner = r.owner
                     /\ IsInjective([i \in DOMAIN r.records |-> r.records[i].challenge]) =>
                          /\ Positive(r) <= ResolvedFor(r.owner, "challenge_upheld")
                          /\ Negative(r) <= ResolvedFor(r.owner, "challenge_rejected")
                          /\ Score(r) \in -2 * ResolvedFor(r.owner, "challenge_rejected")
                                          .. 5 * ResolvedFor(r.owner, "challenge_upheld")
  BY DEF ScoreWasEarned
<1>1. r \in ReputationReports
  <2>1. PICK i \in DOMAIN checkpoints : r = checkpoints[i].checkpoint.hash
    BY DEF Audited
  <2>2. checkpoints[i] \in CheckpointEvents
    BY DEF ReputationInv, ReputationTypes
  <2>. QED
    BY <2>1, <2>2 DEF CheckpointEvents
<1>2. OwnerLinked(r) /\ \A i \in DOMAIN r.records : SourceMatched(r.records[i], r)
  BY DEF Audited, ReportLinked
<1>3. r.passport \in passports /\ r.passport.owner = r.owner
  BY <1>2 DEF OwnerLinked
<1>4. ASSUME IsInjective([i \in DOMAIN r.records |-> r.records[i].challenge])
      PROVE  /\ Positive(r) <= ResolvedFor(r.owner, "challenge_upheld")
             /\ Negative(r) <= ResolvedFor(r.owner, "challenge_rejected")
             /\ Score(r) \in -2 * ResolvedFor(r.owner, "challenge_rejected")
                             .. 5 * ResolvedFor(r.owner, "challenge_upheld")
  <2>. DEFINE A == ResolvedFor(r.owner, "challenge_upheld")
              B == ResolvedFor(r.owner, "challenge_rejected")
  <2>1. /\ r.records \in Seq([challenge : Challenges, source : Sources])
        /\ Positive(r) \in Nat /\ Negative(r) \in Nat
    BY <1>1, CountsAreNat
  <2>2. /\ {i \in DOMAIN r.records : DeltaOf(r.records[i].source) > 0}
             = {i \in DOMAIN r.records : r.records[i].source = "challenge_upheld"}
        /\ {i \in DOMAIN r.records : DeltaOf(r.records[i].source) < 0}
             = {i \in DOMAIN r.records : r.records[i].source = "challenge_rejected"}
    <3>1. ASSUME NEW i \in DOMAIN r.records
          PROVE  /\ DeltaOf(r.records[i].source) > 0 <=> r.records[i].source = "challenge_upheld"
                 /\ DeltaOf(r.records[i].source) < 0 <=> r.records[i].source = "challenge_rejected"
      <4>1. r.records[i].source \in Sources
        BY <1>1, CountsAreNat
      <4>. QED
        BY <4>1 DEF DeltaOf, Sources
    <3>. QED
      BY <3>1
  <2>3. /\ A \in Nat /\ B \in Nat /\ Positive(r) <= A /\ Negative(r) <= B
    BY <1>1, <1>2, <1>4, <2>2, RecordsAreFew DEF Sources, Positive, Negative
  <2>. HIDE DEF A, B
  <2>4. Score(r) \in -2 * B .. 5 * A
    BY <2>1, <2>3 DEF Score
  <2>. QED
    BY <2>3, <2>4 DEF A, B
<1>. QED
  BY <1>3, <1>4

LEMMA ShownIsRight ==
  ASSUME ReputationInv
  PROVE  ShownIsAudited
<1>1. /\ checkpoints \in Seq(CheckpointEvents)
      /\ DOMAIN checkpoints = 1 .. Len(checkpoints) /\ Len(checkpoints) \in Nat
  BY DEF ReputationInv, ReputationTypes
<1>. SUFFICES ASSUME NEW i \in DOMAIN checkpoints, NEW r, r = checkpoints[i].checkpoint.hash
              PROVE
    /\ r \in Audited /\ reputations[r.passport].hash = r =>
         \/ reputations[r.passport].score = Score(r)
         \/ \E j \in {n \in DOMAIN checkpoints : /\ checkpoints[n].checkpoint.hash = r
                                                 /\ checkpoints[n].checkpoint.score = Score(r)} :
              j < Len(checkpoints)
    /\ ReportLinked(r, SubSeq(checkpoints, 1, i)) => ReportLinked(r, checkpoints)
  BY DEF ShownIsAudited
<1>2. ASSUME r \in Audited
      PROVE  \/ reputations[r.passport].score = Score(r)
             \/ \E j \in DOMAIN checkpoints : /\ checkpoints[j].checkpoint.hash = r
                                              /\ checkpoints[j].checkpoint.score = Score(r)
                                              /\ j < Len(checkpoints)
  <2>1. PICK j \in DOMAIN checkpoints :
           /\ checkpoints[j].passport = r.passport /\ checkpoints[j].checkpoint.hash = r
           /\ checkpoints[j].checkpoint.score = Score(r)
    <3>1. PICK first \in 1 .. Len(checkpoints), last \in 1 .. Len(checkpoints) :
             ReportLinked(r, SubSeq(checkpoints, first, last))
      <4>1. PICK events \in CheckpointRanges : ReportLinked(r, events)
        BY <1>2 DEF Audited
      <4>2. PICK first \in 1 .. Len(checkpoints), last \in 1 .. Len(checkpoints) :
               events = SubSeq(checkpoints, first, last)
        BY DEF CheckpointRanges
      <4>. QED
        BY <4>1, <4>2
    <3>2. CheckpointMatched(r, SubSeq(checkpoints, first, last))
      BY <3>1 DEF ReportLinked
    <3>. QED
      BY <3>2, FirstIsLogged
  <2>2. CASE j = Len(checkpoints)
    BY <1>1, <2>1, <2>2 DEF ReputationInv, LatestIsShown
  <2>3. CASE j # Len(checkpoints)
    BY <1>1, <2>1, <2>3
  <2>. QED
    BY <2>2, <2>3
<1>3. ASSUME ReportLinked(r, SubSeq(checkpoints, 1, i))
      PROVE  ReportLinked(r, checkpoints)
  <2>. DEFINE events == SubSeq(checkpoints, 1, i)
              S == CheckpointsOf(r, events)
              T == CheckpointsOf(r, checkpoints)
              k == Min(S)
              m == Min(T)
  <2>1. /\ DOMAIN events = 1 .. i /\ i \in 1 .. Len(checkpoints)
        /\ \A n \in 1 .. i : events[n] = checkpoints[n]
    BY <1>1
  <2>2. S \subseteq T /\ S \in SUBSET Nat /\ T \in SUBSET Nat
        /\ \A n \in T : n <= i => n \in S
    BY <1>1, <2>1 DEF CheckpointsOf
  <2>3. S # {} /\ events[k].checkpoint.score = Score(r)
        /\ events[k].checkpoint.positive = Positive(r)
        /\ events[k].checkpoint.negative = Negative(r)
    BY <1>3 DEF ReportLinked, CheckpointMatched
  <2>4. k \in S /\ (\A n \in S : k <= n) /\ m \in T /\ (\A n \in T : m <= n)
    <3>. HIDE DEF S, T
    <3>. QED
      BY <2>2, <2>3, MinIsLeast
  <2>5. S \subseteq 1 .. i
    BY <2>1 DEF CheckpointsOf
  <2>. HIDE DEF S, T, k, m, events
  <2>6. k = m
    <3>1. k \in 1 .. i /\ m \in Nat /\ m <= k
      BY <2>2, <2>4, <2>5
    <3>2. m <= i /\ k \in Nat
      BY <2>1, <3>1
    <3>3. k <= m
      BY <2>2, <2>4, <3>2
    <3>. QED
      BY <3>1, <3>2, <3>3
  <2>7. checkpoints[m] = events[k]
    BY <2>1, <2>4, <2>5, <2>6
  <2>8. CheckpointMatched(r, checkpoints)
    BY <2>2, <2>3, <2>7 DEF CheckpointMatched, T, m
  <2>. QED
    BY <1>3, <2>8 DEF ReportLinked
<1>. QED
  BY <1>2, <1>3

\* A report that passes the audit scores no more than its owner earned, and the registry
\* shows its score unless a later checkpoint of it was mistyped, whatever was checkpointed
\* before and between.
THEOREM CheckpointsAreEarned == ReputationSpec => []CheckpointsAgree
<1>1. ReputationInv => CheckpointsAgree
  BY EarnedOnly, ShownIsRight DEF CheckpointsAgree
<1>. QED
  BY <1>1, ReputationInductive, PTL

-----------------------------------------------------------------------------
(* Unit kinds.                                                             *)

KindEvents ==
  [name : {"Proposed"}, kind : Kinds, schema : Schemas, hash : Proposals]
    \cup [name : {"ReviewSet"}, kind : Kinds, hash : Reviews]
    \cup [name : {"StatusChanged"}, kind : Kinds, old : Statuses \cup {"Draft"}, new : Statuses]

KindRecord == [status : Statuses \cup {"None", "Draft"}, proposal : SUBSET Proposals,
               review : SUBSET Reviews, submitter : SUBSET Accounts]

KindTypes == kinds \in [Kinds -> KindRecord] /\ kindLog \in Seq(KindEvents)

\* An event of a kind: the kind is there, a proposal is the one it holds, anything
\* else came after a proposal, and a status was last set by the last event of one.
EventHolds(i) ==
  LET e == kindLog[i]
  IN  /\ kinds[e.kind].status # "None"
      /\ e.name = "Proposed" => kinds[e.kind].proposal = {e.hash}
      /\ e.name # "Proposed" => \E j \in EventsOf(kindLog, "Proposed", e.kind) : j < i
      /\ e.name = "StatusChanged" =>
           \/ kinds[e.kind].status = e.new
           \/ \E j \in EventsOf(kindLog, "StatusChanged", e.kind) : i < j

KindInv ==
  /\ KindTypes
  /\ \A kind \in Kinds : kinds[kind].status # "None" =>
       EventsOf(kindLog, "Proposed", kind) # {}
  /\ \A i \in DOMAIN kindLog : EventHolds(i)

-----------------------------------------------------------------------------
\* An event that is appended is the last; those before it keep their blocks.
LEMMA EventAppended ==
  ASSUME KindTypes, NEW e \in KindEvents, kindLog' = Append(kindLog, e)
  PROVE  /\ kindLog' \in Seq(KindEvents)
         /\ Len(kindLog) \in Nat
         /\ DOMAIN kindLog = 1 .. Len(kindLog) /\ DOMAIN kindLog' = 1 .. Len(kindLog) + 1
         /\ \A i \in DOMAIN kindLog : kindLog'[i] = kindLog[i] /\ kindLog[i] \in KindEvents
         /\ kindLog'[Len(kindLog) + 1] = e
         /\ \A name, kind :
              /\ EventsOf(kindLog, name, kind) \subseteq EventsOf(kindLog', name, kind)
              /\ name = e.name /\ kind = e.kind =>
                   Len(kindLog) + 1 \in EventsOf(kindLog', name, kind)
<1>1. kindLog \in Seq(KindEvents)
  BY DEF KindTypes
<1>2. /\ kindLog' \in Seq(KindEvents)
      /\ Len(kindLog) \in Nat
      /\ DOMAIN kindLog = 1 .. Len(kindLog) /\ DOMAIN kindLog' = 1 .. Len(kindLog) + 1
      /\ \A i \in DOMAIN kindLog : kindLog'[i] = kindLog[i] /\ kindLog[i] \in KindEvents
      /\ kindLog'[Len(kindLog) + 1] = e
  BY <1>1
<1>. QED
  BY <1>2 DEF EventsOf

\* A proposal of a kind that is not there yet keeps the invariant: no event is about it.
LEMMA ProposalKeeps ==
  ASSUME KindInv, NEW account \in Accounts, NEW f \in ProposalFiles, ProposeUnitKind(account, f)
  PROVE  KindInv'
<1>. DEFINE k == f.body.kind
            e == [name |-> "Proposed", kind |-> k, schema |-> f.body.schema, hash |-> f.hash]
            record == [status |-> "Draft", proposal |-> {f.hash}, review |-> {},
                       submitter |-> {account}]
<1>1. /\ k \in Kinds /\ f.body.schema \in Schemas /\ f.hash \in Proposals
      /\ kinds[k].status = "None"
      /\ kinds' = [kinds EXCEPT ![k] = record] /\ kindLog' = Append(kindLog, e)
  BY DEF ProposeUnitKind, ProposeKind, ProposalFiles, Proposals
<1>2. e \in KindEvents /\ e.name = "Proposed" /\ e.kind = k /\ e.hash = f.hash
  BY <1>1 DEF KindEvents
<1>3. record \in KindRecord /\ record.status = "Draft" /\ record.proposal = {f.hash}
  BY <1>1 DEF KindRecord
<1>. HIDE DEF e, record, k
<1>4. /\ kinds' \in [Kinds -> KindRecord] /\ kinds'[k] = record
      /\ \A kind \in Kinds \ {k} : kinds'[kind] = kinds[kind]
  BY <1>1, <1>3 DEF KindInv, KindTypes
<1>5. /\ kindLog' \in Seq(KindEvents)
      /\ Len(kindLog) \in Nat
      /\ DOMAIN kindLog = 1 .. Len(kindLog) /\ DOMAIN kindLog' = 1 .. Len(kindLog) + 1
      /\ \A i \in DOMAIN kindLog : kindLog'[i] = kindLog[i] /\ kindLog[i] \in KindEvents
      /\ kindLog'[Len(kindLog) + 1] = e
      /\ \A name, kind : EventsOf(kindLog, name, kind) \subseteq EventsOf(kindLog', name, kind)
      /\ Len(kindLog) + 1 \in EventsOf(kindLog', "Proposed", k)
  BY <1>1, <1>2, EventAppended DEF KindInv
<1>6. ASSUME NEW i \in DOMAIN kindLog PROVE EventHolds(i)'
  <2>1. EventHolds(i) /\ kindLog[i] \in KindEvents /\ kindLog'[i] = kindLog[i]
    BY <1>5 DEF KindInv
  <2>2. kindLog[i].kind \in Kinds /\ kindLog[i].kind # k
    BY <1>1, <2>1 DEF EventHolds, KindEvents
  <2>. QED
    BY <1>4, <1>5, <2>1, <2>2 DEF EventHolds
<1>7. ASSUME NEW i \in DOMAIN kindLog' \ DOMAIN kindLog PROVE EventHolds(i)'
  <2>1. kindLog'[i] = e
    BY <1>5
  <2>. QED
    BY <1>2, <1>3, <1>4, <2>1 DEF EventHolds
<1>8. \A i \in DOMAIN kindLog' : EventHolds(i)'
  BY <1>5, <1>6, <1>7
<1>9. \A kind \in Kinds : kinds'[kind].status # "None" =>
        EventsOf(kindLog', "Proposed", kind) # {}
  BY <1>4, <1>5 DEF KindInv
<1>. QED
  BY <1>4, <1>5, <1>8, <1>9 DEF KindInv, KindTypes

\* So does any other event of a kind that is there, if it leaves the proposal alone and
\* is the reason when the status changes.
LEMMA UpdateKeeps ==
  ASSUME KindInv, NEW k \in Kinds, kinds[k].status # "None",
         NEW record \in KindRecord, kinds' = [kinds EXCEPT ![k] = record],
         record.status # "None", record.proposal = kinds[k].proposal,
         NEW e \in KindEvents, e.kind = k, e.name # "Proposed", kindLog' = Append(kindLog, e),
         IF e.name = "StatusChanged" THEN record.status = e.new
                                     ELSE record.status = kinds[k].status
  PROVE  KindInv'
<1>1. /\ kinds' \in [Kinds -> KindRecord] /\ kinds'[k] = record
      /\ \A kind \in Kinds \ {k} : kinds'[kind] = kinds[kind]
  BY DEF KindInv, KindTypes
<1>2. /\ kindLog' \in Seq(KindEvents)
      /\ Len(kindLog) \in Nat
      /\ DOMAIN kindLog = 1 .. Len(kindLog) /\ DOMAIN kindLog' = 1 .. Len(kindLog) + 1
      /\ \A i \in DOMAIN kindLog : kindLog'[i] = kindLog[i] /\ kindLog[i] \in KindEvents
      /\ kindLog'[Len(kindLog) + 1] = e
      /\ \A name, kind : EventsOf(kindLog, name, kind) \subseteq EventsOf(kindLog', name, kind)
      /\ Len(kindLog) + 1 \in EventsOf(kindLog', e.name, k)
  BY EventAppended DEF KindInv
<1>3. ASSUME NEW i \in DOMAIN kindLog PROVE EventHolds(i)'
  <2>1. /\ EventHolds(i) /\ kindLog[i] \in KindEvents /\ kindLog'[i] = kindLog[i]
        /\ i \in Nat /\ i < Len(kindLog) + 1
    BY <1>2 DEF KindInv
  <2>2. kindLog[i].kind \in Kinds
    BY <2>1 DEF KindEvents
  <2>3. CASE kindLog[i].kind # k
    BY <1>1, <1>2, <2>1, <2>2, <2>3 DEF EventHolds
  <2>4. CASE kindLog[i].kind = k /\ e.name = "StatusChanged"
    BY <1>1, <1>2, <2>1, <2>4 DEF EventHolds
  <2>5. CASE kindLog[i].kind = k /\ e.name # "StatusChanged"
    BY <1>1, <1>2, <2>1, <2>5 DEF EventHolds
  <2>. QED
    BY <2>3, <2>4, <2>5
<1>4. ASSUME NEW i \in DOMAIN kindLog' \ DOMAIN kindLog PROVE EventHolds(i)'
  <2>1. i = Len(kindLog) + 1 /\ kindLog'[i] = e
    BY <1>2
  <2>2. PICK j \in EventsOf(kindLog, "Proposed", k) : j \in Nat /\ j < i
    BY <1>2, <2>1 DEF KindInv, EventsOf
  <2>3. j \in EventsOf(kindLog', "Proposed", k)
    BY <1>2
  <2>4. e.name = "StatusChanged" => record.status = e.new
    OBVIOUS
  <2>. QED
    BY <1>1, <2>1, <2>2, <2>3, <2>4 DEF EventHolds
<1>5. \A i \in DOMAIN kindLog' : EventHolds(i)'
  BY <1>2, <1>3, <1>4
<1>6. \A kind \in Kinds : kinds'[kind].status # "None" =>
        EventsOf(kindLog', "Proposed", kind) # {}
  BY <1>1, <1>2 DEF KindInv
<1>. QED
  BY <1>1, <1>2, <1>5, <1>6 DEF KindInv, KindTypes

LEMMA ReviewKeeps ==
  ASSUME KindInv, NEW account \in Accounts, NEW f \in ReviewFiles, SetUnitKindReview(account, f)
  PROVE  KindInv'
<1>. DEFINE k == f.body.kind
            record == [kinds[k] EXCEPT !.review = {f.hash}]
            e == [name |-> "ReviewSet", kind |-> k, hash |-> f.hash]
<1>1. /\ k \in Kinds /\ f.hash \in Reviews /\ kinds[k].status # "None"
      /\ kinds' = [kinds EXCEPT ![k] = record] /\ kindLog' = Append(kindLog, e)
  BY DEF SetUnitKindReview, ReviewFiles, Reviews
<1>2. kinds[k] \in KindRecord
  BY <1>1 DEF KindInv, KindTypes
<1>3. /\ record \in KindRecord /\ record.status = kinds[k].status
      /\ record.proposal = kinds[k].proposal
  BY <1>1, <1>2 DEF KindRecord
<1>4. e \in KindEvents /\ e.kind = k /\ e.name = "ReviewSet"
  BY <1>1 DEF KindEvents
<1>. HIDE DEF k, record, e
<1>. QED
  BY <1>1, <1>3, <1>4, UpdateKeeps

LEMMA StatusKeeps ==
  ASSUME KindInv, NEW account \in Accounts, NEW k \in Kinds, NEW status \in Statuses,
         SetUnitKindStatus(account, k, status)
  PROVE  KindInv'
<1>. DEFINE record == [kinds[k] EXCEPT !.status = status]
            e == [name |-> "StatusChanged", kind |-> k, old |-> kinds[k].status, new |-> status]
<1>1. /\ kinds[k].status # "None" /\ status # "None"
      /\ kinds' = [kinds EXCEPT ![k] = record] /\ kindLog' = Append(kindLog, e)
  BY DEF SetUnitKindStatus
<1>2. kinds[k] \in KindRecord
  BY DEF KindInv, KindTypes
<1>3. /\ record \in KindRecord /\ record.status = status
      /\ record.proposal = kinds[k].proposal
  BY <1>2 DEF KindRecord
<1>4. e \in KindEvents /\ e.kind = k /\ e.name = "StatusChanged" /\ e.new = status
  BY <1>1, <1>2 DEF KindEvents, KindRecord
<1>. HIDE DEF record, e
<1>. QED
  BY <1>1, <1>3, <1>4, UpdateKeeps

LEMMA KindInductive == KindSpec => []KindInv
<1>1. KindInit => KindInv
  BY DEF KindInit, KindInv, KindTypes, KindRecord, NoKind
<1>2. KindInv /\ [KindNext]_kindVars => KindInv'
  <2>. SUFFICES ASSUME KindInv, [KindNext]_kindVars PROVE KindInv'
    OBVIOUS
  <2>1. CASE UNCHANGED kindVars
    BY <2>1 DEF kindVars, KindInv, KindTypes, EventHolds, EventsOf
  <2>. QED
    BY <2>1, ProposalKeeps, ReviewKeeps, StatusKeeps DEF KindNext
<1>. QED
  BY <1>1, <1>2, PTL DEF KindSpec

-----------------------------------------------------------------------------
\* An event that a range of the log holds is one of the log.
LEMMA RangeHoldsEvents ==
  ASSUME KindTypes, NEW events \in KindRanges
  PROVE  \A i \in DOMAIN events : i \in Nat /\ \E j \in DOMAIN kindLog : kindLog[j] = events[i]
<1>1. PICK first \in 1 .. Len(kindLog), last \in 1 .. Len(kindLog) :
        events = SubSeq(kindLog, first, last)
  BY DEF KindRanges
<1>2. events \in Seq(KindEvents) /\ Range(events) \subseteq Range(kindLog)
  BY <1>1, SubRange DEF KindTypes
<1>3. \A i \in DOMAIN events : events[i] \in Range(events)
  BY DEF Range
<1>4. \A i \in DOMAIN events : i \in Nat
  BY <1>2
<1>5. ASSUME NEW e \in Range(kindLog) PROVE \E j \in DOMAIN kindLog : kindLog[j] = e
  BY DEF Range
<1>. QED
  BY <1>2, <1>3, <1>4, <1>5

\* A proposal that passes is the one the registry holds.
LEMMA ProposalIsRegistered ==
  ASSUME KindInv
  PROVE  AuditedProposalIsRegistered
<1>. SUFFICES ASSUME NEW events \in KindRanges, NEW f \in ProposalFiles, ProposalLinked(f, events)
              PROVE  kinds[f.body.kind].proposal = {f.body}
  BY DEF AuditedProposalIsRegistered
<1>. DEFINE proposed == EventsOf(events, "Proposed", f.body.kind)
<1>1. /\ f.hash = f.body /\ proposed # {}
      /\ events[Min(proposed)].hash = f.hash
  BY DEF ProposalLinked, ValidProposal, ProposalMatched
<1>2. \A i \in DOMAIN events : i \in Nat /\ \E j \in DOMAIN kindLog : kindLog[j] = events[i]
  BY RangeHoldsEvents DEF KindInv
<1>3. proposed \in SUBSET Nat
  BY <1>2 DEF EventsOf
<1>4. Min(proposed) \in proposed
  <2>. HIDE DEF proposed
  <2>. QED
    BY <1>1, <1>3, MinIsLeast
<1>. DEFINE first == events[Min(proposed)]
<1>5. /\ first.name = "Proposed" /\ first.kind = f.body.kind
      /\ \E j \in DOMAIN kindLog : kindLog[j] = first
  BY <1>2, <1>4 DEF EventsOf
<1>. HIDE DEF proposed, first
<1>6. PICK j \in DOMAIN kindLog : kindLog[j] = first
  BY <1>5
<1>7. EventHolds(j)
  BY DEF KindInv
<1>8. kinds[f.body.kind].proposal = {first.hash}
  BY <1>5, <1>6, <1>7 DEF EventHolds
<1>. QED
  BY <1>1, <1>8 DEF first

\* A review that passes was set and its status given, after the proposal.
LEMMA ReviewGiven ==
  ASSUME KindInv, NEW events \in KindRanges, NEW r \in ReviewFiles, ReviewLinked(r, events)
  PROVE  WasGiven(r.body)
<1>. DEFINE kind == r.body.kind
<1>1. \A i \in DOMAIN events : i \in Nat /\ \E j \in DOMAIN kindLog : kindLog[j] = events[i]
  BY RangeHoldsEvents DEF KindInv
<1>2. \E i \in EventsOf(kindLog, "ReviewSet", kind) : kindLog[i].hash = r.body
  BY <1>1 DEF ReviewLinked, ValidReview, EventsOf
<1>3. PICK i \in EventsOf(kindLog, "StatusChanged", kind) : kindLog[i].new = r.body.status
  BY <1>1 DEF ReviewLinked, StatusFound, EventsOf
<1>4. EventHolds(i) /\ kindLog[i].name = "StatusChanged" /\ kindLog[i].kind = kind
  BY DEF KindInv, EventsOf
<1>. QED
  BY <1>2, <1>3, <1>4 DEF EventHolds, WasGiven

\* What passes the audit, proposal and review, is what the registry was told of the
\* kind, whatever range of the registry's events and whichever files are audited.
THEOREM KindsAgree == KindSpec => []AuditedKindsAgree
<1>1. KindInv => AuditedReviewWasGiven
  <2>. SUFFICES ASSUME KindInv, NEW events \in KindRanges,
                       NEW f \in ProposalFiles,
                       NEW r \in ReviewFiles, NEW s \in ReviewFiles,
                       UnitKindLinked(f, <<r, s>>, events)
                PROVE  WasGiven(IF r.body.kind = f.body.kind THEN r.body ELSE s.body)
    BY DEF AuditedReviewWasGiven
  <2>. DEFINE found == ReviewsOf(f, <<r, s>>)
  <2>1. found = {i \in {1, 2} : <<r, s>>[i].body.kind = f.body.kind}
    BY DEF ReviewsOf
  <2>2. found # {} /\ ReviewLinked(<<r, s>>[Min(found)], events)
    BY DEF UnitKindLinked
  <2>3. Min(found) = IF r.body.kind = f.body.kind THEN 1 ELSE 2
    <3>1. found \in SUBSET Nat
      BY <2>1
    <3>2. Min(found) \in found /\ \A y \in found : Min(found) <= y
      <4>. HIDE DEF found
      <4>. QED
        BY <2>2, <3>1, MinIsLeast
    <3>3. CASE r.body.kind = f.body.kind
      <4>1. 1 \in found
        BY <2>1, <3>3
      <4>. QED
        BY <2>1, <3>2, <3>3, <4>1
    <3>4. CASE r.body.kind # f.body.kind
      <4>1. 1 \notin found
        BY <2>1, <3>4
      <4>. QED
        BY <2>1, <3>2, <3>4, <4>1
    <3>. QED
      BY <3>3, <3>4
  <2>. HIDE DEF found
  <2>4. CASE r.body.kind = f.body.kind
    BY <2>2, <2>3, <2>4, ReviewGiven
  <2>5. CASE r.body.kind # f.body.kind
    BY <2>2, <2>3, <2>5, ReviewGiven
  <2>. QED
    BY <2>4, <2>5
<1>. QED
  BY <1>1, KindInductive, ProposalIsRegistered, PTL DEF AuditedKindsAgree

-----------------------------------------------------------------------------
(* Module verification.                                                    *)

ReceiptBody == [manifest : [digest : Digests], downloaded : Digests, expected : Digests,
                matched : BOOLEAN]

WorkInv ==
  /\ \A m \in manifests : m.hash \in [digest : Digests]
  /\ receipts \subseteq [body : ReceiptBody, hash : ReceiptBody]

LEMMA AcquisitionKeeps ==
  ASSUME WorkInv, NEW m \in manifests, NEW downloaded \in Digests, NEW expected \in Digests,
         NEW matched \in BOOLEAN,
         CreateModuleAcquisitionReceipt(m, downloaded, expected, matched)
  PROVE  WorkInv'
<1>. DEFINE body == [manifest |-> m.hash, downloaded |-> downloaded, expected |-> expected,
                     matched |-> matched]
<1>1. receipts' = receipts \cup {File(body)} /\ UNCHANGED <<manifests, runs>>
  BY DEF CreateModuleAcquisitionReceipt
<1>2. body \in ReceiptBody
  BY DEF WorkInv, ReceiptBody
<1>. HIDE DEF body
<1>3. File(body) \in [body : ReceiptBody, hash : ReceiptBody]
  BY <1>2 DEF File
<1>. QED
  BY <1>1, <1>3 DEF WorkInv

LEMMA EditKeeps ==
  ASSUME WorkInv, NEW r \in receipts, EditReceipt(r)
  PROVE  WorkInv'
<1>. DEFINE edited == [r EXCEPT !.body.matched = ~r.body.matched]
<1>1. r \in [body : ReceiptBody, hash : ReceiptBody]
  BY DEF WorkInv
<1>2. edited \in [body : ReceiptBody, hash : ReceiptBody]
  BY <1>1 DEF ReceiptBody
<1>3. receipts' = (receipts \ {r}) \cup {edited} /\ UNCHANGED <<manifests, runs>>
  BY DEF EditReceipt
<1>. HIDE DEF edited
<1>. QED
  BY <1>2, <1>3 DEF WorkInv

LEMMA WorkInductive == WorkSpec => []WorkInv
<1>1. WorkInit => WorkInv
  BY DEF WorkInit, WorkInv
<1>2. WorkInv /\ [WorkNext]_workVars => WorkInv'
  <2>. SUFFICES ASSUME WorkInv, [WorkNext]_workVars PROVE WorkInv'
    OBVIOUS
  <2>1. ASSUME NEW digest \in Digests, CreateModuleManifest(digest)
        PROVE  WorkInv'
    <3>1. /\ manifests' = manifests \cup {File([digest |-> digest])}
          /\ UNCHANGED <<receipts, runs>>
      BY <2>1 DEF CreateModuleManifest
    <3>. QED
      BY <3>1 DEF WorkInv, File
  <2>3. ASSUME NEW m \in manifests, NEW r \in receipts, CreateVerificationRunReceipt(m, r)
        PROVE  WorkInv'
    BY <2>3 DEF CreateVerificationRunReceipt, WorkInv
  <2>4. ASSUME NEW f \in runs, NEW r \in receipts, EditRun(f, r)
        PROVE  WorkInv'
    BY <2>4 DEF EditRun, WorkInv
  <2>5. CASE UNCHANGED workVars
    BY <2>5 DEF workVars, WorkInv
  <2>. QED
    BY <2>1, <2>3, <2>4, <2>5, AcquisitionKeeps, EditKeeps DEF WorkNext
<1>. QED
  BY <1>1, <1>2, PTL DEF WorkSpec

\* In a valid bundle, a receipt is what its hash says, and one that says it matched is of
\* the promised digest when its maker compared.
LEMMA IntactIsTold ==
  ASSUME WorkInv, NEW bundle \in Bundles, ValidSets(bundle), NEW r \in bundle.receipts,
         r.body.matched
  PROVE  /\ r.hash = r.body
         /\ Compared(r.body) => r.body.downloaded = r.body.manifest.digest
<1>1. r \in receipts /\ r.hash = r.body
  BY DEF Bundles, ValidSets, Intact
<1>2. r.body.matched \in BOOLEAN
  BY <1>1 DEF WorkInv, ReceiptBody
<1>3. r.body.matched = TRUE
  BY <1>2
<1>. QED
  BY <1>1, <1>3 DEF Compared

LEMMA WorkWasVerified ==
  ASSUME WorkInv
  PROVE  ClaimedWorkWasVerified
<1>. SUFFICES ASSUME NEW bundle \in Bundles, ValidSets(bundle),
                     NEW claim \in Claims, ClaimLinked(claim, bundle),
                     NEW b \in Relied(claim, bundle)
              PROVE  b.matched /\ (Compared(b) => b.downloaded = b.manifest.digest)
  BY DEF ClaimedWorkWasVerified
<1>1. CASE \E r \in Linked(bundle.receipts, claim.receipts) : b = r.body
  <2>1. PICK r \in Linked(bundle.receipts, claim.receipts) : b = r.body
    BY <1>1
  <2>2. r \in bundle.receipts /\ r.body.matched
    BY DEF Linked, ClaimLinked, ReceiptsMatched
  <2>. QED
    BY <2>1, <2>2, IntactIsTold
<1>2. CASE \E run \in Linked(bundle.runs, claim.runs) : b = run.body.receipt
  <2>1. PICK run \in Linked(bundle.runs, claim.runs) : b = run.body.receipt
    BY <1>2
  <2>2. PICK r \in bundle.receipts : r.hash = run.body.receipt /\ r.body.matched
    BY DEF ClaimLinked, RunsMatched
  <2>. QED
    BY <2>1, <2>2, IntactIsTold
<1>. QED
  BY <1>1, <1>2 DEF Relied

\* A claim that passes with some files passes with more, because two valid files of
\* one hash are one file.
LEMMA NothingSpoils == OthersDoNotSpoil
<1>. SUFFICES ASSUME NEW claim \in Claims,
                     NEW b \in Bundles, ValidSets(b), ClaimLinked(claim, b),
                     NEW more \in Bundles, ValidSets(more),
                     b.manifests \subseteq more.manifests,
                     b.receipts \subseteq more.receipts, b.runs \subseteq more.runs
              PROVE  ClaimLinked(claim, more)
  BY DEF OthersDoNotSpoil
<1>1. /\ Hashes(b.manifests) \subseteq Hashes(more.manifests)
      /\ Hashes(b.receipts) \subseteq Hashes(more.receipts)
      /\ Hashes(b.runs) \subseteq Hashes(more.runs)
  BY DEF Hashes
<1>2. NothingMissing(claim, more)
  BY <1>1 DEF ClaimLinked, NothingMissing
<1>3. ASSUME NEW r \in more.receipts, NEW s \in b.receipts, r.hash = s.hash
      PROVE  r.body = s.body
  BY <1>3 DEF ValidSets, Intact
<1>4. ReceiptsMatched(claim, more)
  <2>. SUFFICES ASSUME NEW r \in more.receipts, r.hash \in claim.receipts
                PROVE  r.body.matched
    BY DEF ReceiptsMatched, Linked
  <2>1. PICK s \in b.receipts : s.hash = r.hash
    BY DEF ClaimLinked, NothingMissing, Hashes
  <2>2. s.body.matched
    BY <2>1 DEF ClaimLinked, ReceiptsMatched, Linked
  <2>. QED
    BY <1>3, <2>1, <2>2
<1>5. RunsMatched(claim, more)
  <2>. SUFFICES ASSUME NEW run \in more.runs, run.hash \in claim.runs
                PROVE  /\ run.body.manifest \in Hashes(more.manifests)
                       /\ \E r \in more.receipts : r.hash = run.body.receipt
                       /\ \A r \in more.receipts : r.hash = run.body.receipt => r.body.matched
    BY DEF RunsMatched, Linked
  <2>1. PICK own \in b.runs : own.hash = run.hash
    BY DEF ClaimLinked, NothingMissing, Hashes
  <2>2. own.body = run.body
    BY <2>1 DEF ValidSets, Intact
  <2>3. /\ run.body.manifest \in Hashes(b.manifests)
        /\ \E r \in b.receipts : r.hash = run.body.receipt
        /\ \A r \in b.receipts : r.hash = run.body.receipt => r.body.matched
    BY <2>1, <2>2 DEF ClaimLinked, RunsMatched, Linked
  <2>4. PICK s \in b.receipts : s.hash = run.body.receipt /\ s.body.matched
    BY <2>3
  <2>. QED
    BY <1>1, <1>3, <2>3, <2>4
<1>. QED
  BY <1>2, <1>4, <1>5 DEF ClaimLinked

\* A claim of work passes only on receipts that were made as ones of a match, right where
\* their makers compared, and whatever else lies beside them: with any number of files,
\* edited, mixed up or with flags that contradict their digests.
THEOREM WorkIsSound == WorkSpec => []ClaimsAreSound
<1>1. WorkInv => ClaimsAreSound
  BY WorkWasVerified, NothingSpoils DEF ClaimsAreSound
<1>. QED
  BY <1>1, WorkInductive, PTL

=============================================================================

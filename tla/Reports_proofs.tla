---------------------------- MODULE Reports_proofs ----------------------------
(***************************************************************************)
(* What files that pass the audits tell.  Migration records and memory     *)
(* vaults tell keys that a passport held.  A poll ends as a report said,   *)
(* a report that passes says how it ended, and the report that says so     *)
(* passes: for any validators, hashes and quorums, and however many        *)
(* drafts.  Outcomes that challenge records tell are the contract's; the   *)
(* reputations of a bundle that tells each once, of the right reporter,    *)
(* are the contract's and the points it left unsettled; and a summary is   *)
(* of high confidence only with two independent reports.                   *)
(***************************************************************************)
EXTENDS AgentPassport, AdjudicationAudit, EvidenceAudit, LogLemmas, FiniteSetTheorems

-----------------------------------------------------------------------------
(* Passports and their migrations. *)

PassportEvents ==
  [name : {"AgentPassportRegistered"}, passport : Ids, metadata : Metadata]
    \cup [name : {"AgentPassportMigrationRecorded"}, passport : Ids, old : Keys, new : Keys,
          hash : [passport : Ids, old : Keys, new : Keys], index : Nat]

\* Every migration in the log tells the key the passport had, the log numbers them, and
\* the registry holds the key and the number that the log leads to.
PassportInv ==
  /\ log \in Seq(PassportEvents)
  /\ DOMAIN passports \subseteq Ids
  /\ \A i \in DOMAIN log : log[i].passport \in DOMAIN passports
  /\ \A id \in DOMAIN passports :
       /\ passports[id].migrations = Cardinality(MigrationsOf(id, log))
       /\ passports[id].key = KeyBefore(id, Len(log) + 1)
       /\ \A i \in MigrationsOf(id, log) : log[i].old = KeyBefore(id, i)
  /\ MigrationIndexesOk(log)

-----------------------------------------------------------------------------
\* Migrations that are numbered each after the one before have the numbers from 1 on.
LEMMA HistoryIsNumbered ==
  ASSUME NEW S, NEW events \in Seq(S), NEW id,
         \A i \in MigrationsOf(id, events) :
           events[i].index = ExpectedIndex({j \in MigrationsOf(id, events) : j < i}, events)
  PROVE  /\ {events[i].index : i \in MigrationsOf(id, events)}
               = 1 .. Cardinality(MigrationsOf(id, events))
         /\ ExpectedIndex(MigrationsOf(id, events), events)
               = Cardinality(MigrationsOf(id, events)) + 1
         /\ IsFiniteSet(MigrationsOf(id, events))
         /\ Cardinality(MigrationsOf(id, events)) \in Nat
<1>. DEFINE M == MigrationsOf(id, events)
            N == Len(events)
            Counted(n) == UpTo(M, n)
            Numbered(n) == /\ {events[i].index : i \in Counted(n)} = 1 .. Cardinality(Counted(n))
                           /\ ExpectedIndex(Counted(n), events) = Cardinality(Counted(n)) + 1
                           /\ IsFiniteSet(Counted(n)) /\ Cardinality(Counted(n)) \in Nat
            T == {n \in Nat : n <= N => Numbered(n)}
<1>1. /\ N \in Nat /\ M \in SUBSET (1 .. N)
      /\ \A i \in M : events[i].index = ExpectedIndex({j \in M : j < i}, events)
  BY DEF MigrationsOf
<1>. HIDE DEF N, M
<1>2. /\ Counted(0) = {} /\ Counted(N) = M
      /\ \A n \in Nat :
           /\ Counted(n) = {i \in M : i < n + 1} /\ n + 1 \notin Counted(n)
           /\ Counted(n + 1) = IF n + 1 \in M THEN Counted(n) \cup {n + 1} ELSE Counted(n)
           /\ \A i \in Counted(n) : i \in Nat /\ i <= n
  BY <1>1, UpToGrows
<1>. HIDE DEF Counted
<1>3. Numbered(0)
  <2>1. Cardinality({}) = 0 /\ IsFiniteSet({})
    BY FS_EmptySet
  <2>2. ExpectedIndex({}, events) = 1
    BY DEF ExpectedIndex
  <2>3. Counted(0) = {}
    BY <1>2
  <2>4. {events[i].index : i \in Counted(0)} = {}
    BY <2>3
  <2>5. 1 .. 0 = {}
    OBVIOUS
  <2>6. Cardinality(Counted(0)) = 0 /\ IsFiniteSet(Counted(0))
        /\ ExpectedIndex(Counted(0), events) = 1
    BY <2>1, <2>2, <2>3
  <2>7. {events[i].index : i \in Counted(0)} = 1 .. Cardinality(Counted(0))
    BY <2>4, <2>5, <2>6
  <2>8. ExpectedIndex(Counted(0), events) = Cardinality(Counted(0)) + 1
    BY <2>6
  <2>9. Cardinality(Counted(0)) \in Nat
    BY <2>6
  <2>. QED
    BY <2>6, <2>7, <2>8, <2>9
<1>4. ASSUME NEW n \in Nat, n + 1 <= N, Numbered(n) PROVE Numbered(n + 1)
  <2>. DEFINE A == Counted(n)
              B == Counted(n + 1)
              c == Cardinality(A)
              d == Cardinality(B)
  <2>1. /\ {events[i].index : i \in A} = 1 .. c /\ ExpectedIndex(A, events) = c + 1
        /\ IsFiniteSet(A) /\ c \in Nat
    BY <1>4
  <2>2. CASE n + 1 \notin M
    BY <1>2, <1>4, <2>2
  <2>3. CASE n + 1 \in M
    <3>1. /\ B = A \cup {n + 1} /\ n + 1 \notin A
          /\ \A i \in B : i \in Nat /\ i <= n + 1
      <4>1. B = A \cup {n + 1} /\ n + 1 \notin A /\ \A i \in A : i \in Nat /\ i <= n
        BY <1>2, <2>3
      <4>2. \A i \in A : i <= n + 1
        BY <4>1
      <4>3. n + 1 \in Nat /\ n + 1 <= n + 1
        OBVIOUS
      <4>. HIDE DEF A, B
      <4>. QED
        BY <4>1, <4>2, <4>3
    <3>2. events[n + 1].index = c + 1
      <4>1. A = {j \in M : j < n + 1}
        BY <1>2
      <4>. QED
        BY <1>1, <2>1, <2>3, <4>1
    <3>3. n + 1 \in B /\ B \in SUBSET Nat /\ B # {}
      BY <3>1
    <3>. HIDE DEF A, B
    <3>4. d = c + 1 /\ IsFiniteSet(B)
      BY <2>1, <3>1, FS_AddElement
    <3>5. Max(B) = n + 1
      BY <3>1, <3>3, MaxIs
    <3>6. ExpectedIndex(B, events) = d + 1
      BY <3>2, <3>3, <3>4, <3>5 DEF ExpectedIndex
    <3>7. {events[i].index : i \in B} = {events[i].index : i \in A} \cup {c + 1}
      BY <3>1, <3>2
    <3>8. 1 .. d = (1 .. c) \cup {c + 1} /\ d \in Nat
      BY <2>1, <3>4
    <3>9. {events[i].index : i \in B} = 1 .. d
      BY <2>1, <3>7, <3>8
    <3>. QED
      BY <3>4, <3>6, <3>8, <3>9 DEF B
  <2>. QED
    BY <2>2, <2>3
<1>. HIDE DEF Numbered
<1>5. T = Nat
  <2>1. 0 \in T
    BY <1>3
  <2>2. ASSUME NEW n \in T PROVE n + 1 \in T
    BY <1>1, <1>4
  <2>3. T \in SUBSET Nat
    OBVIOUS
  <2>. HIDE DEF T
  <2>. QED
    BY <2>1, <2>2, <2>3, Induction
<1>6. Numbered(N)
  BY <1>1, <1>5
<1>. QED
  BY <1>2, <1>6 DEF Numbered, M

\* An event adds itself to the migrations of its passport, and is after all the others.
LEMMA MigrationsGrow ==
  ASSUME log \in Seq(PassportEvents), NEW e \in PassportEvents, log' = Append(log, e), NEW id
  PROVE  /\ MigrationsOf(id, log') = IF IsMigrationOf(e, id)
                                     THEN MigrationsOf(id, log) \cup {Len(log) + 1}
                                     ELSE MigrationsOf(id, log)
         /\ \A i \in 1 .. Len(log) + 1 :
              /\ {j \in MigrationsOf(id, log') : j < i} = {j \in MigrationsOf(id, log) : j < i}
              /\ KeyBefore(id, i)' = KeyBefore(id, i)
              /\ ExpectedIndex({j \in MigrationsOf(id, log) : j < i}, log')
                   = ExpectedIndex({j \in MigrationsOf(id, log) : j < i}, log)
         /\ KeyBefore(id, Len(log) + 1)' = IF IsMigrationOf(e, id) THEN e.new
                                            ELSE KeyBefore(id, Len(log) + 1)
<1>. DEFINE N == Len(log)
            M == MigrationsOf(id, log)
<1>1. /\ N \in Nat /\ DOMAIN log = 1 .. N /\ DOMAIN log' = 1 .. N + 1 /\ Len(log') = N + 1
      /\ \A i \in 1 .. N : log'[i] = log[i]
      /\ log'[N + 1] = e
  OBVIOUS
<1>2. M \in SUBSET (1 .. N)
  BY <1>1 DEF MigrationsOf
<1>3. MigrationsOf(id, log') = IF IsMigrationOf(e, id) THEN M \cup {N + 1} ELSE M
  BY <1>1 DEF MigrationsOf
<1>. HIDE DEF N, M
<1>4. ASSUME NEW i \in 1 .. N + 1
      PROVE  {j \in MigrationsOf(id, log') : j < i} = {j \in M : j < i}
  BY <1>1, <1>2, <1>3
<1>5. ASSUME NEW T \in SUBSET M, T # {}
      PROVE  log'[Max(T)] = log[Max(T)]
  <2>1. T \in SUBSET (1 .. N)
    BY <1>2
  <2>2. Max(T) \in T
    BY <1>1, <1>5, <2>1, MaxIsGreatest
  <2>. QED
    BY <1>1, <2>1, <2>2
<1>6. ASSUME NEW i \in 1 .. N + 1
      PROVE  /\ KeyBefore(id, i)' = KeyBefore(id, i)
             /\ ExpectedIndex({j \in M : j < i}, log') = ExpectedIndex({j \in M : j < i}, log)
  BY <1>4, <1>5 DEF KeyBefore, ExpectedIndex, M
<1>7. KeyBefore(id, Len(log) + 1)' = IF IsMigrationOf(e, id) THEN e.new
                                      ELSE KeyBefore(id, N + 1)
  <2>. DEFINE B == {j \in MigrationsOf(id, log') : j < N + 2}
  <2>1. /\ B = MigrationsOf(id, log') /\ {j \in M : j < N + 1} = M
        /\ MigrationsOf(id, log') \in SUBSET (1 .. N + 1)
    <3>1. MigrationsOf(id, log') \in SUBSET (1 .. N + 1) /\ N + 1 \in Nat
      BY <1>1, <1>2, <1>3
    <3>2. \A j \in 1 .. N : j < N + 1 /\ j < N + 2
      BY <1>1
    <3>3. N + 1 < N + 2
      BY <1>1
    <3>. QED
      BY <1>1, <1>2, <1>3, <3>1, <3>2, <3>3
  <2>4. Len(log') + 1 = N + 2
    BY <1>1
  <2>5. KeyBefore(id, Len(log) + 1)' = IF B = {} THEN id.key ELSE log'[Max(B)].new
    BY <1>1, <2>4 DEF KeyBefore
  <2>6. KeyBefore(id, N + 1) = IF M = {} THEN id.key ELSE log[Max(M)].new
    BY <2>1 DEF KeyBefore, M
  <2>. HIDE DEF B
  <2>2. CASE ~ IsMigrationOf(e, id)
    BY <1>3, <1>5, <2>1, <2>2, <2>5, <2>6
  <2>3. CASE IsMigrationOf(e, id)
    <3>1. N + 1 \in B /\ B \in SUBSET Nat /\ \A j \in B : j <= N + 1
      BY <1>1, <1>3, <2>1, <2>3
    <3>2. Max(B) = N + 1 /\ B # {}
      BY <3>1, MaxIs
    <3>. QED
      BY <1>1, <2>3, <2>5, <3>2
  <2>. QED
    BY <2>2, <2>3
<1>. QED
  BY <1>1, <1>3, <1>4, <1>6, <1>7 DEF M, N

\* What the log tells of a passport: its number of migrations, its key, the key that
\* every migration started from, and their numbers.
IsTold(id) ==
  /\ passports[id].migrations = Cardinality(MigrationsOf(id, log))
  /\ passports[id].key = KeyBefore(id, Len(log) + 1)
  /\ \A i \in MigrationsOf(id, log) : log[i].old = KeyBefore(id, i)
  /\ \A i \in MigrationsOf(id, log) :
       log[i].index = ExpectedIndex({j \in MigrationsOf(id, log) : j < i}, log)

LEMMA ToldByParts ==
  PassportInv <=> /\ log \in Seq(PassportEvents)
                  /\ DOMAIN passports \subseteq Ids
                  /\ \A i \in DOMAIN log : log[i].passport \in DOMAIN passports
                  /\ \A id \in DOMAIN passports : IsTold(id)
  BY DEF PassportInv, IsTold, MigrationIndexesOk

\* An event that is not of a passport's migrations leaves what is told of it.
LEMMA OtherEventKeeps ==
  ASSUME log \in Seq(PassportEvents), NEW e \in PassportEvents, log' = Append(log, e),
         NEW id \in DOMAIN passports, IsTold(id), passports'[id] = passports[id],
         ~ IsMigrationOf(e, id)
  PROVE  IsTold(id)'
<1>. DEFINE M == MigrationsOf(id, log)
            N == Len(log)
<1>1. /\ N \in Nat /\ DOMAIN log = 1 .. N /\ \A i \in 1 .. N : log'[i] = log[i]
      /\ M \in SUBSET (1 .. N) /\ M \in SUBSET (1 .. N + 1)
  BY DEF MigrationsOf
<1>2. /\ MigrationsOf(id, log') = M
      /\ KeyBefore(id, Len(log) + 1)' = KeyBefore(id, N + 1)
      /\ \A i \in 1 .. N + 1 :
           /\ KeyBefore(id, i)' = KeyBefore(id, i)
           /\ {j \in MigrationsOf(id, log') : j < i} = {j \in M : j < i}
           /\ ExpectedIndex({j \in M : j < i}, log') = ExpectedIndex({j \in M : j < i}, log)
  BY MigrationsGrow
<1>. HIDE DEF M, N
<1>. QED
  BY <1>1, <1>2 DEF IsTold, M, N

LEMMA RegistrationKeeps ==
  ASSUME PassportInv, NEW owner \in Owners, NEW key \in Keys, NEW genesis \in Geneses,
         NEW metadata \in Metadata, RegisterAgentPassport(owner, key, genesis, metadata)
  PROVE  PassportInv'
<1>. DEFINE id == [owner |-> owner, key |-> key, genesis |-> genesis]
            e == [name |-> "AgentPassportRegistered", passport |-> id, metadata |-> metadata]
<1>1. id \in Ids /\ id.key = key /\ e \in PassportEvents /\ e.passport = id
      /\ e.name = "AgentPassportRegistered"
  BY DEF Ids, PassportEvents
<1>2. /\ id \notin DOMAIN passports
      /\ DOMAIN passports' = DOMAIN passports \cup {id}
      /\ passports'[id] = [key |-> key, migrations |-> 0]
      /\ \A p \in DOMAIN passports : passports'[p] = passports[p]
      /\ log' = Append(log, e)
  BY DEF RegisterAgentPassport
<1>. HIDE DEF id, e
<1>3. /\ log \in Seq(PassportEvents) /\ log' \in Seq(PassportEvents)
      /\ DOMAIN log = 1 .. Len(log) /\ Len(log) \in Nat /\ DOMAIN log' = 1 .. Len(log) + 1
      /\ \A i \in DOMAIN log : log'[i] = log[i]
      /\ log'[Len(log) + 1] = e
  BY <1>1, <1>2, ToldByParts
<1>4. \A p : ~ IsMigrationOf(e, p)
  BY <1>1 DEF IsMigrationOf
<1>5. ASSUME NEW p \in DOMAIN passports PROVE IsTold(p)'
  BY <1>1, <1>2, <1>3, <1>4, OtherEventKeeps, ToldByParts
<1>6. IsTold(id)'
  <2>1. MigrationsOf(id, log) = {}
    BY <1>2, ToldByParts DEF MigrationsOf, IsMigrationOf
  <2>2. MigrationsOf(id, log') = {} /\ KeyBefore(id, Len(log) + 1)' = KeyBefore(id, Len(log) + 1)
    BY <1>1, <1>2, <1>3, <1>4, <2>1, MigrationsGrow
  <2>3. KeyBefore(id, Len(log) + 1) = key
    BY <1>1, <2>1 DEF KeyBefore
  <2>4. Cardinality({}) = 0
    BY FS_EmptySet
  <2>. QED
    BY <1>2, <2>2, <2>3, <2>4 DEF IsTold
<1>7. \A i \in DOMAIN log' : log'[i].passport \in DOMAIN passports'
  BY <1>1, <1>2, <1>3, ToldByParts
<1>8. DOMAIN passports' \subseteq Ids
  BY <1>1, <1>2, ToldByParts
<1>9. \A p \in DOMAIN passports' : IsTold(p)'
  BY <1>2, <1>5, <1>6
<1>. QED
  BY <1>3, <1>7, <1>8, <1>9 DEF PassportInv, IsTold, MigrationIndexesOk

LEMMA KeysAreKeys ==
  ASSUME log \in Seq(PassportEvents), NEW id \in Ids, NEW i
  PROVE  KeyBefore(id, i) \in Keys
<1>. DEFINE before == {j \in MigrationsOf(id, log) : j < i}
<1>1. id.key \in Keys
  BY DEF Ids
<1>2. ASSUME before # {} PROVE log[Max(before)].new \in Keys
  <2>1. before \in SUBSET (1 .. Len(log)) /\ Len(log) \in Nat
    BY DEF MigrationsOf
  <2>. DEFINE k == Max(before)
  <2>2. k \in before
    <3>. HIDE DEF before
    <3>. QED
      BY <1>2, <2>1, MaxIsGreatest
  <2>3. log[k] \in PassportEvents /\ IsMigrationOf(log[k], id)
    BY <2>1, <2>2 DEF MigrationsOf
  <2>. HIDE DEF k
  <2>4. log[k].new \in Keys
    BY <2>3 DEF IsMigrationOf, PassportEvents
  <2>. QED
    BY <2>4 DEF k
<1>. QED
  BY <1>1, <1>2 DEF KeyBefore

LEMMA MigrationKeeps ==
  ASSUME PassportInv, NEW id \in DOMAIN passports, NEW new \in Keys,
         NEW hash \in MigrationRecords(id), RecordAgentMigration(id, new, hash)
  PROVE  PassportInv'
<1>. DEFINE M == MigrationsOf(id, log)
            N == Len(log)
            old == passports[id].key
            n == passports[id].migrations
            e == [name |-> "AgentPassportMigrationRecorded", passport |-> id, old |-> old,
                  new |-> new, hash |-> hash, index |-> n + 1]
<1>1. /\ log \in Seq(PassportEvents) /\ id \in Ids /\ IsTold(id) /\ old \in Keys
  BY ToldByParts, KeysAreKeys DEF IsTold
<1>2. n = Cardinality(M) /\ n \in Nat /\ IsFiniteSet(M) /\ ExpectedIndex(M, log) = n + 1
  BY <1>1, HistoryIsNumbered DEF IsTold
<1>3. e \in PassportEvents /\ IsMigrationOf(e, id) /\ \A p : p # id => ~ IsMigrationOf(e, p)
  BY <1>1, <1>2 DEF PassportEvents, MigrationRecords, IsMigrationOf
<1>4. /\ DOMAIN passports' = DOMAIN passports
      /\ passports'[id] = [key |-> new, migrations |-> n + 1]
      /\ \A p \in DOMAIN passports : p # id => passports'[p] = passports[p]
      /\ log' = Append(log, e)
  BY DEF RecordAgentMigration
<1>5. e.passport = id /\ e.old = old /\ e.new = new /\ e.index = n + 1
  OBVIOUS
<1>. HIDE DEF e
<1>6. /\ log' \in Seq(PassportEvents)
      /\ DOMAIN log = 1 .. N /\ N \in Nat /\ DOMAIN log' = 1 .. N + 1
      /\ \A i \in DOMAIN log : log'[i] = log[i]
      /\ log'[N + 1] = e
  BY <1>1, <1>3, <1>4
<1>7. ASSUME NEW p \in DOMAIN passports, p # id PROVE IsTold(p)'
  BY <1>1, <1>3, <1>4, <1>7, OtherEventKeeps, ToldByParts
<1>8. IsTold(id)'
  <2>. HIDE DEF n, old, N
  <2>1. /\ MigrationsOf(id, log') = M \cup {N + 1}
        /\ KeyBefore(id, Len(log) + 1)' = new
        /\ \A i \in 1 .. N + 1 :
             /\ KeyBefore(id, i)' = KeyBefore(id, i)
             /\ {j \in MigrationsOf(id, log') : j < i} = {j \in M : j < i}
             /\ ExpectedIndex({j \in M : j < i}, log') = ExpectedIndex({j \in M : j < i}, log)
    BY <1>1, <1>3, <1>4, <1>5, MigrationsGrow DEF N
  <2>2. M \in SUBSET (1 .. N) /\ N + 1 \notin M /\ N + 1 \in 1 .. N + 1
        /\ {j \in M : j < N + 1} = M /\ 1 .. N \subseteq 1 .. N + 1
    <3>1. M \in SUBSET (1 .. N)
      BY <1>6 DEF MigrationsOf
    <3>. HIDE DEF M
    <3>2. \A j \in 1 .. N : j < N + 1 /\ j \in 1 .. N + 1
      BY <1>6
    <3>3. N + 1 \notin 1 .. N /\ N + 1 \in 1 .. N + 1
      BY <1>6
    <3>. QED
      BY <3>1, <3>2, <3>3
  <2>. HIDE DEF M
  <2>3. Cardinality(M \cup {N + 1}) = n + 1
    BY <1>2, <2>2, FS_AddElement
  <2>4. \A i \in M : /\ log'[i].old = KeyBefore(id, i)'
                     /\ log'[i].index = ExpectedIndex({j \in MigrationsOf(id, log') : j < i}, log')
    BY <1>1, <1>6, <2>1, <2>2 DEF IsTold, M
  <2>5. /\ log'[N + 1].old = KeyBefore(id, N + 1)
        /\ log'[N + 1].index = ExpectedIndex({j \in MigrationsOf(id, log') : j < N + 1}, log')
    BY <1>1, <1>2, <1>5, <1>6, <2>1, <2>2 DEF IsTold, old, N
  <2>6. ASSUME NEW i \in MigrationsOf(id, log')
        PROVE  /\ log'[i].old = KeyBefore(id, i)'
               /\ log'[i].index = ExpectedIndex({j \in MigrationsOf(id, log') : j < i}, log')
    BY <2>1, <2>2, <2>4, <2>5
  <2>7. /\ passports'[id].migrations = Cardinality(MigrationsOf(id, log'))
        /\ passports'[id].key = KeyBefore(id, Len(log) + 1)'
    BY <1>4, <2>1, <2>3
  <2>. QED
    BY <2>6, <2>7 DEF IsTold
<1>9. \A i \in DOMAIN log' : log'[i].passport \in DOMAIN passports'
  BY <1>4, <1>5, <1>6, ToldByParts
<1>10. DOMAIN passports' \subseteq Ids
  BY <1>4, ToldByParts
<1>11. \A p \in DOMAIN passports' : IsTold(p)'
  BY <1>4, <1>7, <1>8
<1>. QED
  BY <1>6, <1>9, <1>10, <1>11 DEF PassportInv, IsTold, MigrationIndexesOk

LEMMA PassportInductive == Spec => []PassportInv
<1>1. Init => PassportInv
  BY DEF Init, PassportInv, MigrationIndexesOk
<1>2. PassportInv /\ [Next]_vars => PassportInv'
  <2>. SUFFICES ASSUME PassportInv, [Next]_vars PROVE PassportInv'
    OBVIOUS
  <2>1. ASSUME NEW owner \in Owners, NEW key \in Keys, NEW genesis \in Geneses,
               NEW metadata \in Metadata, RegisterAgentPassport(owner, key, genesis, metadata)
        PROVE  PassportInv'
    BY <2>1, RegistrationKeeps
  <2>2. ASSUME NEW id \in DOMAIN passports, NEW new \in Keys, NEW hash \in MigrationRecords(id),
               RecordAgentMigration(id, new, hash)
        PROVE  PassportInv'
    BY <2>2, MigrationKeeps
  <2>3. CASE UNCHANGED vars
    BY <2>3 DEF vars, PassportInv, MigrationIndexesOk, KeyBefore
  <2>. QED
    BY <2>1, <2>2, <2>3 DEF Next
<1>. QED
  BY <1>1, <1>2, PTL DEF Spec

-----------------------------------------------------------------------------
LEMMA RangesOfTheLog ==
  ASSUME PassportInv, NEW events \in Ranges
  PROVE  events \in Seq(PassportEvents) /\ Range(events) \subseteq Range(log)
<1>1. PICK first \in 1 .. Len(log), last \in 1 .. Len(log) : events = SubSeq(log, first, last)
  BY DEF Ranges
<1>2. log \in Seq(PassportEvents)
  BY DEF PassportInv
<1>. QED
  BY <1>1, <1>2, SubRange

\* The event that a migration record is linked to is a step of its passport's key.
LEMMA LinkedIsAStep ==
  ASSUME PassportInv, NEW events \in Ranges, NEW id \in DOMAIN passports, NEW r,
         r.passport = id, MigrationLinked(r, events)
  PROVE  \E i \in MigrationsOf(id, log) : KeyBefore(id, i) = r.old /\ log[i].new = r.new
<1>. DEFINE M == MigrationEvents(r, events)
            k == Min(M)
<1>1. /\ events \in Seq(PassportEvents) /\ Range(events) \subseteq Range(log)
  BY RangesOfTheLog
<1>2. /\ M # {} /\ events[k].old = r.old /\ events[k].new = r.new
      /\ M \in SUBSET DOMAIN events
  BY DEF MigrationLinked, MigrationEvents, MigrationsOf
<1>3. k \in M /\ events[k] \in Range(log)
  <2>. HIDE DEF M
  <2>. QED
    BY <1>1, <1>2, FirstIsOne
<1>. HIDE DEF k
<1>4. IsMigrationOf(events[k], id)
  BY <1>3 DEF MigrationEvents, MigrationsOf
<1>5. PICK i \in DOMAIN log : log[i] = events[k]
  BY <1>3 DEF Range
<1>6. i \in MigrationsOf(id, log)
  BY <1>4, <1>5 DEF MigrationsOf
<1>. QED
  BY <1>2, <1>5, <1>6 DEF PassportInv

LEMMA MigrationsAreRetraced ==
  ASSUME PassportInv
  PROVE  MigrationsRetrace
<1>1. ASSUME NEW events \in Ranges, NEW id \in DOMAIN passports, NEW r \in MigrationRecords(id),
             MigrationLinked(r, events)
      PROVE  \E i \in MigrationsOf(id, log) : KeyBefore(id, i) = r.old /\ log[i].new = r.new
  <2>1. r.passport = id
    BY DEF MigrationRecords
  <2>. QED
    BY <1>1, <2>1, LinkedIsAStep
<1>. QED
  BY <1>1 DEF MigrationsRetrace, PassportInv

LEMMA HistoriesStart ==
  ASSUME PassportInv
  PROVE  HistoriesFromTheStart
<1>1. ASSUME NEW events \in Ranges, NEW id \in DOMAIN passports, MigrationIndexesOk(events)
      PROVE  {events[i].index : i \in MigrationsOf(id, events)}
               = 1 .. Cardinality(MigrationsOf(id, events))
  <2>1. events \in Seq(PassportEvents)
    BY RangesOfTheLog
  <2>. QED
    BY <1>1, <2>1, HistoryIsNumbered DEF MigrationIndexesOk
<1>. QED
  BY <1>1 DEF HistoriesFromTheStart, PassportInv

LEMMA VaultKeysAreHeld ==
  ASSUME PassportInv
  PROVE  VaultKeyWasHeld
<1>. SUFFICES ASSUME NEW events \in Ranges, NEW vault \in Vaults,
                     VaultLinked(vault, {r \in PassportRecords : PassportLinked(r, events)},
                                 {r \in MigrationRecords(vault.passport) :
                                    MigrationLinked(r, events)})
              PROVE  \E i \in 1 .. Len(log) + 1 : vault.key = KeyBefore(vault.passport, i)
  BY DEF VaultKeyWasHeld
<1>. DEFINE id == vault.passport
            N == Len(log)
<1>1. id \in DOMAIN passports /\ N \in Nat /\ DOMAIN log = 1 .. N /\ log \in Seq(PassportEvents)
  BY ToldByParts DEF Vaults
<1>2. CASE \E r \in PassportRecords : PassportId(r) = id /\ r.key = vault.key
  <2>1. id.key = vault.key
    BY <1>2 DEF PassportId
  <2>2. {j \in MigrationsOf(id, log) : j < 1} = {} /\ 1 \in 1 .. N + 1
    BY <1>1 DEF MigrationsOf
  <2>3. KeyBefore(id, 1) = id.key
    BY <2>2 DEF KeyBefore
  <2>. QED
    BY <2>1, <2>2, <2>3
<1>3. ASSUME NEW r \in MigrationRecords(id), MigrationLinked(r, events),
             r.passport = id, vault.key \in {r.old, r.new}
      PROVE  \E i \in 1 .. N + 1 : vault.key = KeyBefore(id, i)
  <2>1. PICK i \in MigrationsOf(id, log) : KeyBefore(id, i) = r.old /\ log[i].new = r.new
    BY <1>1, <1>3, LinkedIsAStep
  <2>2. i \in 1 .. N /\ i \in 1 .. N + 1 /\ i + 1 \in 1 .. N + 1
    BY <1>1, <2>1 DEF MigrationsOf
  <2>3. KeyBefore(id, i + 1) = log[i].new
    <3>. DEFINE before == {j \in MigrationsOf(id, log) : j < i + 1}
    <3>1. before \in SUBSET Nat /\ i \in before /\ \A j \in before : j <= i
      BY <1>1, <2>1, <2>2 DEF MigrationsOf
    <3>. HIDE DEF before
    <3>2. Max(before) = i /\ before # {}
      BY <3>1, MaxIs
    <3>. QED
      BY <3>2 DEF KeyBefore, before
  <2>. QED
    BY <1>3, <2>1, <2>2, <2>3
<1>. QED
  BY <1>2, <1>3 DEF VaultLinked

\* A migration record that passes the audit is a step that the passport's key took, a
\* file of events whose numbers pass tells its histories from the start, and the key of a
\* linked vault is one that the passport held: for any keys, hashes and ranges of blocks.
THEOREM HistoriesAreTold == Spec => []HistoriesAgree
<1>1. PassportInv => HistoriesAgree
  BY MigrationsAreRetraced, HistoriesStart, VaultKeysAreHeld DEF HistoriesAgree
<1>. QED
  BY <1>1, PassportInductive, PTL

-----------------------------------------------------------------------------
(* The end of a poll. *)

Phases == {"finalized", "expired_no_quorum"}

CommitEvent(v) == [name |-> "ValidatorVerdictCommitted", commitment |-> v]

RevealEvent(hash) == [name |-> "ValidatorVerdictRevealed", verdict |-> hash]

Events ==
  {[name |-> "ChallengeResponseSubmitted"]}
    \cup [name : {"AdjudicationPhaseStarted"},
          deadlines : {"after response", "after response window"}]
    \cup {CommitEvent(v) : v \in Validators}
    \cup {RevealEvent(hash) : hash \in VerdictHashes}
    \cup [name : {"ChallengeAdjudicationFinalized"}, upheld : BOOLEAN, text : ReportHashes,
          count : Nat]
    \cup [name : {"ChallengeAdjudicationExpiredNoQuorum"}, text : ReportHashes]

PollTypes ==
  /\ stage \in {"response", "commit", "reveal", "late"}
  /\ responded \in BOOLEAN
  /\ committed \subseteq Validators
  /\ Revealed \subseteq committed /\ IsFiniteSet(Revealed)
  /\ \A v \in Revealed : verdicts[v].upheld \in BOOLEAN /\ verdicts[v].hash \in VerdictHashes
  /\ quorum \in Quorums
  /\ pollLog \in Seq(Events)

\* A draft says what the contract showed when it was made, and the contract has
\* taken nothing of it back: a final outcome has its quorum and no more verdicts
\* than were revealed, and what is listed was committed and revealed.
DraftHolds(r) ==
  /\ r.version \in {1, 2} /\ r.phase \in Phases
  /\ r.upheld \in BOOLEAN /\ r.text \in ReportHashes
  /\ r.quorum \in Nat /\ r.count \in Nat
  /\ r.version = 1 => r.phase = "finalized"
  /\ r.phase = "finalized" => r.quorum <= r.count /\ r.count <= EffectiveCount(r.upheld)
  /\ r.commitments \subseteq committed
  /\ r.version = 2 =>
       \A v \in DOMAIN r.verdicts : v \in Revealed /\ r.verdicts[v] = verdicts[v].hash

Told == Range(pollLog)

\* What an event of the poll tells is still so: deadlines do not move once they are
\* announced, and a poll has one end.
EventsAreTrue ==
  \A e \in Told :
    /\ e.name = "AdjudicationPhaseStarted" => committed # {} /\ e.deadlines = Deadlines
    /\ e.name = "ChallengeAdjudicationFinalized" =>
         /\ result.phase = "finalized" /\ result.text = e.text
         /\ result.upheld = e.upheld /\ result.count = e.count
    /\ e.name = "ChallengeAdjudicationExpiredNoQuorum" =>
         result.phase = "expired_no_quorum" /\ result.text = e.text

Logged(name) == \E e \in Told : e.name = name

\* All that has happened has its event.
EventsAreComplete ==
  /\ committed # {} => Logged("AdjudicationPhaseStarted")
  /\ responded => Logged("ChallengeResponseSubmitted")
  /\ \A v \in committed : CommitEvent(v) \in Told
  /\ \A v \in Revealed : RevealEvent(verdicts[v].hash) \in Told
  /\ result.phase = "finalized" => Logged("ChallengeAdjudicationFinalized")
  /\ result.phase = "expired_no_quorum" => Logged("ChallengeAdjudicationExpiredNoQuorum")

ResultHolds ==
  \/ Open
  \/ /\ result.phase \in Phases /\ result.quorum \in Quorums
     /\ result.upheld \in BOOLEAN /\ result.count \in Nat
     /\ result.phase = "finalized" =>
          result.count = EffectiveCount(result.upheld) /\ result.quorum <= result.count

AuditInv ==
  /\ PollTypes
  /\ \A r \in drafts : DraftHolds(r)
  /\ committed # {} => stage # "response"
  /\ EventsAreTrue
  /\ EventsAreComplete
  /\ ResultHolds
  /\ EndedAsReported

-----------------------------------------------------------------------------
(* Counts, and the drafts and the log while the poll goes on.              *)

LEMMA CountIsNat ==
  ASSUME IsFiniteSet(Revealed), NEW upheld
  PROVE  EffectiveCount(upheld) \in Nat
<1>1. {v \in Revealed : verdicts[v].upheld = upheld} \in SUBSET Revealed
  OBVIOUS
<1>. QED
  BY <1>1, FS_Subset, FS_CardinalityType DEF EffectiveCount

\* Drafts hold as long as nothing is taken back.
LEMMA DraftsStay ==
  ASSUME PollTypes, NEW r, DraftHolds(r),
         committed \subseteq committed', Revealed \subseteq Revealed', IsFiniteSet(Revealed)',
         \A v \in Revealed : verdicts'[v] = verdicts[v]
  PROVE  DraftHolds(r)'
<1>1. ASSUME NEW upheld
      PROVE  /\ EffectiveCount(upheld) \in Nat /\ EffectiveCount(upheld)' \in Nat
             /\ EffectiveCount(upheld) <= EffectiveCount(upheld)'
  <2>. DEFINE S == {v \in Revealed : verdicts[v].upheld = upheld}
              T == {v \in Revealed' : verdicts'[v].upheld = upheld}
  <2>1. S \subseteq T /\ S \in SUBSET Revealed /\ T \in SUBSET Revealed'
    OBVIOUS
  <2>2. IsFiniteSet(S) /\ IsFiniteSet(T)
    BY <2>1, FS_Subset DEF PollTypes
  <2>3. EffectiveCount(upheld) = Cardinality(S) /\ EffectiveCount(upheld)' = Cardinality(T)
    BY DEF EffectiveCount
  <2>. HIDE DEF S, T
  <2>. QED
    BY <2>1, <2>2, <2>3, FS_Subset, FS_CardinalityType
<1>2. r.phase = "finalized" => r.count <= EffectiveCount(r.upheld)'
  BY <1>1 DEF DraftHolds
<1>. QED
  BY <1>2 DEF DraftHolds

\* The log with one more event.
LEMMA LogGains ==
  ASSUME PollTypes, NEW e \in Events, pollLog' = Append(pollLog, e)
  PROVE  pollLog' \in Seq(Events) /\ Told' = Told \cup {e}
<1>1. pollLog \in Seq(Events)
  BY DEF PollTypes
<1>. QED
  BY <1>1, AppendedRange DEF Told

-----------------------------------------------------------------------------
(* One lemma for each transaction, and for the drafts.                     *)

LEMMA RespondKeeps ==
  ASSUME AuditInv, Respond
  PROVE  AuditInv'
<1>. DEFINE e == [name |-> "ChallengeResponseSubmitted"]
<1>. USE DEF AuditInv
<1>1. e \in Events /\ pollLog' = Append(pollLog, e)
  BY DEF Respond, Events
<1>2. pollLog' \in Seq(Events) /\ Told' = Told \cup {e}
  BY <1>1, LogGains
<1>3. /\ UNCHANGED <<committed, verdicts, quorum, result, drafts, bonded>>
      /\ committed = {} /\ stage' = "commit" /\ responded' = TRUE /\ Open
  BY DEF Respond
<1>4. PollTypes'
  BY <1>2, <1>3 DEF PollTypes, Revealed
<1>5. \A r \in drafts' : DraftHolds(r)'
  BY <1>3 DEF DraftHolds, Revealed, EffectiveCount
<1>6. EventsAreTrue'
  BY <1>2, <1>3 DEF EventsAreTrue
<1>7. EventsAreComplete'
  BY <1>2, <1>3 DEF EventsAreComplete, Logged, Revealed, CommitEvent, RevealEvent
<1>8. ResultHolds' /\ EndedAsReported'
  BY <1>3 DEF ResultHolds, EndedAsReported, Open
<1>. QED
  BY <1>3, <1>4, <1>5, <1>6, <1>7, <1>8

LEMMA CommitKeeps ==
  ASSUME AuditInv, NEW v \in Validators, Commit(v)
  PROVE  AuditInv'
<1>. DEFINE start == [name |-> "AdjudicationPhaseStarted", deadlines |-> Deadlines]
            new == IF committed = {} THEN {start, CommitEvent(v)} ELSE {CommitEvent(v)}
<1>. USE DEF AuditInv
<1>1. /\ UNCHANGED <<stage, responded, verdicts, quorum, result, drafts, bonded>>
      /\ committed' = committed \cup {v} /\ stage = "commit" /\ Open
  BY DEF Commit
<1>2. pollLog' \in Seq(Events) /\ Told' = Told \cup new
  <2>1. start \in Events /\ CommitEvent(v) \in Events /\ pollLog \in Seq(Events)
    BY DEF Events, Deadlines, PollTypes
  <2>2. CASE committed = {}
    <3>. DEFINE started == Append(pollLog, start)
    <3>1. pollLog' = Append(started, CommitEvent(v))
      <4>1. pollLog' = pollLog \o <<start>> \o <<CommitEvent(v)>>
        BY <2>2 DEF Commit, CommitEvent
      <4>. HIDE DEF start
      <4>. QED
        BY <2>1, <4>1
    <3>. HIDE DEF start
    <3>2. started \in Seq(Events) /\ Range(started) = Range(pollLog) \cup {start}
      BY <2>1, AppendedRange
    <3>. HIDE DEF started
    <3>3. pollLog' \in Seq(Events) /\ Range(pollLog') = Range(started) \cup {CommitEvent(v)}
      BY <2>1, <3>1, <3>2, AppendedRange
    <3>. QED
      BY <2>2, <3>2, <3>3 DEF Told
  <2>3. CASE committed # {}
    <3>1. pollLog' = pollLog \o <<>> \o <<CommitEvent(v)>>
      BY <2>3 DEF Commit, CommitEvent
    <3>2. pollLog' = Append(pollLog, CommitEvent(v))
      BY <2>1, <3>1
    <3>. QED
      BY <2>1, <2>3, <3>2, LogGains
  <2>. QED
    BY <2>2, <2>3
<1>3. PollTypes'
  BY <1>1, <1>2 DEF PollTypes, Revealed
<1>4. \A r \in drafts' : DraftHolds(r)'
  BY <1>1 DEF DraftHolds, Revealed, EffectiveCount
<1>5. EventsAreTrue'
  <2>1. Deadlines' = Deadlines
    BY <1>1 DEF Deadlines
  <2>2. ASSUME NEW e \in Told'
        PROVE  e \in Told \/ e = start \/ e = CommitEvent(v)
    BY <1>2
  <2>3. start.name = "AdjudicationPhaseStarted" /\ start.deadlines = Deadlines
        /\ CommitEvent(v).name = "ValidatorVerdictCommitted"
    BY DEF CommitEvent
  <2>. HIDE DEF start
  <2>. QED
    BY <1>1, <2>1, <2>2, <2>3 DEF EventsAreTrue
<1>6. EventsAreComplete'
  <2>1. CommitEvent(v) \in Told' /\ Told \subseteq Told'
    BY <1>2
  <2>2. Logged("AdjudicationPhaseStarted")'
    <3>1. start.name = "AdjudicationPhaseStarted" /\ (committed = {} => start \in Told')
      BY <1>2
    <3>. QED
      BY <2>1, <3>1 DEF EventsAreComplete, Logged
  <2>3. \A w \in committed' : CommitEvent(w) \in Told'
    BY <1>1, <2>1 DEF EventsAreComplete
  <2>. QED
    BY <1>1, <2>1, <2>2, <2>3 DEF EventsAreComplete, Logged, Revealed, CommitEvent, RevealEvent
<1>7. ResultHolds' /\ EndedAsReported'
  BY <1>1 DEF ResultHolds, EndedAsReported, Open
<1>. QED
  BY <1>1, <1>3, <1>4, <1>5, <1>6, <1>7

LEMMA RevealKeeps ==
  ASSUME AuditInv, NEW v \in Validators, NEW upheld \in BOOLEAN, NEW hash \in VerdictHashes,
         Reveal(v, upheld, hash)
  PROVE  AuditInv'
<1>. USE DEF AuditInv
<1>1. /\ UNCHANGED <<stage, responded, committed, quorum, result, drafts, bonded>>
      /\ v \in committed /\ v \notin Revealed /\ Open
      /\ pollLog' = Append(pollLog, RevealEvent(hash))
  BY DEF Reveal, RevealEvent
<1>2. /\ Revealed' = Revealed \cup {v}
      /\ \A w \in Revealed : verdicts'[w] = verdicts[w]
      /\ verdicts'[v].upheld = upheld /\ verdicts'[v].hash = hash
  BY <1>1 DEF Reveal, Revealed
<1>3. pollLog' \in Seq(Events) /\ Told' = Told \cup {RevealEvent(hash)}
  <2>1. RevealEvent(hash) \in Events
    BY DEF Events
  <2>. QED
    BY <1>1, <2>1, LogGains
<1>4. PollTypes'
  BY <1>1, <1>2, <1>3, FS_AddElement DEF PollTypes
<1>5. \A r \in drafts' : DraftHolds(r)'
  BY <1>1, <1>2, <1>4, DraftsStay DEF PollTypes
<1>6. EventsAreTrue'
  <2>1. RevealEvent(hash).name = "ValidatorVerdictRevealed" /\ Deadlines' = Deadlines
    BY <1>1 DEF RevealEvent, Deadlines
  <2>. QED
    BY <1>1, <1>3, <2>1 DEF EventsAreTrue
<1>7. EventsAreComplete'
  BY <1>1, <1>2, <1>3 DEF EventsAreComplete, Logged, CommitEvent
<1>8. ResultHolds' /\ EndedAsReported'
  BY <1>1 DEF ResultHolds, EndedAsReported, Open
<1>. QED
  BY <1>1, <1>4, <1>5, <1>6, <1>7, <1>8

\* The quorum, the stage and the drafts: nothing that was voted, logged or ended changes.
LEMMA QuietStepKeeps ==
  ASSUME AuditInv, UNCHANGED <<responded, committed, verdicts, result, pollLog>>,
         stage' \in {"response", "commit", "reveal", "late"},
         stage # "response" => stage' # "response",
         quorum' \in Quorums, drafts \subseteq drafts', \A r \in drafts' \ drafts : DraftHolds(r)
  PROVE  AuditInv'
<1>. USE DEF AuditInv
<1>1. PollTypes'
  BY DEF PollTypes, Revealed
<1>2. \A r \in drafts' : DraftHolds(r)'
  BY DEF DraftHolds, Revealed, EffectiveCount
<1>3. EventsAreTrue' /\ EventsAreComplete'
  BY DEF EventsAreTrue, EventsAreComplete, Told, Logged, Deadlines, Revealed, CommitEvent,
     RevealEvent
<1>4. ResultHolds'
  BY DEF ResultHolds, Open, EffectiveCount, Revealed
<1>5. EndedAsReported'
  BY DEF EndedAsReported, Open
<1>. QED
  BY <1>1, <1>2, <1>3, <1>4, <1>5

\* A draft, valid when it is made, holds: in a final one the quorum is reached.
LEMMA DraftKeeps ==
  ASSUME AuditInv, NEW r, Draft(r), DraftHolds(r)
  PROVE  AuditInv'
<1>1. /\ UNCHANGED <<stage, responded, committed, verdicts, quorum, result, pollLog>>
      /\ drafts' = drafts \cup {r}
  BY DEF Draft
<1>. QED
  BY <1>1, QuietStepKeeps DEF AuditInv, PollTypes

LEMMA DraftFinalKeeps ==
  ASSUME AuditInv, NEW version \in {1, 2}, NEW upheld \in BOOLEAN, NEW text \in ReportHashes,
         DraftFinal(version, upheld, text)
  PROVE  AuditInv'
<1>. DEFINE listed == IF version = 1 THEN <<>> ELSE VerdictHashesSeen
            r == NewReport(version, "finalized", upheld, text, quorum, EffectiveCount(upheld),
                           listed)
<1>1. Draft(r) /\ ValidReport(r)
  BY DEF DraftFinal, Draft
<1>2. EffectiveCount(upheld) \in Nat /\ quorum \in Nat
  BY CountIsNat, QuorumsAssumption DEF AuditInv, PollTypes
<1>3. version = 2 => \A v \in DOMAIN listed : v \in Revealed /\ listed[v] = verdicts[v].hash
  BY DEF VerdictHashesSeen
<1>4. /\ r.version = version /\ r.phase = "finalized" /\ r.upheld = upheld /\ r.text = text
      /\ r.quorum = quorum /\ r.count = EffectiveCount(upheld)
      /\ r.commitments = committed /\ r.verdicts = listed
  BY DEF NewReport
<1>. HIDE DEF r, listed
<1>5. quorum <= EffectiveCount(upheld)
  BY <1>1, <1>2, <1>4 DEF ValidReport, EnoughVerdicts
<1>6. DraftHolds(r)
  BY <1>2, <1>3, <1>4, <1>5 DEF DraftHolds, Phases
<1>. QED
  BY <1>1, <1>6, DraftKeeps

LEMMA DraftExpiredKeeps ==
  ASSUME AuditInv, NEW text \in ReportHashes, DraftExpired(text)
  PROVE  AuditInv'
<1>. DEFINE r == NewReport(2, "expired_no_quorum", FALSE, text, quorum, EffectiveCount(TRUE),
                           VerdictHashesSeen)
<1>1. Draft(r)
  BY DEF DraftExpired
<1>2. EffectiveCount(TRUE) \in Nat /\ quorum \in Nat
  BY CountIsNat, QuorumsAssumption DEF AuditInv, PollTypes
<1>3. \A v \in DOMAIN VerdictHashesSeen :
        v \in Revealed /\ VerdictHashesSeen[v] = verdicts[v].hash
  BY DEF VerdictHashesSeen
<1>4. /\ r.version = 2 /\ r.phase = "expired_no_quorum" /\ r.text = text
      /\ r.quorum = quorum /\ r.count = EffectiveCount(TRUE)
      /\ r.commitments = committed /\ r.verdicts = VerdictHashesSeen
      /\ r.upheld \in BOOLEAN
  BY DEF NewReport
<1>. HIDE DEF r
<1>5. r.phase # "finalized" /\ r.phase \in Phases /\ r.version # 1 /\ r.version \in {1, 2}
  BY <1>4 DEF Phases
<1>6. \A v \in DOMAIN r.verdicts : v \in Revealed /\ r.verdicts[v] = verdicts[v].hash
  BY <1>3, <1>4
<1>7. r.quorum \in Nat /\ r.count \in Nat /\ r.commitments \subseteq committed
  BY <1>2, <1>4
<1>8. r.upheld \in BOOLEAN /\ r.text \in ReportHashes
  BY <1>4
<1>9. DraftHolds(r)
  BY <1>5, <1>6, <1>7, <1>8, Zenon DEF DraftHolds
<1>. QED
  BY <1>1, <1>9, DraftKeeps

\* An open poll has no event of an end.
LEMMA OpenIsNotEnded ==
  ASSUME AuditInv, Open
  PROVE  \A e \in Told : e.name \notin {"ChallengeAdjudicationFinalized",
                                        "ChallengeAdjudicationExpiredNoQuorum"}
<1>1. result.phase = "none"
  BY DEF Open, NoResult
<1>. QED
  BY <1>1 DEF AuditInv, EventsAreTrue

\* The draft that finalizes the poll has the quorum of its time, which the contract's
\* count has not fallen below.
LEMMA FinalizeKeeps ==
  ASSUME AuditInv, NEW r \in drafts, FinalizeWith(r)
  PROVE  AuditInv'
<1>. USE DEF AuditInv
<1>. DEFINE end == [phase |-> "finalized", upheld |-> r.upheld, text |-> r.text,
                    count |-> EffectiveCount(r.upheld), quorum |-> quorum]
            e == [name |-> "ChallengeAdjudicationFinalized", upheld |-> r.upheld,
                  text |-> r.text, count |-> EffectiveCount(r.upheld)]
<1>1. /\ UNCHANGED <<stage, responded, committed, verdicts, quorum, drafts, bonded>>
      /\ Open /\ r.phase = "finalized" /\ EffectiveCount(r.upheld) >= quorum
      /\ result' = end /\ pollLog' = Append(pollLog, e)
  BY DEF FinalizeWith, Ends
<1>2. DraftHolds(r) /\ EffectiveCount(r.upheld) \in Nat /\ quorum \in Nat /\ quorum \in Quorums
  BY CountIsNat, QuorumsAssumption DEF PollTypes
<1>3. e \in Events
  BY <1>2 DEF Events, DraftHolds
<1>4. /\ e.name = "ChallengeAdjudicationFinalized" /\ e.upheld = r.upheld
      /\ e.text = r.text /\ e.count = EffectiveCount(r.upheld)
      /\ end.phase = "finalized" /\ end.upheld = r.upheld /\ end.text = r.text
      /\ end.count = EffectiveCount(r.upheld) /\ end.quorum = quorum
  OBVIOUS
<1>. HIDE DEF e, end
<1>5. pollLog' \in Seq(Events) /\ Told' = Told \cup {e}
  BY <1>1, <1>3, LogGains
<1>6. PollTypes'
  BY <1>1, <1>5 DEF PollTypes, Revealed
<1>7. \A d \in drafts' : DraftHolds(d)'
  BY <1>1 DEF DraftHolds, Revealed, EffectiveCount
<1>8. EventsAreTrue'
  BY <1>1, <1>4, <1>5, OpenIsNotEnded DEF EventsAreTrue, Deadlines
<1>9. EventsAreComplete'
  BY <1>1, <1>4, <1>5 DEF EventsAreComplete, Logged, Revealed, CommitEvent, RevealEvent
<1>10. ResultHolds'
  <2>1. EffectiveCount(r.upheld)' = EffectiveCount(r.upheld)
    BY <1>1 DEF EffectiveCount, Revealed
  <2>. QED
    BY <1>1, <1>2, <1>4, <2>1 DEF ResultHolds, Phases, DraftHolds
<1>11. EndedAsReported'
  BY <1>1, <1>2, <1>4 DEF EndedAsReported, DraftHolds
<1>. QED
  BY <1>1, <1>6, <1>7, <1>8, <1>9, <1>10, <1>11

LEMMA ExpireKeeps ==
  ASSUME AuditInv, NEW r \in drafts, ExpireWith(r)
  PROVE  AuditInv'
<1>. USE DEF AuditInv
<1>. DEFINE end == [phase |-> "expired_no_quorum", upheld |-> FALSE, text |-> r.text,
                    count |-> EffectiveCount(TRUE), quorum |-> quorum]
            e == [name |-> "ChallengeAdjudicationExpiredNoQuorum", text |-> r.text]
<1>1. /\ UNCHANGED <<stage, responded, committed, verdicts, quorum, drafts, bonded>>
      /\ Open /\ r.phase = "expired_no_quorum"
      /\ result' = end /\ pollLog' = Append(pollLog, e)
  BY DEF ExpireWith, Ends
<1>2. DraftHolds(r) /\ EffectiveCount(TRUE) \in Nat /\ quorum \in Quorums
  BY CountIsNat DEF PollTypes
<1>3. e \in Events
  BY <1>2 DEF Events, DraftHolds
<1>4. /\ e.name = "ChallengeAdjudicationExpiredNoQuorum" /\ e.text = r.text
      /\ end.phase = "expired_no_quorum" /\ end.upheld = FALSE /\ end.text = r.text
      /\ end.count = EffectiveCount(TRUE) /\ end.quorum = quorum
  OBVIOUS
<1>. HIDE DEF e, end
<1>5. pollLog' \in Seq(Events) /\ Told' = Told \cup {e}
  BY <1>1, <1>3, LogGains
<1>6. PollTypes'
  BY <1>1, <1>5 DEF PollTypes, Revealed
<1>7. \A d \in drafts' : DraftHolds(d)'
  BY <1>1 DEF DraftHolds, Revealed, EffectiveCount
<1>8. EventsAreTrue'
  BY <1>1, <1>4, <1>5, OpenIsNotEnded DEF EventsAreTrue, Deadlines
<1>9. EventsAreComplete'
  BY <1>1, <1>4, <1>5 DEF EventsAreComplete, Logged, Revealed, CommitEvent, RevealEvent
<1>10. ResultHolds'
  BY <1>1, <1>2, <1>4 DEF ResultHolds, Phases
<1>11. EndedAsReported'
  BY <1>1, <1>4 DEF EndedAsReported
<1>. QED
  BY <1>1, <1>6, <1>7, <1>8, <1>9, <1>10, <1>11

LEMMA AuditInductive == AuditSpec => []AuditInv
<1>1. AuditInit => AuditInv
  <2>. SUFFICES ASSUME AuditInit PROVE AuditInv
    OBVIOUS
  <2>1. Revealed = {} /\ Told = {} /\ result.phase = "none"
    BY DEF AuditInit, Revealed, Told, Range, NoResult
  <2>2. PollTypes
    <3>1. IsFiniteSet(Revealed)
      BY <2>1, FS_EmptySet
    <3>2. responded \in BOOLEAN
      BY DEF AuditInit
    <3>3. pollLog \in Seq(Events)
      BY DEF AuditInit
    <3>. QED
      BY <2>1, <3>1, <3>2, <3>3 DEF AuditInit, PollTypes
  <2>. QED
    BY <2>1, <2>2 DEF AuditInit, AuditInv, EventsAreTrue, EventsAreComplete, ResultHolds,
       EndedAsReported, Open
<1>2. AuditInv /\ [AuditNext]_auditVars => AuditInv'
  <2>. SUFFICES ASSUME AuditInv, [AuditNext]_auditVars PROVE AuditInv'
    OBVIOUS
  <2>1. CASE Respond
    BY <2>1, RespondKeeps
  <2>2. ASSUME NEW v \in Validators, Commit(v) PROVE AuditInv'
    BY <2>2, CommitKeeps
  <2>3. ASSUME NEW v \in Validators, NEW upheld \in BOOLEAN, NEW hash \in VerdictHashes,
               Reveal(v, upheld, hash)
        PROVE  AuditInv'
    BY <2>3, RevealKeeps
  <2>4. ASSUME NEW q \in Quorums, SetQuorum(q) PROVE AuditInv'
    BY <2>4, QuietStepKeeps DEF SetQuorum, AuditInv, PollTypes
  <2>5. CASE Tick
    BY <2>5, QuietStepKeeps DEF Tick, AuditInv, PollTypes
  <2>6. ASSUME NEW version \in {1, 2}, NEW upheld \in BOOLEAN, NEW text \in ReportHashes,
               DraftFinal(version, upheld, text)
        PROVE  AuditInv'
    BY <2>6, DraftFinalKeeps
  <2>7. ASSUME NEW text \in ReportHashes, DraftExpired(text) PROVE AuditInv'
    BY <2>7, DraftExpiredKeeps
  <2>8. ASSUME NEW r \in drafts, FinalizeWith(r) \/ ExpireWith(r) PROVE AuditInv'
    BY <2>8, FinalizeKeeps, ExpireKeeps
  <2>9. CASE UNCHANGED auditVars
    BY <2>9, QuietStepKeeps DEF auditVars, AuditInv, PollTypes
  <2>. QED
    BY <2>1, <2>2, <2>3, <2>4, <2>5, <2>6, <2>7, <2>8, <2>9 DEF AuditNext
<1>. QED
  BY <1>1, <1>2, PTL DEF AuditSpec

-----------------------------------------------------------------------------
(* The audit.                                                              *)

\* The first event of a name that a file of events holds is one of its events.
LEMMA FirstOfIsOne ==
  ASSUME NEW events \in Seq(Events), NEW name, Found(events, name)
  PROVE  /\ FirstOf(events, name) \in Range(events)
         /\ FirstOf(events, name).name = name
<1>. DEFINE T == {i \in DOMAIN events : events[i].name = name}
<1>1. T # {} /\ T \in SUBSET DOMAIN events
  BY DEF Found
<1>2. Min(T) \in T /\ events[Min(T)] \in Range(events)
  BY <1>1, FirstIsOne
<1>. QED
  BY <1>2 DEF FirstOf

\* What passes the audit, with any range of the log, is true of the poll.
LEMMA PassingIsTrue ==
  ASSUME AuditInv, NEW r \in drafts, NEW first \in 1 .. Len(pollLog),
         NEW last \in 1 .. Len(pollLog), AuditOk(r, Indexed(first, last))
  PROVE  /\ result.phase = r.phase /\ result.text = r.text
         /\ r.phase = "finalized" => result.upheld = r.upheld /\ result.count = r.count
         /\ r.commitments \subseteq committed
         /\ r.version = 2 => \A v \in DOMAIN r.verdicts : r.verdicts[v] = verdicts[v].hash
         /\ r.version = 2 => r.deadlines = Deadlines
<1>. DEFINE events == Indexed(first, last)
<1>1. events \in Seq(Events) /\ Range(events) \subseteq Told
  BY SubRange DEF AuditInv, PollTypes, Indexed, Told
<1>2. DraftHolds(r) /\ EventsAreTrue
  BY DEF AuditInv
<1>. HIDE DEF events
<1>3. ASSUME FinalLinked(r, events)
      PROVE  /\ result.phase = "finalized" /\ result.text = r.text
             /\ result.upheld = r.upheld /\ result.count = r.count
  BY <1>1, <1>2, <1>3, FirstOfIsOne DEF FinalLinked, EventsAreTrue
<1>4. ASSUME ExpiryLinked(r, events)
      PROVE  result.phase = "expired_no_quorum" /\ result.text = r.text
  BY <1>1, <1>2, <1>4, FirstOfIsOne DEF ExpiryLinked, EventsAreTrue
<1>5. ASSUME DeadlinesLinked(r, events)
      PROVE  r.deadlines = Deadlines
  BY <1>1, <1>2, <1>5, FirstOfIsOne DEF DeadlinesLinked, EventsAreTrue
<1>6. CASE r.version = 1
  BY <1>2, <1>3, <1>6 DEF AuditOk, LegacyLinked, events, DraftHolds
<1>7. CASE r.version = 2
  BY <1>2, <1>3, <1>4, <1>5, <1>7 DEF AuditOk, CurrentLinked, events, DraftHolds, Phases
<1>. QED
  BY <1>2, <1>6, <1>7 DEF DraftHolds

\* A poll ends as a report said, and a report that passes the audit, with any part of the
\* log, tells how: whatever was revealed, reported or changed between draft, transaction
\* and audit.
THEOREM ReportsAreTrue == AuditSpec => []ReportsTellTheEnd
<1>1. AuditInv => ReportsTellTheEnd
  BY PassingIsTrue DEF AuditInv, ReportsTellTheEnd, AuditIsSound
<1>. QED
  BY <1>1, AuditInductive, PTL

\* All that the honest report lists has its event in the log.
LEMMA HonestIsLinked ==
  ASSUME AuditInv, ~Open, bonded, committed # {}, IsInjective(VerdictHashesSeen)
  PROVE  AuditOk(HonestReport, pollLog)
<1>. DEFINE r == HonestReport
<1>. USE DEF AuditInv
<1>1. /\ r.version = 2 /\ r.phase = result.phase /\ r.upheld = result.upheld
      /\ r.text = result.text /\ r.quorum = result.quorum /\ r.count = result.count
      /\ r.responses = responded /\ r.commitments = committed
      /\ r.verdicts = VerdictHashesSeen /\ r.deadlines = Deadlines
  BY DEF HonestReport, NewReport
<1>. HIDE DEF r
<1>2. pollLog \in Seq(Events) /\ result.phase \in Phases
  BY DEF PollTypes, ResultHolds
<1>3. ASSUME NEW e \in Told
      PROVE  \E i \in DOMAIN pollLog : pollLog[i] = e
  BY DEF Told, Range
<1>4. ASSUME NEW name, Logged(name)
      PROVE  /\ Found(pollLog, name)
             /\ FirstOf(pollLog, name) \in Told /\ FirstOf(pollLog, name).name = name
  <2>1. Found(pollLog, name)
    BY <1>3, <1>4 DEF Logged, Found
  <2>. QED
    BY <1>2, <2>1, FirstOfIsOne DEF Told
<1>5. ValidReport(r)
  BY <1>1, QuorumsAssumption DEF ValidReport, NoDuplicates, EnoughVerdicts, ResultHolds
<1>6. DeadlinesLinked(r, pollLog)
  BY <1>1, <1>4 DEF DeadlinesLinked, EventsAreComplete, EventsAreTrue
<1>7. RespondedLinked(r, pollLog)
  BY <1>1, <1>4 DEF RespondedLinked, EventsAreComplete
<1>8. CommitmentsLinked(r, pollLog)
  BY <1>1, <1>3 DEF CommitmentsLinked, EventsAreComplete, CommitEvent
<1>9. VerdictsLinked(r, pollLog)
  <2>1. ASSUME NEW v \in DOMAIN r.verdicts
        PROVE  \E i \in DOMAIN pollLog : pollLog[i] = RevealEvent(r.verdicts[v])
    <3>1. v \in Revealed /\ r.verdicts[v] = verdicts[v].hash
      BY <1>1 DEF VerdictHashesSeen
    <3>. QED
      BY <1>3, <3>1 DEF EventsAreComplete
  <2>. QED
    BY <1>1, <2>1 DEF VerdictsLinked, RevealEvent
<1>10. CASE r.phase = "finalized"
  <2>1. FinalLinked(r, pollLog)
    BY <1>1, <1>4, <1>10 DEF FinalLinked, EventsAreComplete, EventsAreTrue
  <2>. QED
    BY <1>1, <1>5, <1>6, <1>7, <1>8, <1>9, <1>10, <2>1
       DEF AuditOk, CurrentLinked, BondAudited, r
<1>11. CASE r.phase = "expired_no_quorum"
  <2>1. ExpiryLinked(r, pollLog)
    BY <1>1, <1>4, <1>11 DEF ExpiryLinked, EventsAreComplete, EventsAreTrue
  <2>. QED
    BY <1>1, <1>5, <1>6, <1>7, <1>8, <1>9, <1>11, <2>1
       DEF AuditOk, CurrentLinked, BondAudited, r
<1>. QED
  BY <1>1, <1>2, <1>10, <1>11 DEF Phases

\* Once a poll has ended, the report that says how it ended passes the audit of the log,
\* except where deadlines were never announced or two verdict hashes coincide.
THEOREM HonestReportsPass == AuditSpec => []HonestReportPasses
<1>1. AuditInv => HonestReportPasses
  BY HonestIsLinked DEF HonestReportPasses
<1>. QED
  BY <1>1, AuditInductive, PTL

-----------------------------------------------------------------------------
(* Evidence and challenges. *)

\* The challenges that an account won, had to answer for, or lost.
WonBy(a) == {c \in DOMAIN challenges : challenges[c] = "upheld" /\ c.challenger = a}

Against(a) == {c \in DOMAIN challenges : challenges[c] = "upheld" /\ c.evidence.reporter = a}

LostBy(a) == {c \in DOMAIN challenges : challenges[c] = "rejected" /\ c.challenger = a}

EvidenceTypesHold ==
  /\ IsFiniteSet(DOMAIN evidence)
  /\ \A e \in DOMAIN evidence : e.reporter \in Accounts
  /\ IsFiniteSet(DOMAIN challenges)
  /\ \A c \in DOMAIN challenges :
       /\ c.evidence \in DOMAIN evidence /\ c.challenger \in Accounts
       /\ challenges[c] \in {"submitted", "upheld", "rejected"}
  /\ reputation \in [Accounts -> Int]

\* The events of reports and resolutions tell what the contract holds, and all of it.
OutcomesAreLogged ==
  /\ \A x \in evidenceLog :
       /\ x.name = "EvidenceSubmitted" => x.evidence \in DOMAIN evidence
       /\ x.name = "ChallengeResolved" =>
            /\ x.challenge \in DOMAIN challenges
            /\ challenges[x.challenge] = IF x.upheld THEN "upheld" ELSE "rejected"
       /\ x.name = "ChallengeResolvedOnAlreadyInvalidated" => x.challenge \in DOMAIN challenges
  /\ \A c \in DOMAIN challenges :
       /\ challenges[c] = "upheld" => Resolved(c, TRUE, evidenceLog)
       /\ challenges[c] = "rejected" => Resolved(c, FALSE, evidenceLog)
  /\ \A c \in Unsettled : challenges[c] = "upheld"

\* The challenges that an account was not paid for winning, or not charged for.
UnpaidTo(a) == {c \in Unsettled : c.challenger = a}

UnchargedTo(a) == {c \in Unsettled : c.evidence.reporter = a}

\* Reputations, with what was left unsettled, are what the outcomes add up to.
Tally(a) == 5 * Cardinality(WonBy(a)) - 10 * Cardinality(Against(a)) - 2 * Cardinality(LostBy(a))

OutcomesAddUp == \A a \in Accounts : reputation[a] + UnsettledPoints(a) = Tally(a)

EvidenceInv == EvidenceTypesHold /\ OutcomesAreLogged /\ OutcomesAddUp

-----------------------------------------------------------------------------
\* A set that one more element joins, or none.
LEMMA CountWithOneMore ==
  ASSUME NEW S, IsFiniteSet(S), NEW c, c \notin S, NEW joins \in BOOLEAN,
         NEW T, T = IF joins THEN S \cup {c} ELSE S
  PROVE  /\ Cardinality(S) \in Nat
         /\ Cardinality(T) = Cardinality(S) + IF joins THEN 1 ELSE 0
  BY FS_AddElement, FS_CardinalityType

\* The events of what was left unsettled, and of resolutions.
Waiver(c) == [name |-> "ChallengeResolvedOnAlreadyInvalidated", challenge |-> c]

Resolution(c, upheld) == [name |-> "ChallengeResolved", challenge |-> c, upheld |-> upheld]

LEMMA EventsOfChallenges ==
  /\ \A c : /\ Waiver(c).name = "ChallengeResolvedOnAlreadyInvalidated"
            /\ Waiver(c).challenge = c
  /\ \A c, upheld : /\ Resolution(c, upheld).name = "ChallengeResolved"
                    /\ Resolution(c, upheld).challenge = c
                    /\ Resolution(c, upheld).upheld = upheld
  /\ Unsettled = {c \in DOMAIN challenges : Waiver(c) \in evidenceLog}
  BY DEF Waiver, Resolution, Unsettled

LEMMA TalliesAreFinite ==
  ASSUME EvidenceTypesHold, NEW a
  PROVE  /\ IsFiniteSet(WonBy(a)) /\ IsFiniteSet(Against(a)) /\ IsFiniteSet(LostBy(a))
         /\ Cardinality(WonBy(a)) \in Nat /\ Cardinality(Against(a)) \in Nat
         /\ Cardinality(LostBy(a)) \in Nat
         /\ IsFiniteSet(UnpaidTo(a)) /\ IsFiniteSet(UnchargedTo(a))
         /\ Cardinality(UnpaidTo(a)) \in Nat /\ Cardinality(UnchargedTo(a)) \in Nat
<1>1. /\ WonBy(a) \in SUBSET DOMAIN challenges /\ Against(a) \in SUBSET DOMAIN challenges
      /\ LostBy(a) \in SUBSET DOMAIN challenges /\ UnpaidTo(a) \in SUBSET DOMAIN challenges
      /\ UnchargedTo(a) \in SUBSET DOMAIN challenges
  BY DEF WonBy, Against, LostBy, Unsettled, UnpaidTo, UnchargedTo
<1>2. /\ IsFiniteSet(WonBy(a)) /\ IsFiniteSet(Against(a)) /\ IsFiniteSet(LostBy(a))
      /\ IsFiniteSet(UnpaidTo(a)) /\ IsFiniteSet(UnchargedTo(a))
  BY <1>1, FS_Subset DEF EvidenceTypesHold
<1>. QED
  BY <1>2, FS_CardinalityType

\* A step that leaves the challenges and the reputations alone.
LEMMA EvidenceStepKeeps ==
  ASSUME EvidenceInv, UNCHANGED <<challenges, reputation>>,
         DOMAIN evidence \subseteq DOMAIN evidence', IsFiniteSet(DOMAIN evidence'),
         \A e \in DOMAIN evidence' : e.reporter \in Accounts,
         NEW x, evidenceLog' = evidenceLog \cup {x},
         x.name \notin {"ChallengeResolved", "ChallengeResolvedOnAlreadyInvalidated"},
         x.name = "EvidenceSubmitted" => x.evidence \in DOMAIN evidence'
  PROVE  EvidenceInv'
<1>1. EvidenceTypesHold'
  BY DEF EvidenceInv, EvidenceTypesHold
<1>3. Unsettled' = Unsettled /\ \A a : UnsettledPoints(a)' = UnsettledPoints(a)
  <2>1. \A c : Waiver(c) \in evidenceLog' <=> Waiver(c) \in evidenceLog
    BY EventsOfChallenges
  <2>2. Unsettled' = {c \in DOMAIN challenges : Waiver(c) \in evidenceLog'}
    BY DEF Unsettled, Waiver
  <2>3. Unsettled' = Unsettled
    BY <2>1, <2>2, EventsOfChallenges
  <2>. QED
    BY <2>3 DEF UnsettledPoints
<1>2. OutcomesAreLogged'
  BY <1>3 DEF EvidenceInv, OutcomesAreLogged, Resolved
<1>4. \A a : Tally(a)' = Tally(a)
  BY DEF Tally, WonBy, Against, LostBy
<1>. QED
  BY <1>1, <1>2, <1>3, <1>4 DEF EvidenceInv, OutcomesAddUp

LEMMA SubmissionKeeps ==
  ASSUME EvidenceInv, NEW f \in Reports, NEW sender \in Accounts,
         SubmitValidatorReport(f, sender)
  PROVE  EvidenceInv'
<1>. DEFINE id == [file |-> f, reporter |-> sender, type |-> RecordedType(f, sender)]
            x == [name |-> "EvidenceSubmitted", evidence |-> id]
<1>1. /\ DOMAIN evidence' = DOMAIN evidence \cup {id}
      /\ evidenceLog' = evidenceLog \cup {x} /\ UNCHANGED <<challenges, reputation>>
  BY DEF SubmitValidatorReport
<1>2. id.reporter = sender /\ x.name = "EvidenceSubmitted" /\ x.evidence = id
  OBVIOUS
<1>. HIDE DEF id, x
<1>3. IsFiniteSet(DOMAIN evidence \cup {id})
  BY FS_AddElement DEF EvidenceInv, EvidenceTypesHold
<1>4. \A e \in DOMAIN evidence' : e.reporter \in Accounts
  BY <1>1, <1>2 DEF EvidenceInv, EvidenceTypesHold
<1>. QED
  BY <1>1, <1>2, <1>3, <1>4, EvidenceStepKeeps

LEMMA InvalidationKeeps ==
  ASSUME EvidenceInv, NEW e \in DOMAIN evidence, InvalidateEvidence(e)
  PROVE  EvidenceInv'
<1>. DEFINE x == [name |-> "EvidenceInvalidated", evidence |-> e]
<1>1. /\ DOMAIN evidence' = DOMAIN evidence
      /\ evidenceLog' = evidenceLog \cup {x} /\ UNCHANGED <<challenges, reputation>>
  BY DEF InvalidateEvidence
<1>2. x.name = "EvidenceInvalidated"
  OBVIOUS
<1>. HIDE DEF x
<1>3. IsFiniteSet(DOMAIN evidence') /\ \A d \in DOMAIN evidence' : d.reporter \in Accounts
  BY <1>1 DEF EvidenceInv, EvidenceTypesHold
<1>. QED
  BY <1>1, <1>2, <1>3, EvidenceStepKeeps

LEMMA ChallengeKeeps ==
  ASSUME EvidenceInv, NEW e \in DOMAIN evidence, NEW a \in Accounts, SubmitChallenge(e, a)
  PROVE  EvidenceInv'
<1>. DEFINE id == [evidence |-> e, challenger |-> a]
            x == [name |-> "ChallengeSubmitted", challenge |-> id]
<1>1. /\ id \notin DOMAIN challenges
      /\ DOMAIN challenges' = DOMAIN challenges \cup {id}
      /\ challenges'[id] = "submitted" /\ \A c \in DOMAIN challenges : challenges'[c] = challenges[c]
      /\ evidenceLog' = evidenceLog \cup {x} /\ UNCHANGED <<evidence, reputation>>
  BY DEF SubmitChallenge
<1>2. id.evidence = e /\ id.challenger = a /\ x.name = "ChallengeSubmitted"
  OBVIOUS
<1>. HIDE DEF id, x
<1>3. IsFiniteSet(DOMAIN challenges \cup {id})
  BY FS_AddElement DEF EvidenceInv, EvidenceTypesHold
<1>4. EvidenceTypesHold'
  BY <1>1, <1>2, <1>3 DEF EvidenceInv, EvidenceTypesHold
<1>6. Unsettled' = Unsettled /\ \A b : UnsettledPoints(b)' = UnsettledPoints(b)
  <2>1. Unsettled' = {c \in DOMAIN challenges \cup {id} : Waiver(c) \in evidenceLog'}
    BY <1>1 DEF Unsettled, Waiver
  <2>2. \A c : Waiver(c) \in evidenceLog' <=> Waiver(c) \in evidenceLog
    BY <1>1, <1>2, EventsOfChallenges
  <2>3. Waiver(id) \notin evidenceLog
    BY <1>1, EventsOfChallenges DEF EvidenceInv, OutcomesAreLogged
  <2>4. Unsettled' = Unsettled
    BY <2>1, <2>2, <2>3, EventsOfChallenges
  <2>. QED
    BY <2>4 DEF UnsettledPoints
<1>5. OutcomesAreLogged'
  BY <1>1, <1>2, <1>6 DEF EvidenceInv, OutcomesAreLogged, Resolved, Unsettled
<1>7. ASSUME NEW b
      PROVE  Tally(b)' = Tally(b)
  <2>1. WonBy(b)' = WonBy(b)
    BY <1>1 DEF WonBy
  <2>2. Against(b)' = Against(b)
    BY <1>1 DEF Against
  <2>3. LostBy(b)' = LostBy(b)
    BY <1>1 DEF LostBy
  <2>. QED
    BY <2>1, <2>2, <2>3 DEF Tally
<1>8. OutcomesAddUp'
  BY <1>1, <1>6, <1>7 DEF EvidenceInv, OutcomesAddUp
<1>. QED
  BY <1>4, <1>5, <1>8 DEF EvidenceInv

\* A resolution moves a challenge to one of the three tallies of two accounts; one that
\* moves no reputation leaves it unsettled.
LEMMA ResolutionKeeps ==
  ASSUME EvidenceInv, NEW c \in DOMAIN challenges, NEW upheld \in BOOLEAN,
         ResolveChallenge(c, upheld)
  PROVE  EvidenceInv'
<1>. DEFINE outcome == IF upheld THEN "upheld" ELSE "rejected"
            settles == upheld /\ evidence[c.evidence] = "active"
            x == [name |-> "ChallengeResolved", challenge |-> c, upheld |-> upheld]
            more == IF ~upheld THEN {}
                    ELSE IF settles THEN {[name |-> "EvidenceInvalidated", evidence |-> c.evidence]}
                    ELSE {[name |-> "ChallengeResolvedOnAlreadyInvalidated", challenge |-> c]}
<1>1. /\ challenges[c] = "submitted"
      /\ challenges' = [challenges EXCEPT ![c] = outcome]
      /\ DOMAIN evidence' = DOMAIN evidence
      /\ evidenceLog' = evidenceLog \cup {x} \cup more
  BY DEF ResolveChallenge
<1>2. /\ DOMAIN challenges' = DOMAIN challenges /\ challenges'[c] = outcome
      /\ \A d \in DOMAIN challenges \ {c} : challenges'[d] = challenges[d]
  BY <1>1
<1>3. /\ x.name = "ChallengeResolved" /\ x.challenge = c /\ x.upheld = upheld
      /\ \A y \in more :
           /\ y.name \notin {"ChallengeResolved", "EvidenceSubmitted"}
           /\ y.name = "ChallengeResolvedOnAlreadyInvalidated" => y.challenge = c
  OBVIOUS
<1>4. reputation' \in [Accounts -> Int]
  BY DEF ResolveChallenge, EvidenceInv, EvidenceTypesHold
<1>5. EvidenceTypesHold'
  BY <1>1, <1>2, <1>4 DEF EvidenceInv, EvidenceTypesHold
<1>7. /\ Unsettled' = IF upheld /\ ~settles THEN Unsettled \cup {c} ELSE Unsettled
      /\ c \notin Unsettled
  <2>1. \A d : Waiver(d) # x
    BY <1>3, EventsOfChallenges
  <2>2. \A d : Waiver(d) \in more <=> upheld /\ ~settles /\ d = c
    <3>1. CASE upheld /\ ~settles
      <4>1. more = {Waiver(c)}
        BY <3>1 DEF Waiver
      <4>. HIDE DEF more
      <4>. QED
        BY <3>1, <4>1, EventsOfChallenges
    <3>2. CASE ~(upheld /\ ~settles)
      <4>1. \A y \in more : y.name = "EvidenceInvalidated"
        BY <3>2
      <4>. HIDE DEF more
      <4>. QED
        BY <3>2, <4>1, EventsOfChallenges
    <3>. QED
      BY <3>1, <3>2
  <2>. HIDE DEF x, more, settles
  <2>3. \A d : Waiver(d) \in evidenceLog' <=> Waiver(d) \in evidenceLog \/ Waiver(d) \in more
    BY <1>1, <2>1
  <2>4. Unsettled = {d \in DOMAIN challenges : Waiver(d) \in evidenceLog}
    BY EventsOfChallenges
  <2>5. Unsettled' = {d \in DOMAIN challenges : Waiver(d) \in evidenceLog'}
    BY <1>2 DEF Unsettled, Waiver
  <2>6. c \notin Unsettled
    BY <1>1 DEF EvidenceInv, OutcomesAreLogged
  <2>. QED
    BY <2>2, <2>3, <2>4, <2>5, <2>6
<1>6. OutcomesAreLogged'
  <2>1. \A y \in evidenceLog' :
          /\ y.name = "EvidenceSubmitted" => y.evidence \in DOMAIN evidence'
          /\ y.name = "ChallengeResolved" =>
               /\ y.challenge \in DOMAIN challenges'
               /\ challenges'[y.challenge] = IF y.upheld THEN "upheld" ELSE "rejected"
          /\ y.name = "ChallengeResolvedOnAlreadyInvalidated" =>
               y.challenge \in DOMAIN challenges'
    <3>. SUFFICES ASSUME NEW y \in evidenceLog'
                  PROVE  /\ y.name = "EvidenceSubmitted" => y.evidence \in DOMAIN evidence'
                         /\ y.name = "ChallengeResolved" =>
                              /\ y.challenge \in DOMAIN challenges'
                              /\ challenges'[y.challenge] = IF y.upheld THEN "upheld"
                                                                        ELSE "rejected"
                         /\ y.name = "ChallengeResolvedOnAlreadyInvalidated" =>
                              y.challenge \in DOMAIN challenges'
      OBVIOUS
    <3>. HIDE DEF more
    <3>1. CASE y \in evidenceLog
      <4>. HIDE DEF x
      <4>. QED
        BY <1>1, <1>2, <3>1 DEF EvidenceInv, OutcomesAreLogged
    <3>2. CASE y = x
      BY <1>2, <1>3, <3>2
    <3>3. CASE y \in more
      BY <1>2, <1>3, <3>3
    <3>. QED
      BY <1>1, <3>1, <3>2, <3>3
  <2>2. ASSUME NEW d \in DOMAIN challenges'
        PROVE  /\ challenges'[d] = "upheld" => Resolved(d, TRUE, evidenceLog)'
               /\ challenges'[d] = "rejected" => Resolved(d, FALSE, evidenceLog)'
    <3>. HIDE DEF more
    <3>1. CASE d = c
      <4>1. upheld => Resolved(c, TRUE, evidenceLog)'
        BY <1>1 DEF Resolved
      <4>2. ~upheld => Resolved(c, FALSE, evidenceLog)'
        BY <1>1 DEF Resolved
      <4>. QED
        BY <1>2, <3>1, <4>1, <4>2
    <3>2. CASE d # c
      BY <1>1, <1>2, <3>2 DEF EvidenceInv, OutcomesAreLogged, Resolved
    <3>. QED
      BY <3>1, <3>2
  <2>3. \A d \in Unsettled' : challenges'[d] = "upheld"
    BY <1>2, <1>7 DEF EvidenceInv, OutcomesAreLogged, Unsettled
  <2>. QED
    BY <2>1, <2>2, <2>3 DEF OutcomesAreLogged
<1>8. ASSUME NEW a \in Accounts
      PROVE  reputation'[a] + UnsettledPoints(a)' = Tally(a)'
  <2>. HIDE DEF x, more
  <2>1. WonBy(a)' = IF upheld /\ c.challenger = a THEN WonBy(a) \cup {c} ELSE WonBy(a)
    BY <1>1, <1>2 DEF WonBy
  <2>2. Against(a)' = IF upheld /\ c.evidence.reporter = a THEN Against(a) \cup {c}
                                                           ELSE Against(a)
    BY <1>1, <1>2 DEF Against
  <2>3. LostBy(a)' = IF ~upheld /\ c.challenger = a THEN LostBy(a) \cup {c} ELSE LostBy(a)
    BY <1>1, <1>2 DEF LostBy
  <2>4. c \notin WonBy(a) /\ c \notin Against(a) /\ c \notin LostBy(a)
    BY <1>1 DEF WonBy, Against, LostBy
  <2>5. /\ IsFiniteSet(WonBy(a)) /\ IsFiniteSet(Against(a)) /\ IsFiniteSet(LostBy(a))
        /\ Cardinality(WonBy(a)) \in Nat /\ Cardinality(Against(a)) \in Nat
        /\ Cardinality(LostBy(a)) \in Nat
        /\ IsFiniteSet(UnpaidTo(a)) /\ IsFiniteSet(UnchargedTo(a))
        /\ Cardinality(UnpaidTo(a)) \in Nat /\ Cardinality(UnchargedTo(a)) \in Nat
    BY TalliesAreFinite DEF EvidenceInv
  <2>6. Cardinality(WonBy(a)') = Cardinality(WonBy(a)) + IF upheld /\ c.challenger = a THEN 1 ELSE 0
    BY <2>1, <2>4, <2>5, CountWithOneMore
  <2>7. Cardinality(Against(a)')
          = Cardinality(Against(a)) + IF upheld /\ c.evidence.reporter = a THEN 1 ELSE 0
    BY <2>2, <2>4, <2>5, CountWithOneMore
  <2>8. Cardinality(LostBy(a)')
          = Cardinality(LostBy(a)) + IF ~upheld /\ c.challenger = a THEN 1 ELSE 0
    BY <2>3, <2>4, <2>5, CountWithOneMore
  <2>9. reputation[a] \in Int
    BY DEF EvidenceInv, EvidenceTypesHold
  <2>10. reputation'[a] = IF settles
           THEN reputation[a] + (IF a = c.challenger THEN 5 ELSE 0)
                              - (IF a = c.evidence.reporter THEN 10 ELSE 0)
           ELSE IF upheld THEN reputation[a]
           ELSE IF a = c.challenger THEN reputation[a] - 2 ELSE reputation[a]
    BY DEF ResolveChallenge, EvidenceInv, EvidenceTypesHold
  <2>12. UnpaidTo(a)' = IF upheld /\ ~settles /\ c.challenger = a THEN UnpaidTo(a) \cup {c}
                                                                 ELSE UnpaidTo(a)
    BY <1>7 DEF UnpaidTo
  <2>13. UnchargedTo(a)' = IF upheld /\ ~settles /\ c.evidence.reporter = a
                             THEN UnchargedTo(a) \cup {c} ELSE UnchargedTo(a)
    BY <1>7 DEF UnchargedTo
  <2>14. c \notin UnpaidTo(a) /\ c \notin UnchargedTo(a)
    BY <1>7 DEF UnpaidTo, UnchargedTo
  <2>15. Cardinality(UnpaidTo(a)')
           = Cardinality(UnpaidTo(a)) + IF upheld /\ ~settles /\ c.challenger = a THEN 1 ELSE 0
    BY <2>5, <2>12, <2>14, CountWithOneMore
  <2>16. Cardinality(UnchargedTo(a)')
           = Cardinality(UnchargedTo(a))
               + IF upheld /\ ~settles /\ c.evidence.reporter = a THEN 1 ELSE 0
    BY <2>5, <2>13, <2>14, CountWithOneMore
  <2>17. /\ UnsettledPoints(a) = 5 * Cardinality(UnpaidTo(a)) - 10 * Cardinality(UnchargedTo(a))
         /\ UnsettledPoints(a)' = 5 * Cardinality(UnpaidTo(a)')
                                    - 10 * Cardinality(UnchargedTo(a)')
    BY DEF UnsettledPoints, UnpaidTo, UnchargedTo
  <2>18. reputation[a] + UnsettledPoints(a) = Tally(a)
    BY DEF EvidenceInv, OutcomesAddUp
  <2>19. settles => upheld
    OBVIOUS
  <2>. HIDE DEF settles
  <2>11. Tally(a)' = 5 * Cardinality(WonBy(a)') - 10 * Cardinality(Against(a)')
                     - 2 * Cardinality(LostBy(a)')
    BY DEF Tally
  <2>. QED
    BY <2>5, <2>6, <2>7, <2>8, <2>9, <2>10, <2>11, <2>15, <2>16, <2>17, <2>18, <2>19 DEF Tally
<1>9. OutcomesAddUp'
  BY <1>8 DEF OutcomesAddUp
<1>. QED
  BY <1>5, <1>6, <1>9 DEF EvidenceInv

LEMMA EvidenceInductive == EvidenceSpec => []EvidenceInv
<1>1. EvidenceInit => EvidenceInv
  <2>. SUFFICES ASSUME EvidenceInit PROVE EvidenceInv
    OBVIOUS
  <2>1. DOMAIN evidence = {} /\ DOMAIN challenges = {} /\ evidenceLog = {}
    BY DEF EvidenceInit
  <2>2. EvidenceTypesHold /\ OutcomesAreLogged
    BY <2>1, FS_EmptySet DEF EvidenceInit, EvidenceTypesHold, OutcomesAreLogged, Unsettled
  <2>3. \A a : WonBy(a) = {} /\ Against(a) = {} /\ LostBy(a) = {}
    BY <2>1 DEF WonBy, Against, LostBy
  <2>4. \A a : Tally(a) = 0 /\ UnsettledPoints(a) = 0
    <3>1. Unsettled = {}
      BY <2>1 DEF Unsettled
    <3>. QED
      BY <2>3, <3>1, FS_EmptySet DEF Tally, UnsettledPoints
  <2>. QED
    BY <2>2, <2>4 DEF EvidenceInv, OutcomesAddUp, EvidenceInit
<1>2. EvidenceInv /\ [EvidenceNext]_evidenceVars => EvidenceInv'
  <2>. SUFFICES ASSUME EvidenceInv, [EvidenceNext]_evidenceVars PROVE EvidenceInv'
    OBVIOUS
  <2>1. CASE UNCHANGED <<evidence, challenges, reputation, evidenceLog>>
    BY <2>1 DEF EvidenceInv, EvidenceTypesHold, OutcomesAreLogged, OutcomesAddUp, Resolved,
                Unsettled, UnsettledPoints, Tally, WonBy, Against, LostBy
  <2>2. ASSUME NEW v \in Accounts, NEW allowed \in BOOLEAN, SetValidatorProfile(v, allowed)
        PROVE  EvidenceInv'
    BY <2>1, <2>2 DEF SetValidatorProfile
  <2>3. CASE UNCHANGED evidenceVars
    BY <2>1, <2>3 DEF evidenceVars
  <2>. QED
    BY <2>2, <2>3, SubmissionKeeps, InvalidationKeeps, ChallengeKeeps, ResolutionKeeps
    DEF EvidenceNext
<1>. QED
  BY <1>1, <1>2, PTL DEF EvidenceSpec

-----------------------------------------------------------------------------
\* A record that passes is right about the outcome it says, and says "upheld" of an
\* upheld challenge when nothing of the log is left out.
LEMMA StatusAgrees ==
  ASSUME EvidenceInv
  PROVE  AuditedStatusAgrees
<1>. SUFFICES ASSUME NEW r \in Records, NEW events \in Seen(r.challenge),
                     ChallengeLinked(r, events)
              PROVE  /\ r.status # "submitted" => challenges[r.challenge] = r.status
                     /\ EventsOf(r.challenge) \subseteq events
                          /\ challenges[r.challenge] = "upheld" => r.status = "upheld"
  BY DEF AuditedStatusAgrees
<1>. DEFINE c == r.challenge
<1>1. /\ c \in DOMAIN challenges /\ r.status \in {"submitted", "upheld", "rejected"}
      /\ events \subseteq EventsOf(c) /\ EventsOf(c) \subseteq evidenceLog
      /\ r.status # "submitted" => Resolution(c, r.status = "upheld") \in events
      /\ Resolution(c, r.status # "upheld") \notin events
  BY DEF Records, ChallengeLinked, StatusMatches, Resolved, Resolution, Seen, EventsOf
<1>. HIDE DEF c
<1>2. ASSUME NEW upheld \in BOOLEAN, Resolution(c, upheld) \in evidenceLog
      PROVE  /\ challenges[c] = IF upheld THEN "upheld" ELSE "rejected"
             /\ Resolution(c, upheld) \in EventsOf(c)
  BY <1>2, EventsOfChallenges DEF EvidenceInv, OutcomesAreLogged, EventsOf
<1>3. challenges[c] = "upheld" => Resolution(c, TRUE) \in evidenceLog
  BY <1>1 DEF EvidenceInv, OutcomesAreLogged, Resolved, Resolution
<1>4. CASE r.status = "upheld"
  <2>1. Resolution(c, TRUE) \in evidenceLog
    BY <1>1, <1>4
  <2>. QED
    BY <1>2, <1>4, <2>1 DEF c
<1>5. CASE r.status = "rejected"
  <2>1. Resolution(c, FALSE) \in evidenceLog
    BY <1>1, <1>5
  <2>. QED
    BY <1>2, <1>5, <2>1 DEF c
<1>6. CASE r.status = "submitted"
  <2>1. Resolution(c, TRUE) \notin events
    BY <1>1, <1>6
  <2>2. challenges[c] = "upheld" => Resolution(c, TRUE) \in EventsOf(c)
    BY <1>2, <1>3
  <2>. QED
    BY <1>6, <2>1, <2>2 DEF c
<1>. QED
  BY <1>1, <1>4, <1>5, <1>6

\* The records of a bundle of passing ones.
LEMMA BundlesAgree ==
  ASSUME EvidenceInv, NEW bundle \in SeqOf(Passing, MaxBundle)
  PROVE  /\ IsFiniteSet(DOMAIN bundle)
         /\ \A i \in DOMAIN bundle :
              /\ bundle[i] \in Records /\ bundle[i].challenge \in DOMAIN challenges
              /\ bundle[i].status # "submitted" =>
                   challenges[bundle[i].challenge] = bundle[i].status
<1>1. PICK n \in 0 .. MaxBundle : bundle \in [1 .. n -> Passing]
  BY DEF SeqOf
<1>2. n \in Nat /\ DOMAIN bundle = 1 .. n
  BY <1>1, MaxBundleAssumption
<1>3. IsFiniteSet(DOMAIN bundle)
  BY <1>2, FS_Interval
<1>4. ASSUME NEW r \in Passing
      PROVE  /\ r \in Records /\ r.challenge \in DOMAIN challenges
             /\ r.status # "submitted" => challenges[r.challenge] = r.status
  BY StatusAgrees DEF Passing, AuditedStatusAgrees, Records
<1>. QED
  BY <1>1, <1>2, <1>3, <1>4

\* A bundle that tells every outcome once has as many records of an outcome as there are
\* challenges with it, whichever of these are counted.
LEMMA RecordsCountChallenges ==
  ASSUME EvidenceInv, NEW bundle \in SeqOf(Passing, MaxBundle), TellsOnce(bundle),
         NEW status \in {"upheld", "rejected"},
         NEW C \in SUBSET {c \in DOMAIN challenges : challenges[c] = status}
  PROVE  Cardinality({i \in With(bundle, status) : bundle[i].challenge \in C})
           = Cardinality(C)
<1>. DEFINE R == {i \in With(bundle, status) : bundle[i].challenge \in C}
            told == [i \in R |-> bundle[i].challenge]
<1>1. IsFiniteSet(R)
  <2>1. R \in SUBSET DOMAIN bundle
    BY DEF With
  <2>. QED
    BY <2>1, BundlesAgree, FS_Subset
<1>2. ASSUME NEW c \in C
      PROVE  \E i : {j \in R : bundle[j].challenge = c} = {i}
  <2>1. c \in ResolvedChallenges /\ challenges[c] = status
    BY DEF ResolvedChallenges
  <2>2. Telling(bundle, c) = {j \in R : bundle[j].challenge = c}
    BY <2>1 DEF Telling, With
  <2>3. Cardinality(Telling(bundle, c)) = 1
    BY <2>1 DEF TellsOnce
  <2>4. IsFiniteSet(Telling(bundle, c))
    BY <1>1, <2>2, FS_Subset
  <2>. QED
    BY <2>2, <2>3, <2>4, FS_Singleton
<1>3. told \in [R -> C] /\ DOMAIN told = R
  OBVIOUS
<1>4. \A i, j \in R : told[i] = told[j] => i = j
  <2>. SUFFICES ASSUME NEW i \in R, NEW j \in R, told[i] = told[j] PROVE i = j
    OBVIOUS
  <2>1. bundle[i].challenge = bundle[j].challenge /\ bundle[i].challenge \in C
    OBVIOUS
  <2>2. PICK k : {m \in R : bundle[m].challenge = bundle[i].challenge} = {k}
    BY <1>2, <2>1
  <2>. QED
    BY <2>1, <2>2
<1>5. \A c \in C : \E i \in R : told[i] = c
  <2>. SUFFICES ASSUME NEW c \in C PROVE \E i \in R : told[i] = c
    OBVIOUS
  <2>1. PICK k : {m \in R : bundle[m].challenge = c} = {k}
    BY <1>2
  <2>. QED
    BY <2>1
<1>. HIDE DEF R, told
<1>6. told \in Injection(R, C) /\ told \in Surjection(R, C)
  BY <1>3, <1>4, <1>5 DEF Injection, IsInjective, Surjection
<1>7. ExistsBijection(R, C)
  BY <1>6 DEF ExistsBijection, Bijection
<1>8. Cardinality(R) = Cardinality(C)
  BY <1>1, <1>7, FS_Bijection
<1>. QED
  BY <1>8 DEF R

LEMMA ReputationsAgree ==
  ASSUME EvidenceInv
  PROVE  ReputationAgrees
<1>. SUFFICES ASSUME NEW bundle \in SeqOf(Passing, MaxBundle), TellsOnce(bundle),
                     Attributed(bundle), NEW a \in Accounts
              PROVE  ReputationOf(bundle, a) = reputation[a] + UnsettledPoints(a)
  BY DEF ReputationAgrees, SeqOf
<1>1. ASSUME NEW i \in DOMAIN bundle
      PROVE  /\ bundle[i].challenge \in DOMAIN challenges
             /\ bundle[i].status # "submitted" =>
                  challenges[bundle[i].challenge] = bundle[i].status
  BY BundlesAgree
<1>2. /\ {i \in With(bundle, "upheld") : bundle[i].challenge.challenger = a}
           = {i \in With(bundle, "upheld") : bundle[i].challenge \in WonBy(a)}
      /\ {i \in With(bundle, "upheld") : bundle[i].reporter = a}
           = {i \in With(bundle, "upheld") : bundle[i].challenge \in Against(a)}
      /\ {i \in With(bundle, "rejected") : bundle[i].challenge.challenger = a}
           = {i \in With(bundle, "rejected") : bundle[i].challenge \in LostBy(a)}
  BY <1>1 DEF With, WonBy, Against, LostBy, Attributed
<1>3. /\ WonBy(a) \in SUBSET {c \in DOMAIN challenges : challenges[c] = "upheld"}
      /\ Against(a) \in SUBSET {c \in DOMAIN challenges : challenges[c] = "upheld"}
      /\ LostBy(a) \in SUBSET {c \in DOMAIN challenges : challenges[c] = "rejected"}
  BY DEF WonBy, Against, LostBy
<1>4. Cardinality({i \in With(bundle, "upheld") : bundle[i].challenge \in WonBy(a)})
        = Cardinality(WonBy(a))
  BY <1>3, RecordsCountChallenges
<1>5. Cardinality({i \in With(bundle, "upheld") : bundle[i].challenge \in Against(a)})
        = Cardinality(Against(a))
  BY <1>3, RecordsCountChallenges
<1>6. Cardinality({i \in With(bundle, "rejected") : bundle[i].challenge \in LostBy(a)})
        = Cardinality(LostBy(a))
  BY <1>3, RecordsCountChallenges
<1>7. ReputationOf(bundle, a) = Tally(a)
  BY <1>2, <1>4, <1>5, <1>6 DEF ReputationOf, Tally
<1>. QED
  BY <1>7 DEF EvidenceInv, OutcomesAddUp

\* The outcomes that records passing the audit of any range tell are the contract's, and
\* so are the reputations computed from them when each outcome is told once and the
\* reporters are named, but for the challenges that the contract left unsettled.
THEOREM OutcomesAreTold == EvidenceSpec => []OutcomesAgree
  BY EvidenceInductive, StatusAgrees, ReputationsAgree, PTL DEF OutcomesAgree

-----------------------------------------------------------------------------
(* Summaries.  After any number of files, what was accepted counts, the    *)
(* groups and runners are those of the validators' reports accepted, and   *)
(* no two of these share one.                                              *)

Reported(summary) == {f \in summary.accepted : f.type = "validator_report"}

SummaryHolds(summary, bundle) ==
  /\ \A f \in summary.accepted : Counts(f, bundle)
  /\ summary.groups = {f.group : f \in Reported(summary)}
  /\ summary.runners = {f.runner : f \in Reported(summary)}
  /\ \A f, g \in Reported(summary) : f # g => Independent(f, g)

GoodSummaries(S, bundle) ==
  {s \in [accepted : SUBSET S, score : Int, groups : SUBSET {f.group : f \in S},
          runners : SUBSET {f.runner : f \in S}] : SummaryHolds(s, bundle)}

LEMMA ConsideredStaysGood ==
  ASSUME NEW S \in SUBSET Files, NEW bundle, NEW s \in GoodSummaries(S, bundle), NEW f \in S
  PROVE  Considered(s, f, bundle) \in GoodSummaries(S, bundle)
<1>. DEFINE t == Accept(s, f)
<1>1. SUFFICES ASSUME Counts(f, bundle), ~Capped(f, s)
               PROVE  t \in GoodSummaries(S, bundle)
  BY DEF Considered
<1>2. /\ s.accepted \subseteq S /\ s.score \in Int
      /\ s.groups \subseteq {g.group : g \in S} /\ s.runners \subseteq {g.runner : g \in S}
      /\ SummaryHolds(s, bundle)
  BY DEF GoodSummaries
<1>3. Weight(f.type) \in Int
  BY FilesAssumption DEF Weight, EvidenceTypes
<1>4. /\ t.accepted = s.accepted \cup {f} /\ t.score = s.score + Weight(f.type)
      /\ t.groups = s.groups \cup IF f.type = "validator_report" THEN {f.group} ELSE {}
      /\ t.runners = s.runners \cup IF f.type = "validator_report" THEN {f.runner} ELSE {}
      /\ t = [accepted |-> t.accepted, score |-> t.score, groups |-> t.groups,
              runners |-> t.runners]
  BY DEF Accept
<1>. HIDE DEF t
<1>5. t \in [accepted : SUBSET S, score : Int, groups : SUBSET {g.group : g \in S},
             runners : SUBSET {g.runner : g \in S}]
  <2>1. t.accepted \in SUBSET S /\ t.score \in Int
    BY <1>2, <1>3, <1>4
  <2>2. t.groups \in SUBSET {g.group : g \in S} /\ t.runners \in SUBSET {g.runner : g \in S}
    BY <1>2, <1>4
  <2>. QED
    BY <1>4, <2>1, <2>2
<1>6. Reported(t) = IF f.type = "validator_report" THEN Reported(s) \cup {f} ELSE Reported(s)
  BY <1>4 DEF Reported
<1>7. t.groups = {g.group : g \in Reported(t)} /\ t.runners = {g.runner : g \in Reported(t)}
  BY <1>2, <1>4, <1>6 DEF SummaryHolds
<1>8. ASSUME f.type = "validator_report", NEW g \in Reported(s)
      PROVE  Independent(f, g) /\ Independent(g, f)
  BY <1>1, <1>2, <1>8 DEF Capped, SummaryHolds, Independent
<1>9. \A g, h \in Reported(t) : g # h => Independent(g, h)
  BY <1>2, <1>6, <1>8 DEF SummaryHolds
<1>10. \A g \in t.accepted : Counts(g, bundle)
  BY <1>1, <1>2, <1>4 DEF SummaryHolds
<1>. QED
  BY <1>5, <1>7, <1>9, <1>10 DEF GoodSummaries, SummaryHolds

LEMMA SummariesAreGood ==
  ASSUME NEW S \in SUBSET Files, NEW bundle, NEW files \in Seq(S)
  PROVE  EvidenceSummary(files, bundle) \in GoodSummaries(S, bundle)
<1>. DEFINE X == GoodSummaries(S, bundle)
            N == Len(files)
            step == [n \in 1 .. N |-> [s \in X |-> Considered(s, files[n], bundle)]]
            after == Summaries(files, bundle)
<1>1. N \in Nat /\ \A n \in 1 .. N : files[n] \in S
  OBVIOUS
<1>2. NoSummary \in X
  BY DEF GoodSummaries, SummaryHolds, NoSummary, Reported
<1>3. \A n \in 1 .. N : \A s \in X : Considered(s, files[n], bundle) \in X
  BY <1>1, ConsideredStaysGood
<1>4. step \in [1 .. N -> [X -> X]]
  BY <1>3
<1>5. after = CHOOSE s : s = [n \in 0 .. N |-> IF n = 0 THEN NoSummary
                                         ELSE Considered(s[n - 1], files[n], bundle)]
  BY DEF Summaries
<1>. HIDE DEF X, N, after
<1>6. \E s : s = [n \in 0 .. N |-> IF n = 0 THEN NoSummary
                                   ELSE Considered(s[n - 1], files[n], bundle)]
  <2>. HIDE DEF step
  <2>1. PICK s \in [0 .. N -> X] :
               s[0] = NoSummary /\ \A n \in 1 .. N : s[n] = step[n][s[n - 1]]
    <3>1. step \in Steps(X, N)
      BY <1>4 DEF Steps
    <3>2. \E s \in [0 .. N -> X] : Follows(s, NoSummary, N, step)
      BY <1>1, <1>2, <3>1, StepByStep
    <3>. QED
      BY <3>2 DEF Follows
  <2>2. s = [n \in 0 .. N |-> s[n]]
    OBVIOUS
  <2>3. ASSUME NEW n \in 0 .. N
        PROVE  s[n] = IF n = 0 THEN NoSummary ELSE Considered(s[n - 1], files[n], bundle)
    <3>1. CASE n # 0
      <4>1. n \in 1 .. N /\ n - 1 \in 0 .. N
        BY <1>1, <3>1
      <4>2. s[n - 1] \in X
        BY <4>1
      <4>. QED
        BY <2>1, <3>1, <4>1, <4>2 DEF step
    <3>. QED
      BY <2>1, <3>1
  <2>4. s = [n \in 0 .. N |-> IF n = 0 THEN NoSummary
                              ELSE Considered(s[n - 1], files[n], bundle)]
    BY <2>2, <2>3
  <2>. QED
    BY <2>4
<1>7. after = [n \in 0 .. N |-> IF n = 0 THEN NoSummary
                                ELSE Considered(after[n - 1], files[n], bundle)]
  BY <1>5, <1>6
<1>8. after[0] \in X
  BY <1>1, <1>2, <1>7
<1>9. \A n \in 1 .. N : after[n - 1] \in X => after[n] \in X
  <2>. SUFFICES ASSUME NEW n \in 1 .. N, after[n - 1] \in X PROVE after[n] \in X
    OBVIOUS
  <2>1. n \in 0 .. N /\ n # 0
    BY <1>1
  <2>2. after[n] = Considered(after[n - 1], files[n], bundle)
    BY <1>7, <2>1
  <2>. QED
    BY <1>3, <2>2
<1>10. after[N] \in X
  <2>1. \A n \in 0 .. N : after[n] \in X
    BY <1>1, <1>8, <1>9, StaysIn
  <2>. QED
    BY <1>1, <2>1
<1>. QED
  BY <1>10 DEF EvidenceSummary, after, N, X

\* Two groups are the groups of two reports.
LEMMA TwoGroups ==
  ASSUME NEW S, S # {}, \A x, y \in S : x = y
  PROVE  Cardinality(S) = 1
<1>1. PICK x \in S : TRUE
  OBVIOUS
<1>2. S = {x}
  BY <1>1
<1>. QED
  BY <1>2, FS_Singleton

\* A linked report is the evidence of an account.
LEMMA LinkedIsEvidence ==
  ASSUME EvidenceInv, NEW f \in Reports, EvidenceLinked(f, evidenceLog)
  PROVE  EvidenceId(f) \in DOMAIN evidence /\ f.reporter \in Accounts
<1>. DEFINE x == [name |-> "EvidenceSubmitted", evidence |-> EvidenceId(f)]
<1>1. x \in evidenceLog /\ x.name = "EvidenceSubmitted" /\ x.evidence = EvidenceId(f)
  BY DEF EvidenceLinked
<1>. HIDE DEF x
<1>2. EvidenceId(f) \in DOMAIN evidence
  BY <1>1 DEF EvidenceInv, OutcomesAreLogged
<1>3. EvidenceId(f).reporter = f.reporter
  BY DEF EvidenceId
<1>. QED
  BY <1>2, <1>3 DEF EvidenceInv, EvidenceTypesHold

\* A told outcome is that of a record.
LEMMA ToldIsRecorded ==
  ASSUME NEW bundle, TellsAll(bundle), NEW c \in ResolvedChallenges
  PROVE  \E i \in DOMAIN bundle : /\ bundle[i].challenge = c
                                  /\ bundle[i].status = challenges[c]
  BY DEF TellsAll, Telling

\* A validator's report that counts beside records that pass is sound.
LEMMA CountedIsSound ==
  ASSUME EvidenceInv, NEW bundle \in SeqOf(Passing, MaxBundle), TellsAll(bundle),
         NEW f \in Reports, EvidenceLinked(f, evidenceLog), f.type = "validator_report",
         Counts(f, bundle)
  PROVE  Sound(f, bundle)
<1>1. f.artifact
  BY DEF Reports, ValidEvidenceReport
<1>2. EvidenceId(f) \in DOMAIN evidence /\ f.reporter \in Accounts
  BY LinkedIsEvidence
<1>3. ASSUME NEW c \in DOMAIN challenges, c.evidence = EvidenceId(f), challenges[c] = "upheld"
      PROVE  FALSE
  <2>1. c \in ResolvedChallenges
    BY <1>3 DEF ResolvedChallenges
  <2>2. PICK i \in With(bundle, "upheld") : bundle[i].challenge = c
    BY <1>3, <2>1, ToldIsRecorded DEF With
  <2>3. EvidenceId(f) \in InvalidatedIds(bundle)
    BY <1>3, <2>2 DEF InvalidatedIds
  <2>. QED
    BY <2>3 DEF Counts
<1>4. TellsOnce(bundle) /\ Attributed(bundle) =>
        reputation[f.reporter] + UnsettledPoints(f.reporter) > -10
  BY <1>2, ReputationsAgree DEF ReputationAgrees, Counts, SeqOf
<1>. QED
  BY <1>1, <1>2, <1>3, <1>4 DEF Sound

LEMMA ConfidenceIsEarned ==
  ASSUME EvidenceInv
  PROVE  HighConfidenceIsEarned
<1>. DEFINE linked == {f \in Reports : EvidenceLinked(f, evidenceLog)}
<1>. SUFFICES ASSUME NEW files \in SeqOf(linked, MaxBundle),
                     NEW bundle \in SeqOf(Passing, MaxBundle), TellsAll(bundle)
              PROVE  LET summary == EvidenceSummary(files, bundle)
                         counted == {f \in summary.accepted : f.type = "validator_report"}
                     IN  /\ HighConfidence(summary) => \E f, g \in counted : Independent(f, g)
                         /\ \A f \in counted : Sound(f, bundle)
                         /\ \A f, g \in counted : f # g => Independent(f, g)
  BY DEF HighConfidenceIsEarned, SeqOf
<1>. DEFINE summary == EvidenceSummary(files, bundle)
            counted == Reported(summary)
<1>1. linked \in SUBSET Files /\ files \in Seq(linked)
  <2>1. PICK n \in 0 .. MaxBundle : files \in [1 .. n -> linked]
    BY DEF SeqOf
  <2>2. n \in Nat
    BY MaxBundleAssumption
  <2>. QED
    BY <2>1, <2>2 DEF Reports
<1>2. summary \in GoodSummaries(linked, bundle)
  BY <1>1, SummariesAreGood
<1>. HIDE DEF summary
<1>3. summary.accepted \subseteq linked /\ SummaryHolds(summary, bundle)
  BY <1>2 DEF GoodSummaries
<1>4. ASSUME NEW f \in counted
      PROVE  Sound(f, bundle)
  BY <1>3, CountedIsSound DEF Reported, SummaryHolds
<1>5. \A f, g \in counted : f # g => Independent(f, g)
  BY <1>3 DEF SummaryHolds
<1>6. ASSUME HighConfidence(summary)
      PROVE  \E f, g \in counted : Independent(f, g)
  <2>1. Cardinality(summary.groups) >= 2
    BY <1>6 DEF HighConfidence
  <2>2. summary.groups # {} /\ Cardinality(summary.groups) # 1
    BY <2>1, FS_EmptySet
  <2>3. PICK x \in summary.groups, y \in summary.groups : x # y
    BY <2>2, TwoGroups
  <2>4. PICK f \in counted, g \in counted : f.group = x /\ g.group = y
    BY <1>3, <2>3 DEF SummaryHolds
  <2>. QED
    BY <1>5, <2>3, <2>4
<1>. QED
  BY <1>4, <1>5, <1>6 DEF summary, Reported

\* High confidence is earned by two independent validators whose reports nothing has
\* refuted, for any files in any order that pass the audit, given any number of times, and
\* any reporters that the records name.
THEOREM HighConfidenceNeedsTwo == EvidenceSpec => []HighConfidenceIsEarned
  BY EvidenceInductive, ConfidenceIsEarned, PTL

=============================================================================

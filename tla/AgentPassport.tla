--------------------------- MODULE AgentPassport ---------------------------
(***************************************************************************)
(* Agent passports: the registry contract, the passport and migration      *)
(* records and the memory vaults kept in files, and the audit that links   *)
(* the files with the events of a range of blocks.                         *)
(*                                                                         *)
(* Hashes are injective.  A genesis hash is [nonce, metadata] of a record  *)
(* (owner and key are in the passport id as well), a passport id is        *)
(* [owner, key, genesis] and a migration hash is the record it is made of. *)
(* The contract takes these hashes as they are and recomputes only the id. *)
(***************************************************************************)
EXTENDS Integers, Sequences, FiniteSets, FiniteSetsExt

CONSTANTS Owners,
          Keys,          \* hashes of agents' public keys
          Metadata,
          MaxEvents  \* bound on the registrations and migrations

VARIABLES passports, \* passport id -> its current key and number of migrations
          log        \* the registry's events, in the order of their blocks

vars == <<passports, log>>

Geneses == [nonce : {"nonce"}, metadata : Metadata]

Ids == [owner : Owners, key : Keys, genesis : Geneses]

Init == passports = <<>> /\ log = <<>>

-----------------------------------------------------------------------------
(* The registry. *)

RegisterAgentPassport(owner, key, genesis, metadata) ==
  LET id == [owner |-> owner, key |-> key, genesis |-> genesis] IN
  /\ id \notin DOMAIN passports
  /\ Len(log) < MaxEvents
  /\ passports' = [p \in DOMAIN passports \cup {id} |->
                     IF p = id THEN [key |-> key, migrations |-> 0] ELSE passports[p]]
  /\ log' = Append(log, [name |-> "AgentPassportRegistered", passport |-> id,
                         metadata |-> metadata])

\* The new key and the hash are arguments of their own: the hash may be of a record
\* that was made for another key, or before another migration.
DeviatingRecordAgentMigration(id, new, hash) ==
  /\ passports[id].key # new
  /\ Len(log) < MaxEvents
  /\ passports' = [passports EXCEPT ![id].migrations = @ + 1]
  /\ log' = Append(log, [name |-> "AgentPassportMigrationRecorded", passport |-> id,
                         old |-> passports[id].key, new |-> new, hash |-> hash,
                         index |-> passports[id].migrations + 1])

RecordAgentMigration(id, new, hash) ==
  /\ passports[id].key # new
  /\ Len(log) < MaxEvents
  /\ passports' = [passports EXCEPT ![id] = [key |-> new, migrations |-> @.migrations + 1]]
  /\ log' = Append(log, [name |-> "AgentPassportMigrationRecorded", passport |-> id,
                         old |-> passports[id].key, new |-> new, hash |-> hash,
                         index |-> passports[id].migrations + 1])

-----------------------------------------------------------------------------
(* The files.  Every one that its create command accepts may be audited. *)

PassportRecords == [owner : Owners, key : Keys, nonce : {"nonce"}, metadata : Metadata]

PassportId(r) == [owner |-> r.owner, key |-> r.key,
                  genesis |-> [nonce |-> r.nonce, metadata |-> r.metadata]]

ValidMigration(r) == r.old # r.new

MigrationRecords(id) == {r \in [passport : {id}, old : Keys, new : Keys] : ValidMigration(r)}

\* A memory vault names the passport and the key it was sealed under.
Vaults == [passport : DOMAIN passports, key : Keys]

Next == \/ \E owner \in Owners, key \in Keys, genesis \in Geneses, metadata \in Metadata :
             RegisterAgentPassport(owner, key, genesis, metadata)
        \/ \E id \in DOMAIN passports, new \in Keys : \E hash \in MigrationRecords(id) :
             RecordAgentMigration(id, new, hash)

Spec == Init /\ [][Next]_vars

-----------------------------------------------------------------------------
(* The audit of the events of a range of blocks. *)

PassportLinked(r, events) ==
  \E i \in DOMAIN events :
    events[i] = [name |-> "AgentPassportRegistered", passport |-> PassportId(r),
                 metadata |-> r.metadata]

IsMigrationOf(event, id) ==
  event.name = "AgentPassportMigrationRecorded" /\ event.passport = id

MigrationsOf(id, events) == {i \in DOMAIN events : IsMigrationOf(events[i], id)}

\* The first event with the record's hash is the one that must agree with it.
MigrationEvents(r, events) ==
  {i \in MigrationsOf(r.passport, events) : events[i].hash = r}

MigrationLinked(r, events) ==
  /\ MigrationEvents(r, events) # {}
  /\ LET event == events[Min(MigrationEvents(r, events))]
     IN  event.old = r.old /\ event.new = r.new

DeviatingVaultLinked(vault, passportFiles, migrationFiles) ==
  \/ \E r \in passportFiles : PassportId(r) = vault.passport
  \/ \E r \in migrationFiles : r.passport = vault.passport

\* A vault's key is the first key of its passport's record, or either key of one
\* of its passport's migrations.
VaultLinked(vault, passportFiles, migrationFiles) ==
  \/ \E r \in passportFiles : PassportId(r) = vault.passport /\ r.key = vault.key
  \/ \E r \in migrationFiles : r.passport = vault.passport /\ vault.key \in {r.old, r.new}

\* A passport's first migration in the file must be number 1; after that each must
\* follow the one before it.
ExpectedIndex(before, events) == IF before = {} THEN 1 ELSE events[Max(before)].index + 1

DeviatingMigrationIndexesOk(events) ==
  \A id \in DOMAIN passports : \A i \in MigrationsOf(id, events) :
    LET before == {j \in MigrationsOf(id, events) : j < i}
    IN  before # {} => events[i].index = ExpectedIndex(before, events)

MigrationIndexesOk(events) ==
  \A id \in DOMAIN passports : \A i \in MigrationsOf(id, events) :
    events[i].index = ExpectedIndex({j \in MigrationsOf(id, events) : j < i}, events)

-----------------------------------------------------------------------------
(* What the files are audited for. *)

Ranges == {SubSeq(log, first, last) : first, last \in 1 .. Len(log)}

\* The key a passport had before the i-th event, as a reader of the whole log finds it.
KeyBefore(id, i) ==
  LET before == {j \in MigrationsOf(id, log) : j < i}
  IN  IF before = {} THEN id.key ELSE log[Max(before)].new

\* A migration record that passes the audit is a step the passport's key really
\* took, whatever record's hash the owner sent along and whatever was migrated in
\* between; and the contract's key and count are where these steps lead.
MigrationsRetrace ==
  /\ \A id \in DOMAIN passports :
       /\ passports[id].migrations = Cardinality(MigrationsOf(id, log))
       /\ passports[id].key = KeyBefore(id, Len(log) + 1)
  /\ \A events \in Ranges, id \in DOMAIN passports : \A r \in MigrationRecords(id) :
       MigrationLinked(r, events) =>
         \E i \in MigrationsOf(id, log) : KeyBefore(id, i) = r.old /\ log[i].new = r.new

\* A file of events that passes the index check tells the beginning of every
\* migration history it tells a part of: no earlier migration has been cut off.  The
\* whole log passes.
HistoriesFromTheStart ==
  /\ MigrationIndexesOk(log)
  /\ \A events \in Ranges, id \in DOMAIN passports :
       LET told == MigrationsOf(id, events)
       IN  MigrationIndexesOk(events) =>
             {events[i].index : i \in told} = 1 .. Cardinality(told)

\* A memory vault sealed under a key that its passport has never held is linked by
\* no records that pass the audit, whatever range they are audited against.
VaultKeyWasHeld ==
  \A vault \in Vaults :
    (\A i \in 1 .. Len(log) + 1 : vault.key # KeyBefore(vault.passport, i)) =>
      \A events \in Ranges :
        ~VaultLinked(vault, {r \in PassportRecords : PassportLinked(r, events)},
                     {r \in MigrationRecords(vault.passport) : MigrationLinked(r, events)})

\* The histories the audit lets pass, of a migration, a file of events or a vault's key,
\* are those of the registry.
HistoriesAgree == MigrationsRetrace /\ HistoriesFromTheStart /\ VaultKeyWasHeld

=============================================================================

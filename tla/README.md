# A formal model of OriginAgentEvolutionChain

OriginAgentEvolutionChain records on a chain which modules AI agents have built,
who verified them, who disputes a verification, and how the dispute was settled.
This directory holds TLA+ modules of that system, the TLC configurations that
check them on small instances, and proofs checked by TLAPS. Paths below are
relative to the repository.

## 1. The system

### Components, their state and their operations

| component | state | operations | what makes it correct |
|---|---|---|---|
| `contracts/src/IdentityRegistry.sol` | role of each account | `registerIdentity` | a role is registered once and never changes |
| `contracts/src/ModuleRegistry.sol` | module digests | `submitModule` | a digest is submitted once |
| `contracts/src/VerificationRegistry.sol` | adjudicator (current, proposed, when), validator profiles, reports, evidence, challenges, testnet reputation | `proposeAdjudicator`, `confirmAdjudicator`, `setValidatorProfile`, `submitReport`, `submitEvidence`, `invalidateEvidence`, `submitChallenge`, `resolveChallenge`, `resolveChallengeFromAdjudicator` | validator reports come from qualified validators; a challenge is filed in its window and settled once; reputation is paid once per piece of evidence |
| `contracts/src/ChallengeAdjudicationRegistry.sol` | quorum, per challenge: response, commitments, verdicts, result | `setQuorum`, `submitResponse`, `commitVerdict`, `revealVerdict`, `finalizeChallenge`, `expireChallengeNoQuorum` | votes are blind, bound, on time and counted right; the result agrees with the registry; every challenge ends |
| `contracts/src/ScoreCommitReveal.sol` | score commitments per module and scorer | `commitScore`, `revealScore` | a revealed score is the committed one |
| `contracts/src/TestCreditLedger.sol` | balance per passport, used action hashes | `grantCredit`, `consumeCredit` | balance = granted - consumed; an action counts once |
| `contracts/src/AgentPassportRegistry.sol` | passports, key and memory migrations | `registerAgentPassport`, `recordAgentMigration` | one owner per passport, migrations in sequence |
| `contracts/src/AgentReputationRegistry.sol` | reputation checkpoints | `checkpointReputation` | checkpoints follow each other |
| `contracts/src/EvolutionUnitKindRegistry.sol` | kinds, their review reports and status | `proposeKind`, `setReviewReport`, `setKindStatus` | a kind is reviewed before it is used |
| `contracts-go/module`, `verification`, `adjudication` | the port to ChainMaker: the same records, no reputation, only a response marks a poll as started; the quorum is in the contract object | the same invocations; roles are organizations; finalization and settlement are two transactions | what the Solidity contracts promise, as far as it goes |
| `contracts-go/score` and five other ports | as in Solidity | as in Solidity | as in Solidity |
| `sdk/src/adjudication-vault.ts`, `cli.ts` | SQLite rows: verdict, salt, status | save, broadcast, mark, retry, export, import | a commitment on chain can be revealed, whatever crash, loss or other command comes in between |
| `sdk/src/adjudication.ts` | none | adjudication reports drafted while a poll goes on | a report that passes the audit says how the poll ended |
| `sdk/src/evidence.ts`, `score.ts` | none | evidence summary, challenge summary, score caps | statuses and reputations agree with the contract's; high confidence needs independent sources |
| `sdk/src/passport.ts`, `reputation.ts`, `unit-kind.ts` | none | passports, migrations, reputation reports, proposals, reviews | what a passing document says did happen on the chain |
| `sdk/src/adversarial.ts`, `trust-policy.ts`, `test-credit.ts` | none | abuse signals, gates, credit decisions | the strictest gate stands, with a cause, and credit follows it |
| `sdk/src/indexer.ts`, `chain-state.ts` | none | index of events, linkage of every kind of document, audit bundle | a document is linked only to events that carry its data, over any range of blocks |
| `sdk/src/module-verification.ts` | none | manifests, receipts, run receipts, claims | a claim relies only on downloads that were told to match |
| `eccli` | none | commands, validation | the rules of the schemas |

`PROJECT.json` lists the rest (serialisation, ABI tables, scripts, prose).

### How they interact

The contracts call each other inside one transaction: `VerificationRegistry`
reads roles from `IdentityRegistry`, asks `ModuleRegistry` whether a module
exists, and asks the current adjudicator whether a challenge's adjudication has
started. `ChallengeAdjudicationRegistry` reads challenges, evidence, profiles
and roles, and its `finalizeChallenge` ends with a call back into
`VerificationRegistry`. Owner, reporters, challengers and validators are separate
actors whose transactions interleave in any order. The CLI keeps secrets in a local
vault and sends transactions; the indexer reads events afterwards.

### What is hard

The order of transactions of several actors; block time against three chained
deadlines that are recomputed at each call; a quorum, a validator's profile and the
adjudicator itself changing while a vote is under way; two contracts that write one
result each; two paths that settle a challenge; reputation that several settlements
compete for. In the Go port: state that lives in a contract object and is lost on
an upgrade, and finalization and settlement in two transactions. In the CLI: a crash
between a broadcast and its bookkeeping, and two commands that read and write one row around each other. In the documents: drafts that are overtaken,
hashes and numbers typed by hand, files that are missing or belong to something else,
and an index that begins in the middle of the log. `PROJECT.json` lists each at its line
under "hazards", with the properties about it or the reason why there is none.

## 2. Modules and how they correspond to the code

| module | models | depends on |
|---|---|---|
| `VerificationRegistry` | IdentityRegistry, ModuleRegistry, VerificationRegistry | |
| `ChallengeAdjudication` | any number of ChallengeAdjudicationRegistry contracts, composed with the registry | `VerificationRegistry` |
| `SealedBallot` | abstract: what an adjudication promises, without time or contracts | |
| `AdjudicationBallot` | the refinement mapping from one adjudication to a sealed ballot | `ChallengeAdjudication`, `SealedBallot` |
| `ConsortiumAdjudication` | the Go port of module, verification and adjudication contracts | `SealedBallot` |
| `AdjudicationVault` | vault files, the commands that use them, node, pool and contract of one commitment | |
| `AdjudicationAudit` | adjudication reports, `finalize`/`expire` with them, their linkage | |
| `EvidenceAudit` | evidence reports and challenge records, their contract side, summary, caps, linkage | |
| `AgentPassport` | passport registry, passport and migration records, key histories, the key of a memory vault | |
| `AgentReputation` | reputation registry, records, reports, linkage | |
| `UnitKind` | unit kind registry, proposals, reviews, linkage | |
| `ModuleVerification` | manifests, acquisition and run receipts, claims, their audit | |
| `TestCredit` | test credit ledger, action files, gates, reports, linkage | |
| `AbuseSignals` | the analysis for abuse over a growing log and bundle | |
| `TrustPolicy` | subjects, risks, gates, the credit gate, linkage | `AbuseSignals` |
| `ScoreReveal` | ScoreCommitReveal, its port (`Port = TRUE`), the SDK's two transactions | |
| `MCVerificationRegistry`, `MCAdjudication`, `MCConsortium`, `MCTrustPolicy` | constants, stories, initial states and symmetries of the runs | `VerificationRegistry`, `AdjudicationBallot`, `ConsortiumAdjudication`, `TrustPolicy` |
| `MCOpenings` | instances of vault and score commitments, side by side | `AdjudicationVault`, `ScoreReveal` |
| `MCReports` | three audits, side by side | `AgentPassport`, `AdjudicationAudit`, `EvidenceAudit` |
| `MCLedgers` | three ledgers and module verification, side by side | `TestCredit`, `AgentReputation`, `UnitKind`, `ModuleVerification` |
| `VerificationRegistry_proofs` | theorems about disputes and about what is filed | `VerificationRegistry` |
| `ChallengeAdjudication_proofs` | types of the composition; that it implements `RegistrySpec`; votes, deadlines and results; the end of challenges; the refinement of `SealedBallot` | `AdjudicationBallot`, `VerificationRegistry_proofs` |
| `ConsortiumAdjudication_proofs` | theorems about the port, with the end of its polls and its refinement of `SealedBallot` | `ConsortiumAdjudication` |
| `AdjudicationVault_proofs` | theorems about vault and score commitments: what was committed can be, and a verdict is, opened | `MCOpenings` |
| `LogLemmas` | numbers, sets of indices, recursive functions, sequences that grow | |
| `Reports_proofs` | theorems about passports, adjudication reports and evidence | `AgentPassport`, `AdjudicationAudit`, `EvidenceAudit`, `LogLemmas` |
| `Ledgers_proofs` | theorems about credit, reputation, unit kinds and module verification | `TestCredit`, `AgentReputation`, `UnitKind`, `ModuleVerification`, `LogLemmas` |
| `TrustPolicy_proofs` | theorems about the analysis for abuse and the trust policy | `TrustPolicy`, `LogLemmas` |

### The contracts

**State.** Each storage mapping is a function and each struct a record with the
fields the code reads again; the `exists` flag of a record is its status being other
than `"Unknown"`. `adjudicationStarted[r]` is the set of challenges contract `r` would
answer TRUE for. The variables of the adjudication contract are indexed by contract,
since the owner may deploy another and confirm it.

**Actions.** One action per external function. A revert undoes a transaction, so
the `require`s and `revert`s of the function *and of the functions it calls in other
contracts* are guards: `FinalizeChallenge` contains
`ResolveChallengeFromAdjudicator`, whose `caller = adjudicator` guard is what
makes a finalization in a replaced contract impossible. Owner-only functions
take their caller as a parameter. `now` is `block.timestamp`, advanced by `Tick`;
any number of transactions share a time, as in a block.

**Abstractions.** Hashes are injective, so an id is the tuple it hashes; a proof
bundle and its report are one `Bundle`, an operator group and a runner fingerprint one
`Group`. A commitment hash is the verdict it binds its sender to, or `"Nothing"` when it
opens to none (another validator's hash, for the hash contains the validator). Hashes
that are only tested for zero, events that no property reads, and `int32`/`uint64`
widths are left out: reputation moves by at most 10 a transaction and times are
seconds. The one event read is `ChallengeResolvedOnAlreadyInvalidated`
(`alreadyInvalidated`), because without it the reputation cannot be recomputed.
`AdjudicationPhaseStarted` is kept as the deadlines it announced.

`NotStarted` deserves a note: with solc 0.8 a `try` on an address without code
reverts the caller rather than entering `catch`, so an account as adjudicator
disables `resolveChallenge` altogether.

### The port

The ChainMaker contracts do not call each other: each reads the others' records from the
state under their keys (`"verification_challenge_" + id` and so on), so the records are
variables of one module. That the keys of one contract can be read by another is what
the code relies on, and is assumed; so is that the platform drops the writes of a
transaction that returns an error (`submitReport` writes before its last check) and that
the time of transactions does not go back. Every `if ... return sdk.Error` is a guard;
what the port does not check (profiles of voters, who responds, whether a finalized or
closed challenge exists) is no guard. `quorum` is the field of the contract object:
`UpgradeContract` gives it the value of a Go struct nobody initialized, since only
`InitContract` sets it.

### The vault

A command is split wherever another process can come in between. The database
statements of `saveBeforeBroadcast` are not in a transaction, so there are two steps: `ReadRow` is the
SELECT, which refuses a row that differs, and `SaveBeforeBroadcast` (with `CreateVerdictCommitment`
for the commands that only save) is the INSERT, whose `ON CONFLICT` clause replaces the
commitment, the salt and the status of a row that has come to be there (`InsertRow`).
`CommitValidatorVerdict` then sends what the row holds by now, the node answers (`Accept`, `Refuse`),
and `MarkSubmitted` writes the row again. In between, other commands on the same file run, the
process dies, or the transaction is lost. A row binds a verdict and a salt; a second command without
`--salt` is a command with another commitment.

`disputed` is a history variable: the vaults on which two commitments have met. A vault is disputed
when an import changes what its row binds, and when a commitment is written while another
command, which has read the row as missing, has yet to write a different one. A salt that was sent is lost in these
two ways only, and the second is the finding `overwrite`.

### Documents and their audit

One shape serves all: the contract's actions write state and a log of events; files
are bodies with the hash they claim, which is right, stale or altered; hashes and numbers that
a command takes as flags are inputs of their own, right or mistyped; and the audit is an
operator over files and a range of the log (`SubSeq(log, first, last)`, for the indexer
is told two block numbers). The properties relate what passes the audit to the
contract's state, of now or of then. Where files grow as the log does (`AbuseSignals`,
`ModuleVerification`), they are variables; where they do not change, properties range over all
bundles of them instead. An id that hashes its parts is the tuple of the parts. Loops over files
or events in their order are recursive functions of the index (`EvidenceAudit`'s summaries, the
totals of `TestCredit`, the moving window of `AbuseSignals`) or, where only the last element
counts, sets of indices (the histories of `AgentPassport`); several orders are then several
bundles.

In `EvidenceAudit` a bundle is a sequence of record files, for a file given twice counts twice; the log keeps no
order there, and a range is any part of it, which is more than the code's block ranges. A record's `reporter` is typed
and compared with nothing, by the validation, the linkage or the summary, so the model lets the
record of an upheld challenge name anybody. In `ModuleVerification` the two digests and the `hash_matched` of a receipt
are three typed values; the audit reads only the flag.

### Score commitments

`ScoreReveal` takes a hash as what it hashes together with its encoding: bytes in
Solidity and the SDK, hex digits in the port. A reveal is visible when it is sent, before
it is mined, and a scorer may commit whatever hash it finds on the chain, since the hash covers
neither scorer nor module.

## 3. Runs

| run | question | instance |
|---|---|---|
| `registry` | Are reports always filed with their evidence; can anybody else file evidence as a qualified validator; is evidence challenged in its window only; is reputation paid once and does it add up, whoever settles? | from the empty chain; *filing*: a prospective validator and the owner, all evidence types, two groups; *disputes*: two receipts with or without a window, three challenges, one of them by the receipt's own reporter, the adjudicator changing between none, an account and a contract |
| `poll` | Is a vote blind, bound, on time, counted right and final, and is it a sealed ballot? | three validators (symmetric), one challenge, quorum 2..3 with illegal inputs 1 and 4, commit period of two ticks so that a response can come before, between and after; delisting and re-profiling |
| `ending` | Do contract and registry agree when the adjudicator is replaced during a vote, do the contracts keep what the registry relies on, and does every challenge end? | *one voter*: two contracts, handed over at any moment, the vote in both; *one contract*: two validators, quorum 1..2, so that votes split and the quorum can be raised above a count already reached |
| `port` | The same questions of the ChainMaker port, as far as it goes | *filing*: one reporter, every type of evidence, two windows; *voting*: two voters, quorum 1..2 with illegal inputs, upgrades, closing transactions before the challenge is stored; *resolving*: two challenges of one receipt, both organizations, a poll beside them |
| `openings` | Can what was sent be revealed from the vault it was sent from, is a commitment in the contract revealed in the end, and is "revealed" never written too early; does a score committed as the protocol says stay openable, although it can be copied? | *verdict*: one vault and an export that may come from another, two commands, two salts, two faults; *score*: two scorers, two modules, a legal and an illegal score |
| `reports` | Does what passes the audit tell what the contracts did? | *passports*: two owners, three keys, up to four events, every range; *poll*: three validators, two verdict hashes (symmetric), quorum 2..3, one draft at any moment, every range; *evidence*: two pieces of evidence, two challenges, five reports that share a group, a runner or neither, one without artifact; records with any status and reporter, up to two report files and two record files, in any order, one twice if need be |
| `ledgers` | Was what passes the audit moved, earned, proposed, reviewed or verified? | *credit*: one passport, two policies, four reasons, amounts right or off by five, three operations, reports of two actions; *reputation*: two owners with a challenge each, reports of up to two records, two checkpoints, numbers right or one off; *kind*: two kinds, two schemas, three statuses, four events, edited files; *work*: two digests, receipts with any digests and flag, up to four files, all claims over them |
| `policy` | Does a gate ever loosen, is test credit blocked for a cause, does the window find exactly the bursts, does the audit link the report? | five inputs; *farming*: four passports of two owners, one evidence challenged by two, reports that list a challenge twice; *spamming*: modules in five blocks, window of two, threshold three, evidence files that are altered or share a group |
| `legacy`, `upgrade`, `encoding`, `overwrite` | one statement of a document, comment or message each | violated, see findings |

**Stories and subjects.** A run of several questions keeps their instances apart, so that their
states add up instead of multiplying. Where the instances are of one module the next-state
relation is conjoined with a disjunction of *stories* (italic above; `Filing`, `Disputing`,
`OneVoter`, ...): each is a condition on the state that bounds what happens in it, and which
story a behaviour tells is open until a step decides it. The stories leave out transactions, so what
is checked is that no behaviour *inside a story* violates a safety property, as with any bound; each story
holds every transaction its question is about, and the theorems of section 4 say the same without
stories. For liveness a story must not shut out a step that fairness demands: the closing transactions of
every contract lead from `OneContract`, `OneVoter` and the port's stories to a state of the same story, and time passes in all of
them that have an open challenge. Where the
instances are of modules that share no state (`MCOpenings`, `MCReports`, `MCLedgers`), a variable
`subject` says which of them a behaviour is about; the others stay as they began.

**Bounds.** `MaxTime` is past the last reveal deadline of every instance with a vote (response by
the latest admissible tick), so that every phase and the time after it occur; for
`poll` the challenge is submitted at 2 and the last deadline is 6. In the contract
`MIN_QUORUM` is 2, `MAX_QUORUM` 15 and the quorum starts at 3
(ChallengeAdjudicationRegistry.sol:9,10,66); `poll` keeps the lower bound
and scales the upper one down so that a missing vote, a quorum and a surplus vote all exist;
`MinQuorum = 1` with two validators (`ending`, `port`) is the smallest instance in which both sides
reach the quorum (in the contract: two against two). The periods are one or two ticks; the comparisons are with
deadlines only, so longer periods add stuttering. One challenge is enough for the
poll, whose state is per challenge; several challenges of one piece of evidence,
where they do interact, are the disputes of `registry` and the resolving of `port`. The runs of
`MCAdjudication` start at `DeployedInit`, a reachable state, to spend the states on the
vote. `EvidenceIds`, `ChallengeIds`, `Windows`, `QuorumInputs`, `Candidates`, and in the port
`Voters` and `Responders`, bound the inputs.

`MaxFaults`, `MaxDrafts`, `MaxEvidence`, `MaxChallenges`, `MaxEvents`, `MaxCheckpoints`,
`MaxRecords`, `MaxBundle`, `MaxActions`, `MaxFiles`, `MaxOperations`, `MaxInputs` and `MaxBlock` count what the code does
not limit. Each is large enough for the cases its properties are about: two settlements of
one evidence; a migration recorded before another, and one after it; a mistyped checkpoint before and
after a right one; two record files of one challenge with two reporters; a second receipt beside a claim and its run; a second use of an action by
either command; a second signal of one category, and a third that turns three
mediums into a high; a window that is full, one that is short by a submission, and one
short by a block. The thresholds of `adversarial.ts` are constants, scaled
down in the configuration. Two faults are enough for the vault: a crash that leaves the row `pending_commit`, or a lost
transaction that leaves it marked, followed by one that hits the command which repairs it. A manifest,
a receipt, a run and one more file make four: each of the three with a wrong one beside it.

Deadlock checking is off: at `MaxTime`, or when everything is filed and settled,
nothing need be possible.

**Fairness.** `ChallengesClose` and `PollsClose` assume that time passes and that, for each contract
and challenge, somebody sends a finalizing or an expiring transaction that stays
possible (in the port: once the challenge is stored, for nobody has a reason to close the poll of a challenge that does not exist): both functions are open to every account and the parties have an interest.
Nothing is assumed of owner, reporter or validators. `ChallengesClose` says nothing of a contract that
is not the confirmed adjudicator: there a poll with a quorum can neither be finalized
nor expire. `CommitmentsOpen` assumes that time passes until reveals open, that the validator runs
`reveal-validator-verdict` on each vault again and again while reveals are open (strong
fairness, since a command under way disables the next), that a command gets an answer and
goes on, and that what the node has accepted is mined unless one of the finitely many
faults takes it. That reveals stay open long enough is a condition of the property, not of
fairness: a behaviour in which the phase ends first is one in which the validator came too
late. It does not assume that `retry-verdict-reveal` is ever run: that
command refuses the row a crash leaves behind (status `pending_commit`), and `reveal-validator-verdict`
does not.

**Findings.** Each is a violation run; what does hold instead is in a passing run.

| run | the document says | the code does |
|---|---|---|
| `legacy` | README.md:100: the owner's `resolveChallenge` "is blocked once v2 adjudication starts" | It asks the *current* adjudicator; once another contract is confirmed, a challenge that was voted on in the first can be resolved by the owner. `StartedSettledByVote` holds, relative to the current adjudicator |
| `upgrade` | adjudication.go:352: a challenge is finalized "when quorum is met" | After an upgrade the quorum is 0. `CountStands` holds |
| `overwrite` | adjudication-vault.ts:104: "existing local commitment differs; refusing to overwrite salt or reveal parameters" | The refusal is a SELECT; the INSERT that follows is outside any transaction and overwrites on conflict. Of two commands on one vault file that both find no row, the second replaces the salt the first may already have sent (the test, adjudication-vault.test.ts:90, saves one after the other). `SentIsRevealable` holds of vaults that are not disputed |
| `encoding` | protocol.md:31: the hash covers bytes | The port (and eccli) hash hex digits, so a commitment of the SDK cannot be opened there |

Other places where code and documents part, met while modelling. The modules follow the code;
no run states the document:

- The ec15b runbook (lines 87 and 97) runs `create-verdict-commitment`, then `commit-validator-verdict`
  on one vault without `--salt`; each command draws a salt (cli.ts:1203), so the second is
  refused (when it begins after the first has saved).
- The implementation plan (line 297) settles nothing for a further upheld challenge of invalidated
  evidence; `computeChallengeSummary` (evidence.ts:545) settles again. `ReputationAgrees` (of
  `OutcomesAgree`) says how far the two are apart: by the points of the challenges the contract logged as
  `ChallengeResolvedOnAlreadyInvalidated`, exactly.
- The ec16a runbook (line 74) has the audit fail when a linked receipt did not match its
  digest, and so does line 137 for `hash_matched=false`. The audit reads the flag (indexer.ts:967, 975, 996),
  which is typed and not compared with the digests (module-verification.ts:316-336): a receipt whose digests differ and
  whose flag says true supports a claim. The audit does what line 137 says, not what line 74 says, and `ClaimsAreSound` tells the two
  apart: every receipt relied on says it matched, and what was downloaded is what the manifest promised where the receipt's maker compared.
- adjudication.go:394 expires a poll "after reveal period"; the poll of a challenge that is not
  stored has the deadlines 0, 0, 0 and expires at once.
- adjudication.go:9 promises a "Cross-contract call for basic adjudication integrity"; finalizing
  in the port tells its registry nothing, and the settlement names its own verdict.
  `DisputesAreFinal` and `RecordsAgree` hold.
- adjudication.go:8 has validators qualify by the registry's allowlist; the port's `commitVerdict`
  reads no profile.
- adjudication.go:151 takes the "evidence reporter's" response; the port takes
  anybody's first one. `Blinded` holds nevertheless.
- score.go:2 calls scoring "blind (commit-reveal)"; there are no phases, and a score is committed
  when others are out, in both contracts.

Differences without a document behind them: in a contract that is not, or no longer, the registry's
adjudicator a poll with a quorum can neither be finalized nor expire; the Go credit ledger has no
action hash, so a repeated grant counts twice, and its additions are unchecked; the port's
resolution moves no reputation; its evidence may be about a module nobody submitted; its unit kinds
are keyed by the text of a version that is parsed leniently; the audit does not compare a run's
manifest with its receipt's, nor an expired report's counts with anything, nor the reporter an upheld
record names with the evidence's (so another reporter may lose the ten points, and with them high confidence),
nor one record file with another (one given twice counts twice), nor the owner of a credit
action with its passport's, and goes on counting evidence the owner invalidated without a challenge.

Each property of a passing run has in `PROJECT.json` a mutant, a plausible mistake (`Deviating...`
operators, next to the definition they vary) under which TLC must refute it; a property that is a
conjunction of named parts (`RecordsAgree`, `HistoriesAgree`, `ReportsTellTheEnd`, `OutcomesAgree`,
`CreditAgrees`, `CheckpointsAgree`, `AuditedKindsAgree`, `ClaimsAreSound`, `PolicyIsGrounded`) has one for each part.
`GroupsAreProfiled`, `RevealStaysPossible`, `OverdueIsClosable` (of contract and port) and the types of registry, port and
vault are proved and are in no run.

## 4. Proofs

All theorems hold for every value of the constants: any finite number of
accounts, validators and challenges, any number of adjudication contracts and pieces of
evidence, any periods, quorum bounds and `MaxTime`; any vaults, commands, salts and
faults; any passports, policies, slips, files, bundles and reports; any thresholds of the analysis for abuse; any bounds
on the length of the logs, and any range of them. They assume `AddressAssumption` and `IdAssumption` (addresses are told
apart, the finite id sets contain the evidence they refer to), `TimeAssumption`,
`QuorumAssumption` (the initial quorum is legal), `PeriodAssumption` (periods are
positive), for the ballots `PollAssumption` and the last conjunct of `ConsortiumAssumption` (the ballot is
one of the polls), and for the others

- `ConsortiumAssumption` (as the first three, for the port) and `FaultsAssumption`;
- `SlotAssumption`: what stands for an empty slot is no hash and no opening (the contract rejects a zero hash and
  flags a reveal), and scores are numbers;
- `QuorumsAssumption`: a poll needs at least two verdicts, the contract's `MIN_QUORUM`;
- `FilesAssumption`: every evidence file is of one of the types;
- `CreditAssumption`: the gates of a policy are words its type has, and a slip may be none;
- `ThresholdsAssumption`: the thresholds for abuse are positive, as `validateThresholds` demands;
- `IdsAssumption`: passports are finitely many, an address is no passport and no challenge, and
  what a reputation report lists are challenges;
- `MaxBundleAssumption`: a bundle has a number of files.

The runs evaluate all of them.

| theorem | property | argument |
|---|---|---|
| `RegistryTypeCorrect`, `TypeCorrect` | types; the quorum is legal | inductive as stated; the records written are typed one operation at a time |
| `PenaltiesAreSingle`, `ChallengesAreTimely` | `PenalisedOnce`, `ChallengedInWindow` | `DisputesInv`: with it, a challenge in the log of repeated penalties is upheld. Without that, a logged challenge might still be submitted, and upholding it would pay for evidence twice |
| `ReputationAddsUp` | `ReputationMatchesLog` | `DisputesInv` and set cardinalities: a settlement adds one element to at most one of an account's three sets of challenges |
| `DisputesStayFinal` | `DisputesAreFinal` | from the types alone |
| `ReportsAreBacked`, `ValidatorReportsAreQualified`, `GroupsStayProfiled` | `ReportBackedByEvidence`, `ValidatorReportsQualified`, `GroupsAreProfiled` | `IntakeInv`: every step files a report, files evidence or files nothing, and what is filed needs (roles, profiles' existence, modules) is never taken back |
| `ImplementsRegistry`, `RegistryReliance` | `RegistrySpec`, `RegistryReliesRightly` | each transaction of an adjudication contract is a step of `AdjudicationContract` or leaves the registry alone, so the theorems above hold of the composition (`ReputationAddsUpWithVotes`) |
| `VotesAreBlind`, `VotesAreBound`, `DeadlinesStand` | `Blinded`, `VerdictsAreCommitted`, `AnnouncedDeadlinesHold` | `VotesInv` |
| `ResultsAgree`, `ResultsHaveQuorum` | `FinalizedAgrees`, `QuorumBacked` | `ResultsInv` |
| `ClosedPollsStay`, `StartedNeedsVote` | `ClosedForGood`, `StartedSettledByVote` | `ResultsInv`, one step per transaction |
| `AdjudicationImplementsBallot` | `ImplementsSealedBallot` | the refinement mapping below, with `VotesInv` |
| `OverdueIsNeverStuck`, `ChallengesEnd` | `OverdueIsClosable`, `ChallengesClose` | `ResultsInv` with `DisputesInv`: some verdict has its quorum and the registry takes it, or none has. Then *Endings* below |
| `LegacyBlockedWithoutHandover` | `LegacyBlockedOnceStarted`, given that no replaced contract has started on a challenge | `StartedNeedsVote`: the finding `legacy` is about handovers only |
| `VaultTypes`, `SentStaysRevealable` | `TypeOK`, `SentIsRevealable` | `AllHeld` below |
| `RevealIsNeverStuck`, `CommitmentsAreRevealed` | `RevealStaysPossible`, `CommitmentsOpen` | `AllHeld`: the row of an awaited commitment binds it, so the contract takes its reveal. Then *Endings* below |
| `ScoresStayOpenable` | `ProtocolCommitmentsOpen` | a hash in the contract is the hash of an opening, whoever copied it, and hashes of one encoding bind |
| `RevealedIsOnChain` | `RevealedOnChain` | with `AllHeld`: a row or export that says so is a copy of one, or `retry-verdict-reveal` has read it from the contract, where a revealed commitment stays |
| `PortTypes`, `PortVotesAreBlind`, `PortCountsStand`, `PortDisputesStayFinal` | `TypeOK`, `Blinded`, `CountStands`, `DisputesAreFinal` of the port | the port's `VotesInv` below |
| `PortRecordsAgree` | `RecordsAgree` | `FilingsInv`: with it, who has a profile has a group, and what is challenged is stored. Without the second, upholding a challenge could store evidence nobody filed |
| `PortPollsAreSealed` | `PollIsSealedBallot` | `SealsInv` below, the mapping as in the contract |
| `PortOverdueIsNeverStuck`, `PortPollsEnd` | `OverdueIsClosable`, `PollsClose` of the port | the types: a count and a quorum are numbers, whatever the quorum has become. Then *Endings* below |
| `QuorumUnlessUpgraded` | `FinalizedWithQuorum`, given that the contract is not upgraded | only `UpgradeContract` takes the quorum away: the finding `upgrade` is about upgrades only |
| `HistoriesAreTold` | `HistoriesAgree` | `PassportInv` below |
| `ReportsAreTrue`, `HonestReportsPass` | `ReportsTellTheEnd`, `HonestReportPasses` | `AuditInv` below |
| `OutcomesAreTold`, `HighConfidenceNeedsTwo` | `OutcomesAgree`, `HighConfidenceIsEarned` | `EvidenceInv` below; the second also needs an invariant of the loop over the files: the accepted reports are pairwise independent, with their groups and runners noted |
| `CreditMovesOnce` (and `CreditTypes`: no account is below zero) | `EachActionOnce` | with it, that the hash of every event is marked used and that a balance is what is left of the grants (`IInv`) |
| `CreditIsTold` | `CreditAgrees` | from `CreditInv` below; its part about the gates from the report's validation alone |
| `CheckpointsAreEarned` | `CheckpointsAgree` | `ReputationInv`: with the types, the last checkpoint of the log is the one the registry shows. An earlier one is then in the log, with the report it was made of |
| `KindsAgree` | `AuditedKindsAgree` | `KindInv`: a registered kind has an event of its proposal, and what an event says of its kind was so, and still is where it cannot change |
| `WorkIsSound` | `ClaimsAreSound` | `WorkInv`, the types of what is filed: whatever is typed or edited, a valid file's body is what its hash was computed of. So the receipt found by a hash is the one the claim, or its run, was made with, and two valid files of one hash are one |
| `BurstsAreFound` | `SpamIsAFullWindow` | `InputsInv` below; what the moving window left behind is too far from every later submission as well |
| `PolicyHasGrounds` | `PolicyIsGrounded` | `InputsInv`: with it, every challenge in the log has a known reporter. The risk of each subject that decides about credit is computed from its own signals; those of medium severity are as many as `Reviews` counts |
| `GatesStayTight` | `GatesOnlyTighten` | a step only adds events and files, and then each signal has a counterpart that says as much, see below |

`VotesInv`. The deadlines are computed from the challenge's filing time and the response,
neither of which need exist when the invariant is first asked about a poll. So it says
that a poll is untouched until its challenge is submitted (then the deadlines cannot move
under a commitment), and that once deadlines have been announced they are the computed
ones and the response phase is over (then no response can move them). Each vote is then
bounded by the commit deadline on one side and the reveal deadline on the other, which
gives `Blinded` by arithmetic.

The port announces no deadlines and may close a poll before its challenge exists, so its
`VotesInv` is weaker: before the challenge is stored there is no response, and where there is
a vote the challenge is stored and the response phase is over. That is enough for the deadlines to stand under
a vote. `CountStands` needs no quorum, for a closed poll takes no reveal in the port either.

`ResultsInv`. That a contract's result agrees with the registry and that only one
contract has a result are proved together: a challenge some contract finalized is no
longer `Submitted`, so a second finalization, in any contract, and every other settlement
fails its guard. The count survives because `revealVerdict` refuses a challenge that is
not `Submitted`, even in a contract whose own poll is open.

`AllHeld` of the vault: every transaction a command waits for, every one in the pool, and the
commitment in the contract is bound by the row of the vault it left, unless that vault is disputed.
It needs `SavesAgree` beside it: a command that has read no row and has yet to insert one either agrees with
the row that is there by now or has its vault disputed. Without that, an insert could take the salt of a
transaction under way. Together they are inductive, because a step either keeps each row's
commitment or marks the vault as disputed.

`PassportInv` counts: the migrations logged of a passport are as many as its record says, the key
of the record is the new key of the last of them, and each began at the key the one before
led to. Two lemmas carry the rest. Migrations each numbered one after the last
(`MigrationIndexesOk`) have the numbers from 1 on (`HistoryIsNumbered`, by induction over the
index), and a range of the log that holds the registration holds everything of the
passport up to its end, so what passes over the range is what the record went through.

`AuditInv` says of the log of a poll that it is true (a verdict event is of a verdict that was revealed, the
response and the end are as in the contract) and complete, and of each draft what the chain
has not taken back since: verdicts only join. That alone does not make a passing report true, for a draft may be overtaken: at
the end the number of revealed verdicts with the report's outcome is the event's count, and a
draft with fewer verdicts is refused because it has fewer.

`EvidenceInv` says that the log determines what the contract holds (`OutcomesAreLogged`) and that the
contract's reputation, with the points of what it left unsettled, is the sum over three sets of resolved challenges (`OutcomesAddUp`). The summary computed from a
bundle is a recursive function of the number of files read; that it computes the same
sums is an induction over that number, with cardinalities as in `ReputationAddsUp`.

`CreditInv` is `IInv` with `BalanceIsHistory`, whose totals are recursive functions over the log as well:
an appended event adds its amount to the totals of its own passport and leaves the values the
function had before.

`InputsInv` says that the log is in the order of its blocks and that the evidence of a logged challenge is
in the log. The order is what makes the moving window right: the beginning that the loop
keeps from one submission to the next never has to move back, so the last submission of
a burst is compared with all the others of it. A gate depends on the categories of a subject's signals and on
their risk, and the risk on how many of them are of medium severity. Each signal has a
counterpart in any later report, of the same category, with at least its subjects and
its severity. Distinct mediums have distinct counterparts, being told apart by their link and
number, which the counterparts share: so three of them stay three, unless one has become high.

Inductions over the length of a log or a list of files use the set form of the principle (`Induction` of `LogLemmas`: a
set of numbers that has 0, and with each number the next, has them all), and `StaysIn` and
`StepByStep`, which say of a recursive function over `1 .. n` that it is in a set and what
its next value is. No operator is a parameter of them.

The refinements map `SealedBallot`'s `sealed` to the binding of each commitment, `opened`
to the validators whose commitment is marked revealed, and `result` to the outcome,
`"Lapsed"` if expired, `"Pending"` otherwise. A commitment implements `Seal`, whose guard
`opened = {}` is not in the code: `VotesInv` supplies it, since a reveal is later than the
commit deadline. `Decide` needs the support of the ballot to be the count of verdicts,
which holds because a verdict exists exactly for an opened commitment and says the same. In the port
these two facts are `SealsInv` (a vote is a commitment that was opened, or none; the verdict is the one it
binds, and is not from the future), and `Decide` asks for no count (`Threshold <- 0`), for an upgrade may lose the
quorum; `VotesInv` orders seals and openings as before.

*Endings.* The three liveness theorems have the same shape. What is to end stays as it is until it does; while it
waits, the guard of a fair step comes to hold and goes on to hold; and that step ends it, or brings it to the next stage. In the
contract and in the port there is one stage: a challenge whose deadlines have passed stays overdue, since no response is
taken any more, and it can be closed. In the vault there are four: reveals open; some process is idle, again and again, so that a
reveal is asked for; the node takes it, since the contract would; and it is mined. What was asked by one process and what
was asked by another are different obligations, so each process's is proved for ever before they are
joined. `ENABLED` itself, and induction over time, are beyond the provers, so the theorems have as hypotheses

- `Fairness`, as the runs have it;
- that the named guards enable the fair steps (`ClosableIsEnabled` of contract and port, `FairStepsAreEnabled` of the vault).
  These are state predicates: TLC evaluates them, and they hold in every state of the instances of `ending`, `port` and `openings` when
  they are added to the configurations' invariants;
- `DeadlinesPass`, in contract and port: from any moment on the clock gets past the deadlines there are.
  Fair ticks bring that about when `MaxTime` is late enough, by an induction over time;
- `FaultsEnd`, in the vault: from some moment on there is no fault. `MaxFaults` brings that about, by an induction over faults.

**Model-checked only.** The steps from fairness to these hypotheses: that the clock passes the deadlines, that
finitely many faults end, and that a guard which names all conjuncts of an action enables it. TLC checks `ChallengesClose`,
`PollsClose` and `CommitmentsOpen` from `Fairness` alone, on the instances. Everything else the passing runs check is proved.

## 5. Not modelled

- The Go ports of identity, credit, passport, reputation and unit kind: every invocation reads and
  writes one record, no other contract's, and the Solidity contracts they follow are
  modelled. Where they differ from these (no action hash, unchecked additions, the parsing of a
  version) is said in section 3.
- `eccli`: commands without state; its score hash is part of the finding `encoding`.
- The signals for typosquatting and for private data in artifacts: comparisons of texts.
- Reports of the trust policy edited by hand: their gates are checked as words only, so nothing
  could be said of them.
- Canonical JSON, hashing, signatures of artifacts, encryption of the memory vault: taken as injective.
- `chain-state.ts`, fetching and decoding of logs, ABI tables, one-call wrappers of
  contracts, files and flags: I/O and data conversion.
- Shell flows, deployments, schemas and prose.

What could still be added: the remaining Go ports side by side with their Solidity originals.

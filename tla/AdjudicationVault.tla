------------------------- MODULE AdjudicationVault -------------------------
(***************************************************************************)
(* A validator's commitment state vault and the commands that use it, for  *)
(* one challenge and one validator: the row (challenge, validator) of      *)
(* every vault file.  A command reads its row, writes it, sends what the   *)
(* row then holds, waits for the node to take the transaction, and writes  *)
(* the row again, each a statement of its own outside any transaction of   *)
(* the database.  Other commands, a crash of the process, and the loss of  *)
(* the transaction may come in between.                                    *)
(***************************************************************************)
EXTENDS Integers

CONSTANTS Vaults,    \* vault files: the validator's own and restored ones
          Runs,      \* command processes that may be under way at once
                     \* (those that save or send)
          Verdicts,  \* what a verdict says, with its verdict and method hash
          Salts,     \* 32-byte salts
          MaxFaults  \* bound on crashes, lost transactions and refusals

ASSUME FaultsAssumption == MaxFaults \in Nat

VARIABLES rows,     \* the row of every vault
          backup,   \* the export file
          saves,    \* the commands that are saving a commitment
          runs,     \* the commands that are waiting for the node
          mempool,  \* transactions the node has accepted
          chain,    \* the validator's commitment in the contract
          phase,    \* the contract's phase of the challenge
          disputed, \* vaults that two commitments have laid claim to
          faults

vars == <<rows, backup, saves, runs, mempool, chain, phase, disputed, faults>>

-----------------------------------------------------------------------------
Statuses == {"pending_commit", "committed", "reveal_pending", "revealed"}

\* The hash binds verdict and salt: two hashes are equal iff both are.
Commitments == [verdict : Verdicts, salt : Salts]

Row == [commitment : Commitments, status : Statuses]

PendingRow(c) == [commitment |-> c, status |-> "pending_commit"]

Transaction == [kind : {"commit", "reveal"}, vault : Vaults, commitment : Commitments]

\* Rows, files, commands and the chain's record are sets of at most one element:
\* {} is a missing row, an unwritten file, an idle process, no commitment.
AtMostOne(S) == {{}} \cup {{x} : x \in S}

ChainRecord == [commitment : Commitments, vault : Vaults, revealed : BOOLEAN]

Waiting == [tx : Transaction, accepted : BOOLEAN]

\* A commitment on its way into a vault: whether the vault has it, and whether the
\* command sends it then.
Save == [vault : Vaults, commitment : Commitments, stored : BOOLEAN, broadcast : BOOLEAN]

\* There may be an export that was made from yet another vault before anything
\* was sent.
Init == /\ rows = [w \in Vaults |-> {}]
        /\ backup \in AtMostOne({PendingRow(c) : c \in Commitments})
        /\ saves = [r \in Runs |-> {}]
        /\ runs = [r \in Runs |-> {}]
        /\ mempool = {}
        /\ chain = {}
        /\ phase = "commit"
        /\ disputed = {}
        /\ faults = 0

-----------------------------------------------------------------------------
(* The vault. *)

\* What saveBeforeBroadcast refuses: a commitment that differs from the row's.
Accepts(w, c) == \A row \in rows[w] : row.commitment = c

\* The marks write a status whatever the row's status is.
Marked(w, status) == {[row EXCEPT !.status = status] : row \in rows[w]}

DeviatingMarkOf(kind) == IF kind = "commit" THEN "committed" ELSE "revealed"

MarkOf(kind) == IF kind = "commit" THEN "committed" ELSE "reveal_pending"

Idle(r) == runs[r] = {} /\ saves[r] = {}

\* commitValidatorVerdictTransaction and revealValidatorVerdictTransaction; the
\* artifacts they are given bind what the row binds.
CommitTransaction(w, c) == [kind |-> "commit", vault |-> w, commitment |-> c]
RevealTransaction(w, c) == [kind |-> "reveal", vault |-> w, commitment |-> c]

Send(r, tx) == runs' = [runs EXCEPT ![r] = {[tx |-> tx, accepted |-> FALSE]}]

\* A command that has read an empty row and has yet to write another commitment.
Contended(w, c) ==
  \E r \in Runs : \E save \in saves[r] :
    save.vault = w /\ ~save.stored /\ save.commitment # c

Dispute(w) == disputed' = disputed \cup {w}

\* A command that does not look at the row.
DeviatingReadRow(r, w, c, broadcast) ==
  /\ Idle(r)
  /\ saves' = [saves EXCEPT ![r] = {[vault |-> w, commitment |-> c,
                                     stored |-> FALSE, broadcast |-> broadcast]}]
  /\ UNCHANGED <<rows, backup, runs, mempool, chain, phase, disputed, faults>>

\* create-verdict-commitment and commit-validator-verdict read the row: one that
\* differs is refused, one that is there is left as it is.
ReadRow(r, w, c, broadcast) ==
  /\ Idle(r)
  /\ Accepts(w, c)
  /\ broadcast \/ rows[w] = {}
  /\ saves' = [saves EXCEPT ![r] = {[vault |-> w, commitment |-> c,
                                     stored |-> rows[w] # {}, broadcast |-> broadcast]}]
  /\ UNCHANGED <<rows, backup, runs, mempool, chain, phase, disputed, faults>>

\* Where there was no row one is inserted, and on conflict with a row that is there
\* by now the insert replaces its commitment, its salt and its status.
InsertRow(save) ==
  /\ ~save.stored
  /\ rows' = [rows EXCEPT ![save.vault] = {PendingRow(save.commitment)}]
  /\ IF Contended(save.vault, save.commitment)
       THEN Dispute(save.vault) ELSE UNCHANGED disputed

\* create-verdict-commitment inserts the row and prints it; so does
\* commit-validator-verdict without --broadcast.  (With a row that is there they
\* change nothing.)
CreateVerdictCommitment(r) ==
  /\ \E save \in saves[r] : ~save.broadcast /\ InsertRow(save)
  /\ saves' = [saves EXCEPT ![r] = {}]
  /\ UNCHANGED <<backup, runs, mempool, chain, phase, faults>>

\* commit-validator-verdict --broadcast inserts the row,
SaveBeforeBroadcast(r) ==
  /\ \E save \in saves[r] :
       /\ save.broadcast
       /\ InsertRow(save)
       /\ saves' = [saves EXCEPT ![r] = {[save EXCEPT !.stored = TRUE]}]
  /\ UNCHANGED <<backup, runs, mempool, chain, phase, faults>>

\* reads it again, and sends what it then holds.
CommitValidatorVerdict(r) ==
  /\ \E save \in saves[r] :
       /\ save.stored /\ save.broadcast
       /\ \E row \in rows[save.vault] :
            Send(r, CommitTransaction(save.vault, row.commitment))
  /\ saves' = [saves EXCEPT ![r] = {}]
  /\ UNCHANGED <<rows, backup, mempool, chain, phase, disputed, faults>>

DeviatingRevealable(row) == row.status = "committed"

\* revealArtifact asks for a row, not for a status.
Revealable(row) == row \in Row

\* reveal-validator-verdict --broadcast
RevealValidatorVerdict(r, w) ==
  /\ Idle(r)
  /\ \E row \in rows[w] : Revealable(row) /\ Send(r, RevealTransaction(w, row.commitment))
  /\ UNCHANGED <<rows, backup, saves, mempool, chain, phase, disputed, faults>>

Retriable(row) == row.status \in {"committed", "reveal_pending"}

\* retry-verdict-reveal --broadcast
RetryVerdictReveal(r, w) ==
  /\ Idle(r)
  /\ \E row \in rows[w] : Retriable(row) /\ Send(r, RevealTransaction(w, row.commitment))
  /\ UNCHANGED <<rows, backup, saves, mempool, chain, phase, disputed, faults>>

\* retry-verdict-reveal --chain-revealed true, which the validator passes after
\* it has seen its verdict revealed: it marks the row of any status and fails.
RetryConfirms(w) ==
  /\ \E record \in chain : record.revealed
  /\ rows' = [rows EXCEPT ![w] = Marked(w, "revealed")]
  /\ UNCHANGED <<backup, saves, runs, mempool, chain, phase, disputed, faults>>

\* markCommitSubmitted or markRevealSubmitted, once the node has answered.
MarkSubmitted(r) ==
  /\ \E run \in runs[r] :
       /\ run.accepted
       /\ rows' = [rows EXCEPT ![run.tx.vault] = Marked(run.tx.vault, MarkOf(run.tx.kind))]
  /\ runs' = [runs EXCEPT ![r] = {}]
  /\ UNCHANGED <<backup, saves, mempool, chain, phase, disputed, faults>>

ExportVerdictCommitment(w) ==
  /\ rows[w] # {}
  /\ backup' = rows[w]
  /\ UNCHANGED <<rows, saves, runs, mempool, chain, phase, disputed, faults>>

\* importRecord replaces the row, its salt and its status without asking.
ImportVerdictCommitment(w) ==
  /\ \E file \in backup :
       /\ rows' = [rows EXCEPT ![w] = {file}]
       /\ IF Accepts(w, file.commitment) /\ ~Contended(w, file.commitment)
            THEN UNCHANGED disputed ELSE Dispute(w)
  /\ UNCHANGED <<backup, saves, runs, mempool, chain, phase, faults>>

-----------------------------------------------------------------------------
(* The node and the contract. *)

\* The contract takes one commitment while commits are open and one reveal of
\* it while reveals are.
CommitValid == chain = {} /\ phase = "commit"
RevealValid(c) == /\ phase = "reveal"
                  /\ \E record \in chain : record.commitment = c /\ ~record.revealed

Valid(tx) == \/ tx.kind = "commit" /\ CommitValid
             \/ tx.kind = "reveal" /\ RevealValid(tx.commitment)

\* writeContract returns the hash of a transaction the node has accepted; a call
\* that would revert fails when its gas is estimated.
Accept(r) ==
  /\ \E run \in runs[r] :
       /\ ~run.accepted
       /\ Valid(run.tx)
       /\ mempool' = mempool \cup {run.tx}
       /\ runs' = [runs EXCEPT ![r] = {[run EXCEPT !.accepted = TRUE]}]
  /\ UNCHANGED <<rows, backup, saves, chain, phase, disputed, faults>>

\* The command fails, and its vault stays as it was when it was sent.
Refuse(r) ==
  /\ \E run \in runs[r] : ~run.accepted /\ ~Valid(run.tx)
  /\ runs' = [runs EXCEPT ![r] = {}]
  /\ UNCHANGED <<rows, backup, saves, mempool, chain, phase, disputed, faults>>

Fault == faults < MaxFaults /\ faults' = faults + 1

\* The process dies, or the node cannot be reached.
Crash(r) ==
  /\ Fault
  /\ ~Idle(r)
  /\ saves' = [saves EXCEPT ![r] = {}]
  /\ runs' = [runs EXCEPT ![r] = {}]
  /\ UNCHANGED <<rows, backup, mempool, chain, phase, disputed>>

Mine(tx) ==
  /\ tx \in mempool
  /\ mempool' = mempool \ {tx}
  /\ chain' = IF ~Valid(tx) THEN chain
              ELSE IF tx.kind = "commit"
                   THEN {[commitment |-> tx.commitment, vault |-> tx.vault, revealed |-> FALSE]}
                   ELSE {[record EXCEPT !.revealed = TRUE] : record \in chain}
  /\ UNCHANGED <<rows, backup, saves, runs, phase, disputed, faults>>

Lose(tx) ==
  /\ Fault
  /\ tx \in mempool
  /\ mempool' = mempool \ {tx}
  /\ UNCHANGED <<rows, backup, saves, runs, chain, phase, disputed>>

Tick ==
  /\ phase # "over"
  /\ phase' = IF phase = "commit" THEN "reveal" ELSE "over"
  /\ UNCHANGED <<rows, backup, saves, runs, mempool, chain, disputed, faults>>

-----------------------------------------------------------------------------
VaultStep(w) == \/ RetryConfirms(w)
                \/ ExportVerdictCommitment(w)
                \/ ImportVerdictCommitment(w)

RunStep(r) == \/ \E w \in Vaults, c \in Commitments, broadcast \in BOOLEAN :
                   ReadRow(r, w, c, broadcast)
              \/ CreateVerdictCommitment(r)
              \/ SaveBeforeBroadcast(r)
              \/ CommitValidatorVerdict(r)
              \/ \E w \in Vaults : RevealValidatorVerdict(r, w) \/ RetryVerdictReveal(r, w)
              \/ MarkSubmitted(r)
              \/ Accept(r)
              \/ Refuse(r)
              \/ Crash(r)

Next == \/ \E w \in Vaults : VaultStep(w)
        \/ \E r \in Runs : RunStep(r)
        \/ \E tx \in mempool : Mine(tx) \/ Lose(tx)
        \/ Tick

Spec == Init /\ [][Next]_vars

\* Time passes until reveals open, the validator runs reveal-validator-verdict on
\* each of its vaults again and again, a command goes on and gets an answer, and
\* what the node has accepted is mined.
Goes(r) == \/ CreateVerdictCommitment(r) \/ SaveBeforeBroadcast(r) \/ CommitValidatorVerdict(r)
           \/ Accept(r) \/ Refuse(r) \/ MarkSubmitted(r)

CommitsEnd == WF_vars(phase = "commit" /\ Tick)
Reveals(w) == SF_vars(\E r \in Runs : RevealValidatorVerdict(r, w))
GoesOn(r)  == WF_vars(Goes(r))
IsMined(tx) == WF_vars(Mine(tx))

Fairness == /\ CommitsEnd
            /\ \A w \in Vaults : Reveals(w)
            /\ \A r \in Runs : GoesOn(r)
            /\ \A tx \in Transaction : IsMined(tx)

FairSpec == Spec /\ Fairness

-----------------------------------------------------------------------------
TypeOK ==
  /\ rows \in [Vaults -> AtMostOne(Row)]
  /\ backup \in AtMostOne(Row)
  /\ saves \in [Runs -> AtMostOne(Save)]
  /\ runs \in [Runs -> AtMostOne(Waiting)]
  /\ mempool \subseteq Transaction
  /\ chain \in AtMostOne(ChainRecord)
  /\ phase \in {"commit", "reveal", "over"}
  /\ disputed \subseteq Vaults
  /\ faults \in 0 .. MaxFaults

\* The transactions that left a vault and were not lost: on their way to the
\* node, in its pool, or in the contract.
Sent == mempool \cup UNION {{run.tx : run \in runs[r]} : r \in Runs}

\* Whatever a validator has sent from a vault can be revealed from that vault:
\* its row binds the very commitment, at every moment of a command and after
\* every crash, unless the vault is disputed.  saveBeforeBroadcast comes before
\* the broadcast, but it reads and writes in two statements, so a salt is lost to
\* a save that has read the vault before the row was there; it is lost in no other
\* way but to an import.
SentIsRevealable ==
  /\ \A tx \in Sent : tx.vault \notin disputed =>
       \E row \in rows[tx.vault] : row.commitment = tx.commitment
  /\ \A record \in chain : record.vault \notin disputed =>
       \E row \in rows[record.vault] : row.commitment = record.commitment

\* No row and no export says revealed before the contract does, although reveal
\* transactions are marked when they are merely submitted and statuses travel
\* with exports.
RevealedOnChain ==
  \A row \in backup \cup UNION {rows[w] : w \in Vaults} :
    row.status = "revealed" => \E record \in chain : record.revealed

\* A commitment in the contract is revealed in the end if reveals stay open,
\* whatever crash or loss came in between and whichever status it left in the
\* row, unless its vault is disputed.
CommitmentsOpen ==
  \A w \in Vaults :
    (\E record \in chain : record.vault = w)
      ~> \/ \E record \in chain : record.revealed
         \/ phase = "over"
         \/ w \in disputed


\* When the steps of Fairness can be taken: before reveals open; with a row and an idle
\* process; while a command is under way; with the transaction in the pool.
CommitsCanEnd == phase = "commit" => ENABLED <<phase = "commit" /\ Tick>>_vars

CanReveal(w) ==
  rows[w] # {} /\ (\E r \in Runs : Idle(r)) =>
    ENABLED <<\E r \in Runs : RevealValidatorVerdict(r, w)>>_vars

CanGoOn(r) == ~Idle(r) => ENABLED <<Goes(r)>>_vars

CanBeMined(tx) == tx \in mempool => ENABLED <<Mine(tx)>>_vars

FairStepsAreEnabled == /\ CommitsCanEnd
                       /\ \A w \in Vaults : CanReveal(w)
                       /\ \A r \in Runs : CanGoOn(r)
                       /\ \A tx \in Transaction : CanBeMined(tx)

=============================================================================

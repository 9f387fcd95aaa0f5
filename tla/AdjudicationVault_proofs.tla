----------------------- MODULE AdjudicationVault_proofs -----------------------
(***************************************************************************)
(* What was committed can be opened.  What a validator has sent can be     *)
(* revealed from the vault it sent it from, for any vaults, processes,     *)
(* verdicts, salts and faults; a score is opened by what its scorer sent,  *)
(* for any scorers, modules and scores.                                    *)
(***************************************************************************)
EXTENDS MCOpenings, TLAPS

\* The two conjuncts of SentIsRevealable, said of one vault and commitment.
Held(w, c) == w \in disputed \/ \E row \in rows[w] : row.commitment = c

\* The invariant by cases: what a process holds, what the pool holds, and what
\* the contract holds.
AllHeld == /\ \A r \in Runs : \A run \in runs[r] : Held(run.tx.vault, run.tx.commitment)
           /\ \A tx \in mempool : Held(tx.vault, tx.commitment)
           /\ \A record \in chain : Held(record.vault, record.commitment)

\* A command that has yet to insert its row agrees with the row that is there by
\* now, or their vault is disputed; and a command that saves does not wait yet.
SavesAgree ==
  /\ \A r \in Runs : \A save \in saves[r] :
       save.stored \/ save.vault \in disputed \/ Accepts(save.vault, save.commitment)
  /\ \A r \in Runs : saves[r] = {} \/ runs[r] = {}

IInv == TypeOK /\ AllHeld /\ SavesAgree

\* A row or a file is of the type its set says.
LEMMA AtMostOneMembers ==
  ASSUME NEW S, NEW T \in AtMostOne(S)
  PROVE  T \subseteq S
  BY DEF AtMostOne

LEMMA OneIsAtMostOne ==
  ASSUME NEW S, NEW x \in S
  PROVE  {x} \in AtMostOne(S) /\ {} \in AtMostOne(S)
  BY DEF AtMostOne

\* At most one row stays at most one row when its status is changed.
LEMMA MarkedTypes ==
  ASSUME NEW w \in Vaults, rows[w] \in AtMostOne(Row), NEW status \in Statuses
  PROVE  /\ Marked(w, status) \in AtMostOne(Row)
         /\ \A c : (\E row \in rows[w] : row.commitment = c)
                     => \E row \in Marked(w, status) : row.commitment = c
         /\ \A c : Accepts(w, c) => \A row \in Marked(w, status) : row.commitment = c
<1>1. CASE rows[w] = {}
  BY <1>1 DEF Marked, AtMostOne
<1>2. CASE \E row \in Row : rows[w] = {row}
  <2>1. PICK row \in Row : rows[w] = {row}
    BY <1>2
  <2>. DEFINE new == [row EXCEPT !.status = status]
  <2>2. Marked(w, status) = {new}
    BY <2>1 DEF Marked
  <2>3. new \in Row /\ new.commitment = row.commitment
    BY DEF Row
  <2>. HIDE DEF new
  <2>4. {new} \in AtMostOne(Row)
    BY <2>3, OneIsAtMostOne
  <2>. QED
    BY <2>1, <2>2, <2>3, <2>4 DEF Accepts
<1>. QED
  BY <1>1, <1>2 DEF AtMostOne

LEMMA InitHolds == Init => IInv
<1>. SUFFICES ASSUME Init PROVE IInv
  OBVIOUS
<1>1. TypeOK
  <2>1. \A c \in Commitments : PendingRow(c) \in Row
    BY DEF PendingRow, Row, Statuses
  <2>2. backup \in AtMostOne(Row)
    BY <2>1 DEF Init, AtMostOne
  <2>. QED
    BY <2>2, FaultsAssumption DEF Init, TypeOK, AtMostOne
<1>2. AllHeld /\ SavesAgree
  BY DEF Init, AllHeld, SavesAgree
<1>. QED
  BY <1>1, <1>2 DEF IInv

\* What is held stays held when a row is written, as long as the commitment that
\* was there stays or the vault is disputed.
LEMMA RowChange ==
  ASSUME IInv, NEW w \in Vaults, NEW new \in AtMostOne(Row),
         rows' = [rows EXCEPT ![w] = new], disputed \subseteq disputed',
         w \in disputed' \/ \A c : (\E row \in rows[w] : row.commitment = c)
                                  => \E row \in new : row.commitment = c
  PROVE  /\ rows' \in [Vaults -> AtMostOne(Row)]
         /\ \A v \in Vaults : \A c : Held(v, c) => Held(v, c)'
<1>1. rows' \in [Vaults -> AtMostOne(Row)]
  BY DEF IInv, TypeOK
<1>2. ASSUME NEW v \in Vaults, NEW c, Held(v, c)
      PROVE  Held(v, c)'
  <2>1. CASE v = w
    BY <1>2, <2>1 DEF Held, IInv, TypeOK
  <2>2. CASE v # w
    BY <1>2, <2>2 DEF Held, IInv, TypeOK
  <2>. QED
    BY <2>1, <2>2
<1>. QED
  BY <1>1, <1>2

\* Saves that go on, or are given up, still agree with the rows when one row is
\* written as they expect.
LEMMA SavesStay ==
  ASSUME IInv, NEW w \in Vaults, NEW new,
         rows' = [rows EXCEPT ![w] = new], disputed \subseteq disputed',
         \A r \in Runs : saves'[r] \subseteq saves[r],
         \A r \in Runs : saves'[r] = {} \/ runs'[r] = {},
         w \in disputed' \/ \A r \in Runs : \A save \in saves'[r] :
           save.vault = w /\ ~save.stored => \A row \in new : row.commitment = save.commitment
  PROVE  SavesAgree'
<1>1. ASSUME NEW r \in Runs, NEW save \in saves'[r]
      PROVE  (save.stored \/ save.vault \in disputed \/ Accepts(save.vault, save.commitment))'
  <2>1. save \in saves[r] /\ save.vault \in Vaults
    <3>1. save \in saves[r] /\ saves[r] \subseteq Save
      BY AtMostOneMembers DEF IInv, TypeOK
    <3>. QED
      BY <3>1 DEF Save
  <2>2. save.stored \/ save.vault \in disputed \/ Accepts(save.vault, save.commitment)
    BY <2>1 DEF IInv, SavesAgree
  <2>3. CASE save.vault = w
    <3>1. rows'[w] = new
      BY DEF IInv, TypeOK
    <3>. QED
      BY <1>1, <2>2, <2>3, <3>1 DEF Accepts
  <2>4. CASE save.vault # w
    <3>1. rows'[save.vault] = rows[save.vault]
      BY <2>4
    <3>. QED
      BY <2>2, <3>1 DEF Accepts
  <2>. QED
    BY <2>3, <2>4
<1>. QED
  BY <1>1 DEF SavesAgree

\* And when no row is written.
LEMMA SavesRest ==
  ASSUME IInv, UNCHANGED <<rows, disputed>>,
         \A r \in Runs : saves'[r] \subseteq saves[r],
         \A r \in Runs : saves'[r] = {} \/ runs'[r] = {}
  PROVE  SavesAgree'
BY DEF IInv, SavesAgree, Accepts

\* A step that sends nothing new keeps everything held, as long as what was held
\* by a vault stays so.
LEMMA NothingNew ==
  ASSUME IInv,
         \A v \in Vaults : \A c : Held(v, c) => Held(v, c)',
         \A r \in Runs : \A run \in runs'[r] :
            \E old \in runs[r] : run.tx = old.tx,
         mempool' \subseteq mempool \cup UNION {{run.tx : run \in runs[r]} : r \in Runs},
         \A record \in chain' :
            \/ \E old \in chain : record.vault = old.vault /\ record.commitment = old.commitment
            \/ \E tx \in mempool : record.vault = tx.vault /\ record.commitment = tx.commitment
  PROVE  AllHeld'
<1>0. /\ \A r \in Runs : \A run \in runs[r] : run.tx.vault \in Vaults
      /\ \A tx \in mempool : tx.vault \in Vaults
      /\ \A record \in chain : record.vault \in Vaults
  <2>1. ASSUME NEW r \in Runs, NEW run \in runs[r] PROVE run.tx.vault \in Vaults
    <3>1. run \in Waiting
      BY AtMostOneMembers DEF IInv, TypeOK
    <3>. QED
      BY <3>1 DEF Waiting, Transaction
  <2>2. ASSUME NEW tx \in mempool PROVE tx.vault \in Vaults
    BY DEF IInv, TypeOK, Transaction
  <2>3. ASSUME NEW record \in chain PROVE record.vault \in Vaults
    <3>1. record \in ChainRecord
      BY AtMostOneMembers DEF IInv, TypeOK
    <3>. QED
      BY <3>1 DEF ChainRecord
  <2>. QED
    BY <2>1, <2>2, <2>3
<1>1. ASSUME NEW r \in Runs, NEW run \in runs'[r]
      PROVE  Held(run.tx.vault, run.tx.commitment)'
  <2>1. PICK old \in runs[r] : run.tx = old.tx
    BY <1>1
  <2>2. Held(old.tx.vault, old.tx.commitment)
    BY DEF IInv, AllHeld
  <2>. QED
    BY <1>0, <2>1, <2>2
<1>2. ASSUME NEW tx \in mempool'
      PROVE  Held(tx.vault, tx.commitment)'
  <2>1. Held(tx.vault, tx.commitment) /\ tx.vault \in Vaults
    <3>1. CASE tx \in mempool
      BY <1>0, <3>1 DEF IInv, AllHeld
    <3>2. CASE \E r \in Runs : \E run \in runs[r] : tx = run.tx
      BY <1>0, <3>2 DEF IInv, AllHeld
    <3>. QED
      BY <1>2, <3>1, <3>2
  <2>. QED
    BY <2>1
<1>3. ASSUME NEW record \in chain'
      PROVE  Held(record.vault, record.commitment)'
  <2>1. Held(record.vault, record.commitment) /\ record.vault \in Vaults
    BY <1>0, <1>3 DEF IInv, AllHeld
  <2>. QED
    BY <2>1
<1>. QED
  BY <1>1, <1>2, <1>3 DEF AllHeld

\* A process that starts sends a commitment its vault then holds.
LEMMA NewRun ==
  ASSUME IInv, NEW r \in Runs, NEW w \in Vaults, NEW c \in Commitments,
         NEW tx \in {CommitTransaction(w, c), RevealTransaction(w, c)},
         Send(r, tx), Held(w, c)',
         \A v \in Vaults : \A d : Held(v, d) => Held(v, d)',
         mempool' = mempool, chain' = chain
  PROVE  runs' \in [Runs -> AtMostOne(Waiting)] /\ AllHeld'
<1>. DEFINE new == [tx |-> tx, accepted |-> FALSE]
<1>1. new \in Waiting /\ new.tx.vault = w /\ new.tx.commitment = c
  <2>1. tx \in Transaction /\ tx.vault = w /\ tx.commitment = c
    BY DEF Transaction, CommitTransaction, RevealTransaction
  <2>. QED
    BY <2>1 DEF Waiting
<1>2. runs' = [runs EXCEPT ![r] = {new}]
  BY DEF Send
<1>. HIDE DEF new
<1>3. runs' \in [Runs -> AtMostOne(Waiting)]
  BY <1>1, <1>2, OneIsAtMostOne DEF IInv, TypeOK
<1>4. ASSUME NEW q \in Runs, NEW run \in runs'[q]
      PROVE  Held(run.tx.vault, run.tx.commitment)'
  <2>1. CASE q = r
    BY <1>1, <1>2, <1>4, <2>1 DEF IInv, TypeOK
  <2>2. CASE q # r
    <3>1. run \in runs[q]
      BY <1>2, <1>4, <2>2 DEF IInv, TypeOK
    <3>2. run \in Waiting
      BY <3>1, AtMostOneMembers DEF IInv, TypeOK
    <3>3. run.tx.vault \in Vaults
      BY <3>2 DEF Waiting, Transaction
    <3>. QED
      BY <3>1, <3>3 DEF IInv, AllHeld
  <2>. QED
    BY <2>1, <2>2
<1>5. ASSUME NEW old \in mempool' PROVE Held(old.vault, old.commitment)'
  BY <1>5 DEF IInv, AllHeld, TypeOK, Transaction
<1>6. ASSUME NEW record \in chain' PROVE Held(record.vault, record.commitment)'
  <2>1. record \in ChainRecord
    BY <1>6, AtMostOneMembers DEF IInv, TypeOK
  <2>. QED
    BY <1>6, <2>1 DEF IInv, AllHeld, ChainRecord
<1>. QED
  BY <1>3, <1>4, <1>5, <1>6 DEF AllHeld

LEMMA VaultStepKeeps ==
  ASSUME IInv, NEW w \in Vaults, VaultStep(w)
  PROVE  IInv'
<1>0. /\ rows[w] \in AtMostOne(Row)
      /\ \A r \in Runs : saves[r] = {} \/ runs[r] = {}
  BY DEF IInv, TypeOK, SavesAgree
<1>1. ASSUME RetryConfirms(w)
      PROVE  IInv'
  <2>. DEFINE new == Marked(w, "revealed")
  <2>0. /\ new \in AtMostOne(Row)
        /\ \A c : (\E row \in rows[w] : row.commitment = c) => \E row \in new : row.commitment = c
        /\ \A c : Accepts(w, c) => \A row \in new : row.commitment = c
    <3>1. "revealed" \in Statuses
      BY DEF Statuses
    <3>. QED
      BY <1>0, <3>1, MarkedTypes
  <2>1. /\ rows' = [rows EXCEPT ![w] = new]
        /\ UNCHANGED <<backup, saves, runs, mempool, chain, phase, disputed, faults>>
    BY <1>1 DEF RetryConfirms
  <2>. HIDE DEF new
  <2>2. /\ rows' \in [Vaults -> AtMostOne(Row)]
        /\ \A v \in Vaults : \A d : Held(v, d) => Held(v, d)'
    BY <2>0, <2>1, RowChange
  <2>3. AllHeld'
    BY <2>1, <2>2, NothingNew
  <2>4. SavesAgree'
    <3>1. ASSUME w \notin disputed', NEW r \in Runs, NEW save \in saves'[r],
                 save.vault = w, ~save.stored
          PROVE  \A row \in new : row.commitment = save.commitment
      BY <2>0, <2>1, <3>1 DEF IInv, SavesAgree
    <3>. QED
      BY <1>0, <2>1, <3>1, SavesStay
  <2>5. TypeOK'
    BY <2>1, <2>2 DEF IInv, TypeOK
  <2>. QED
    BY <2>3, <2>4, <2>5 DEF IInv
<1>2. ASSUME ExportVerdictCommitment(w)
      PROVE  IInv'
  <2>1. \A v \in Vaults : \A d : Held(v, d) => Held(v, d)'
    BY <1>2 DEF ExportVerdictCommitment, Held
  <2>2. AllHeld'
    BY <1>2, <2>1, NothingNew DEF ExportVerdictCommitment
  <2>3. SavesAgree'
    BY <1>0, <1>2, SavesRest DEF ExportVerdictCommitment
  <2>4. TypeOK'
    BY <1>0, <1>2 DEF ExportVerdictCommitment, IInv, TypeOK
  <2>. QED
    BY <2>2, <2>3, <2>4 DEF IInv
<1>3. ASSUME ImportVerdictCommitment(w)
      PROVE  IInv'
  <2>1. PICK file \in backup :
          /\ rows' = [rows EXCEPT ![w] = {file}]
          /\ IF Accepts(w, file.commitment) /\ ~Contended(w, file.commitment)
               THEN UNCHANGED disputed ELSE Dispute(w)
    BY <1>3 DEF ImportVerdictCommitment
  <2>2. file \in Row /\ {file} \in AtMostOne(Row)
    BY OneIsAtMostOne, AtMostOneMembers DEF IInv, TypeOK
  <2>3. /\ disputed \subseteq disputed' /\ disputed' \subseteq Vaults
        /\ \/ w \in disputed'
           \/ Accepts(w, file.commitment) /\ ~Contended(w, file.commitment)
    BY <2>1 DEF Dispute, IInv, TypeOK
  <2>4. UNCHANGED <<backup, saves, runs, mempool, chain, phase, faults>>
    BY <1>3 DEF ImportVerdictCommitment
  <2>5. /\ rows' \in [Vaults -> AtMostOne(Row)]
        /\ \A v \in Vaults : \A d : Held(v, d) => Held(v, d)'
    <3>1. w \in disputed' \/ \A c : (\E row \in rows[w] : row.commitment = c)
                                  => \E row \in {file} : row.commitment = c
      BY <2>3 DEF Accepts
    <3>. QED
      BY <2>1, <2>2, <2>3, <3>1, RowChange
  <2>6. AllHeld'
    BY <2>4, <2>5, NothingNew
  <2>7. SavesAgree'
    <3>1. ASSUME w \notin disputed', NEW r \in Runs, NEW save \in saves'[r],
                 save.vault = w, ~save.stored
          PROVE  \A row \in {file} : row.commitment = save.commitment
      BY <2>3, <2>4, <3>1 DEF Contended
    <3>. DEFINE new == {file}
    <3>2. /\ rows' = [rows EXCEPT ![w] = new]
          /\ \A r \in Runs : saves'[r] \subseteq saves[r]
          /\ \A r \in Runs : saves'[r] = {} \/ runs'[r] = {}
      BY <1>0, <2>1, <2>4
    <3>3. w \in disputed' \/ \A r \in Runs : \A save \in saves'[r] :
            save.vault = w /\ ~save.stored => \A row \in new : row.commitment = save.commitment
      BY <3>1
    <3>. HIDE DEF new
    <3>. QED
      BY <2>3, <3>2, <3>3, SavesStay
  <2>8. TypeOK'
    BY <2>3, <2>4, <2>5 DEF IInv, TypeOK
  <2>. QED
    BY <2>6, <2>7, <2>8 DEF IInv
<1>. QED
  BY <1>1, <1>2, <1>3 DEF VaultStep

\* An insert leaves what is held held: the row it replaces binds the same commitment,
\* or the vault is disputed.
LEMMA InsertKeeps ==
  ASSUME IInv, NEW r \in Runs, NEW save \in saves[r], InsertRow(save),
         NEW after \in AtMostOne(Save), \A new \in after : new.stored,
         saves' = [saves EXCEPT ![r] = after],
         UNCHANGED <<backup, runs, mempool, chain, phase, faults>>
  PROVE  IInv'
<1>1. save \in Save /\ ~save.stored
  BY AtMostOneMembers DEF IInv, TypeOK, InsertRow
<1>. DEFINE w == save.vault
            c == save.commitment
            row == PendingRow(c)
<1>2. w \in Vaults /\ row \in Row /\ row.commitment = c /\ {row} \in AtMostOne(Row)
  <2>1. w \in Vaults /\ c \in Commitments
    BY <1>1 DEF Save
  <2>2. row \in Row /\ row.commitment = c
    BY <2>1 DEF PendingRow, Row, Statuses
  <2>. QED
    BY <2>1, <2>2, OneIsAtMostOne
<1>3. /\ rows' = [rows EXCEPT ![w] = {row}]
      /\ disputed \subseteq disputed' /\ disputed' \subseteq Vaults
      /\ w \in disputed' \/ ~Contended(w, c)
  BY <1>2 DEF InsertRow, Dispute, IInv, TypeOK
<1>4. w \in disputed' \/ Accepts(w, c)
  BY <1>1, <1>3 DEF IInv, SavesAgree
<1>. HIDE DEF w, c, row
<1>5. /\ rows' \in [Vaults -> AtMostOne(Row)]
      /\ \A v \in Vaults : \A d : Held(v, d) => Held(v, d)'
  <2>1. w \in disputed' \/ \A d : (\E old \in rows[w] : old.commitment = d)
                                => \E new \in {row} : new.commitment = d
    BY <1>2, <1>4 DEF Accepts
  <2>. QED
    BY <1>2, <1>3, <2>1, RowChange
<1>6. AllHeld'
  BY <1>5, NothingNew
<1>7. \A q \in Runs : saves'[q] = (IF q = r THEN after ELSE saves[q])
  BY DEF IInv, TypeOK
<1>8. SavesAgree'
  <2>1. ASSUME NEW q \in Runs, NEW new \in saves'[q]
        PROVE  (new.stored \/ new.vault \in disputed \/ Accepts(new.vault, new.commitment))'
    <3>1. CASE q = r
      BY <1>7, <2>1, <3>1
    <3>2. CASE q # r
      <4>1. new \in saves[q] /\ new \in Save
        BY <1>7, <2>1, <3>2, AtMostOneMembers DEF IInv, TypeOK
      <4>2. new.stored \/ new.vault \in disputed \/ Accepts(new.vault, new.commitment)
        BY <4>1 DEF IInv, SavesAgree
      <4>3. CASE new.vault = w
        <5>1. rows'[w] = {row}
          BY <1>2, <1>3 DEF IInv, TypeOK
        <5>2. new.stored \/ w \in disputed' \/ new.commitment = c
          BY <1>3, <4>1, <4>3 DEF Contended
        <5>. QED
          BY <1>2, <4>3, <5>1, <5>2 DEF Accepts
      <4>4. CASE new.vault # w
        <5>1. rows'[new.vault] = rows[new.vault]
          BY <1>3, <4>1, <4>4 DEF IInv, TypeOK, Save
        <5>. QED
          BY <1>3, <4>2, <5>1 DEF Accepts
      <4>. QED
        BY <4>3, <4>4
    <3>. QED
      BY <3>1, <3>2
  <2>2. \A q \in Runs : saves'[q] = {} \/ runs'[q] = {}
    BY <1>7 DEF IInv, SavesAgree
  <2>. QED
    BY <2>1, <2>2 DEF SavesAgree
<1>9. TypeOK'
  BY <1>3, <1>5 DEF IInv, TypeOK
<1>. QED
  BY <1>6, <1>8, <1>9 DEF IInv

\* The steps by which a command saves and sends.
LEMMA SaveKeeps ==
  ASSUME IInv, NEW r \in Runs,
         \/ \E w \in Vaults, c \in Commitments, broadcast \in BOOLEAN :
              ReadRow(r, w, c, broadcast)
         \/ CreateVerdictCommitment(r) \/ SaveBeforeBroadcast(r) \/ CommitValidatorVerdict(r)
  PROVE  IInv'
<1>0. /\ saves \in [Runs -> AtMostOne(Save)] /\ {} \in AtMostOne(Save)
      /\ \A q \in Runs : saves[q] = {} \/ runs[q] = {}
  BY DEF IInv, TypeOK, SavesAgree, AtMostOne
<1>1. ASSUME NEW w \in Vaults, NEW c \in Commitments, NEW broadcast \in BOOLEAN,
             ReadRow(r, w, c, broadcast)
      PROVE  IInv'
  <2>. DEFINE save == [vault |-> w, commitment |-> c,
                       stored |-> rows[w] # {}, broadcast |-> broadcast]
  <2>1. /\ save \in Save /\ save.vault = w /\ save.commitment = c
        /\ {save} \in AtMostOne(Save)
    <3>1. save \in Save /\ save.vault = w /\ save.commitment = c
      BY DEF Save
    <3>. QED
      BY <3>1, OneIsAtMostOne
  <2>2. /\ saves' = [saves EXCEPT ![r] = {save}] /\ Accepts(w, c) /\ runs[r] = {}
        /\ UNCHANGED <<rows, backup, runs, mempool, chain, phase, disputed, faults>>
    BY <1>1 DEF ReadRow, Idle
  <2>. HIDE DEF save
  <2>3. AllHeld'
    BY <2>2 DEF IInv, AllHeld, Held
  <2>4. SavesAgree'
    <3>1. ASSUME NEW q \in Runs, NEW new \in saves'[q]
          PROVE  (new.stored \/ new.vault \in disputed \/ Accepts(new.vault, new.commitment))'
      <4>1. new.stored \/ new.vault \in disputed \/ Accepts(new.vault, new.commitment)
        <5>1. CASE q = r
          BY <1>0, <2>1, <2>2, <3>1, <5>1
        <5>2. CASE q # r
          BY <1>0, <2>2, <3>1, <5>2 DEF IInv, SavesAgree
        <5>. QED
          BY <5>1, <5>2
      <4>. QED
        BY <2>2, <4>1 DEF Accepts
    <3>2. \A q \in Runs : saves'[q] = {} \/ runs'[q] = {}
      BY <1>0, <2>2
    <3>. QED
      BY <3>1, <3>2 DEF SavesAgree
  <2>5. TypeOK'
    BY <1>0, <2>1, <2>2 DEF IInv, TypeOK
  <2>. QED
    BY <2>3, <2>4, <2>5 DEF IInv
<1>2. ASSUME CreateVerdictCommitment(r)
      PROVE  IInv'
  <2>1. PICK save \in saves[r] : InsertRow(save)
    BY <1>2 DEF CreateVerdictCommitment
  <2>. QED
    BY <1>0, <1>2, <2>1, InsertKeeps DEF CreateVerdictCommitment
<1>3. ASSUME SaveBeforeBroadcast(r)
      PROVE  IInv'
  <2>1. PICK save \in saves[r] :
          InsertRow(save) /\ saves' = [saves EXCEPT ![r] = {[save EXCEPT !.stored = TRUE]}]
    BY <1>3 DEF SaveBeforeBroadcast
  <2>. DEFINE new == [save EXCEPT !.stored = TRUE]
  <2>2. new \in Save /\ new.stored
    <3>1. save \in Save
      BY <1>0, <2>1, AtMostOneMembers
    <3>. QED
      BY <3>1 DEF Save
  <2>. HIDE DEF new
  <2>3. {new} \in AtMostOne(Save)
    BY <2>2, OneIsAtMostOne
  <2>. DEFINE after == {new}
  <2>4. /\ saves' = [saves EXCEPT ![r] = after]
        /\ after \in AtMostOne(Save) /\ \A x \in after : x.stored
    BY <2>1, <2>2, <2>3 DEF new
  <2>. HIDE DEF after
  <2>. QED
    BY <1>3, <2>1, <2>4, InsertKeeps DEF SaveBeforeBroadcast
<1>4. ASSUME CommitValidatorVerdict(r)
      PROVE  IInv'
  <2>0. PICK save \in saves[r] :
          \E row \in rows[save.vault] : Send(r, CommitTransaction(save.vault, row.commitment))
    BY <1>4 DEF CommitValidatorVerdict
  <2>1. PICK row \in rows[save.vault] : Send(r, CommitTransaction(save.vault, row.commitment))
    BY <2>0
  <2>2. save.vault \in Vaults /\ row.commitment \in Commitments
    <3>1. save \in Save
      BY <1>0, <2>0, AtMostOneMembers
    <3>2. save.vault \in Vaults
      BY <3>1 DEF Save
    <3>3. row \in Row
      BY <2>1, <3>2, AtMostOneMembers DEF IInv, TypeOK
    <3>. QED
      BY <3>2, <3>3 DEF Row
  <2>3. /\ saves' = [saves EXCEPT ![r] = {}]
        /\ UNCHANGED <<rows, backup, mempool, chain, phase, disputed, faults>>
    BY <1>4 DEF CommitValidatorVerdict
  <2>4. /\ Held(save.vault, row.commitment)'
        /\ \A v \in Vaults : \A d : Held(v, d) => Held(v, d)'
    BY <2>1, <2>3 DEF Held
  <2>5. AllHeld' /\ runs' \in [Runs -> AtMostOne(Waiting)]
    <3>. DEFINE w == save.vault
                c == row.commitment
                tx == CommitTransaction(w, c)
    <3>1. w \in Vaults /\ c \in Commitments
          /\ tx \in {CommitTransaction(w, c), RevealTransaction(w, c)}
          /\ Send(r, tx) /\ Held(w, c)'
      BY <2>1, <2>2, <2>4
    <3>. HIDE DEF w, c, tx
    <3>. QED
      BY <2>3, <2>4, <3>1, NewRun
  <2>6. SavesAgree'
    <3>1. \A q \in Runs : saves'[q] \subseteq saves[q]
      BY <1>0, <2>3
    <3>2. \A q \in Runs : saves'[q] = {} \/ runs'[q] = {}
      <4>1. runs' = [runs EXCEPT ![r] = {[tx |-> CommitTransaction(save.vault, row.commitment),
                                         accepted |-> FALSE]}]
        BY <2>1 DEF Send
      <4>. QED
        BY <1>0, <2>3, <4>1 DEF IInv, TypeOK
    <3>. QED
      BY <2>3, <3>1, <3>2, SavesRest
  <2>7. TypeOK'
    BY <1>0, <2>3, <2>5 DEF IInv, TypeOK
  <2>. QED
    BY <2>5, <2>6, <2>7 DEF IInv
<1>. QED
  BY <1>1, <1>2, <1>3, <1>4

LEMMA RunStepKeeps ==
  ASSUME IInv, NEW r \in Runs, RunStep(r)
  PROVE  IInv'
<1>0. /\ saves \in [Runs -> AtMostOne(Save)]
      /\ \A q \in Runs : saves[q] = {} \/ runs[q] = {}
  BY DEF IInv, TypeOK, SavesAgree
<1>1. ASSUME \/ \E w \in Vaults, c \in Commitments, broadcast \in BOOLEAN :
                   ReadRow(r, w, c, broadcast)
             \/ CreateVerdictCommitment(r) \/ SaveBeforeBroadcast(r) \/ CommitValidatorVerdict(r)
      PROVE  IInv'
  BY <1>1, SaveKeeps
<1>2. ASSUME NEW w \in Vaults, RevealValidatorVerdict(r, w) \/ RetryVerdictReveal(r, w)
      PROVE  IInv'
  <2>1. PICK row \in rows[w] : Send(r, RevealTransaction(w, row.commitment))
    BY <1>2 DEF RevealValidatorVerdict, RetryVerdictReveal
  <2>2. row.commitment \in Commitments
    <3>1. row \in Row
      BY <2>1, AtMostOneMembers DEF IInv, TypeOK
    <3>. QED
      BY <3>1 DEF Row
  <2>3. saves[r] = {} /\ UNCHANGED <<rows, backup, saves, mempool, chain, phase, disputed, faults>>
    BY <1>2 DEF RevealValidatorVerdict, RetryVerdictReveal, Idle
  <2>4. \A v \in Vaults : \A d : Held(v, d) => Held(v, d)'
    BY <2>3 DEF Held
  <2>5. Held(w, row.commitment)'
    BY <2>3 DEF Held
  <2>6. AllHeld' /\ runs' \in [Runs -> AtMostOne(Waiting)]
    BY <2>1, <2>2, <2>3, <2>4, <2>5, NewRun
  <2>7. TypeOK'
    BY <2>3, <2>6 DEF IInv, TypeOK
  <2>8. SavesAgree'
    <3>1. \A q \in Runs : saves'[q] = {} \/ runs'[q] = {}
      BY <1>0, <2>1, <2>3 DEF Send, IInv, TypeOK
    <3>. QED
      BY <2>3, <3>1, SavesRest
  <2>. QED
    BY <2>6, <2>7, <2>8 DEF IInv
<1>3. ASSUME MarkSubmitted(r)
      PROVE  IInv'
  <2>1. PICK run \in runs[r] :
          rows' = [rows EXCEPT ![run.tx.vault] = Marked(run.tx.vault, MarkOf(run.tx.kind))]
    BY <1>3 DEF MarkSubmitted
  <2>2. run.tx.vault \in Vaults /\ MarkOf(run.tx.kind) \in Statuses
    <3>1. run \in Waiting
      BY <2>1, AtMostOneMembers DEF IInv, TypeOK
    <3>. QED
      BY <3>1 DEF Waiting, Transaction, MarkOf, Statuses
  <2>. DEFINE w == run.tx.vault
              new == Marked(w, MarkOf(run.tx.kind))
  <2>3. /\ new \in AtMostOne(Row)
        /\ \A c : (\E row \in rows[w] : row.commitment = c) => \E row \in new : row.commitment = c
        /\ \A c : Accepts(w, c) => \A row \in new : row.commitment = c
    <3>1. rows[w] \in AtMostOne(Row)
      BY <2>2 DEF IInv, TypeOK
    <3>. QED
      BY <2>2, <3>1, MarkedTypes
  <2>4. /\ rows' = [rows EXCEPT ![w] = new] /\ w \in Vaults
        /\ UNCHANGED <<backup, saves, mempool, chain, phase, disputed, faults>>
    BY <1>3, <2>1, <2>2 DEF MarkSubmitted
  <2>. HIDE DEF w, new
  <2>5. /\ rows' \in [Vaults -> AtMostOne(Row)]
        /\ \A v \in Vaults : \A d : Held(v, d) => Held(v, d)'
    BY <2>3, <2>4, RowChange
  <2>6. runs' \in [Runs -> AtMostOne(Waiting)] /\ \A q \in Runs : runs'[q] \subseteq runs[q]
    BY <1>3 DEF MarkSubmitted, IInv, TypeOK, AtMostOne
  <2>7. AllHeld'
    BY <2>4, <2>5, <2>6, NothingNew
  <2>8. SavesAgree'
    <3>1. ASSUME w \notin disputed', NEW q \in Runs, NEW save \in saves'[q],
                 save.vault = w, ~save.stored
          PROVE  \A row \in new : row.commitment = save.commitment
      BY <2>3, <2>4, <3>1 DEF IInv, SavesAgree
    <3>2. \A q \in Runs : saves'[q] = {} \/ runs'[q] = {}
      BY <1>0, <2>4, <2>6
    <3>. QED
      BY <2>4, <3>1, <3>2, SavesStay
  <2>9. TypeOK'
    BY <2>4, <2>5, <2>6 DEF IInv, TypeOK
  <2>. QED
    BY <2>7, <2>8, <2>9 DEF IInv
<1>4. ASSUME Accept(r)
      PROVE  IInv'
  <2>1. PICK run \in runs[r] :
          /\ mempool' = mempool \cup {run.tx}
          /\ runs' = [runs EXCEPT ![r] = {[run EXCEPT !.accepted = TRUE]}]
    BY <1>4 DEF Accept
  <2>2. run \in Waiting
    BY <2>1, AtMostOneMembers DEF IInv, TypeOK
  <2>3. /\ [run EXCEPT !.accepted = TRUE] \in Waiting
        /\ [run EXCEPT !.accepted = TRUE].tx = run.tx
        /\ run.tx \in Transaction
    BY <2>2 DEF Waiting
  <2>4. /\ runs' \in [Runs -> AtMostOne(Waiting)]
        /\ \A q \in Runs : \A new \in runs'[q] : \E old \in runs[q] : new.tx = old.tx
    BY <2>1, <2>3, OneIsAtMostOne DEF IInv, TypeOK
  <2>5. \A v \in Vaults : \A d : Held(v, d) => Held(v, d)'
    BY <1>4 DEF Held, Accept
  <2>6. AllHeld'
    BY <1>4, <2>1, <2>4, <2>5, NothingNew DEF Accept
  <2>7. TypeOK'
    BY <1>4, <2>1, <2>3, <2>4 DEF Accept, IInv, TypeOK
  <2>8. SavesAgree'
    <3>1. saves' = saves /\ \A q \in Runs : runs[q] = {} => runs'[q] = {}
      BY <1>4, <2>1 DEF Accept, IInv, TypeOK
    <3>. QED
      BY <1>0, <1>4, <3>1, SavesRest DEF Accept
  <2>. QED
    BY <2>6, <2>7, <2>8 DEF IInv
<1>5. ASSUME Refuse(r) \/ Crash(r)
      PROVE  IInv'
  <2>1. /\ runs' = [runs EXCEPT ![r] = {}]
        /\ UNCHANGED <<rows, backup, mempool, chain, phase, disputed>>
    BY <1>5 DEF Refuse, Crash
  <2>2. runs' \in [Runs -> AtMostOne(Waiting)] /\ \A q \in Runs : runs'[q] \subseteq runs[q]
    BY <2>1 DEF IInv, TypeOK, AtMostOne
  <2>3. \A v \in Vaults : \A d : Held(v, d) => Held(v, d)'
    BY <2>1 DEF Held
  <2>4. AllHeld'
    BY <2>1, <2>2, <2>3, NothingNew
  <2>5. faults' \in 0 .. MaxFaults
    BY <1>5, FaultsAssumption DEF Refuse, Crash, Fault, IInv, TypeOK
  <2>6. saves' \in [Runs -> AtMostOne(Save)] /\ \A q \in Runs : saves'[q] \subseteq saves[q]
    BY <1>0, <1>5 DEF Refuse, Crash, AtMostOne
  <2>7. TypeOK'
    BY <2>1, <2>2, <2>5, <2>6 DEF IInv, TypeOK
  <2>8. SavesAgree'
    <3>1. \A q \in Runs : saves'[q] = {} \/ runs'[q] = {}
      BY <1>0, <2>2, <2>6
    <3>. QED
      BY <2>1, <2>6, <3>1, SavesRest
  <2>. QED
    BY <2>4, <2>7, <2>8 DEF IInv
<1>. QED
  BY <1>1, <1>2, <1>3, <1>4, <1>5 DEF RunStep

LEMMA ChainStepKeeps ==
  ASSUME IInv, (\E tx \in mempool : Mine(tx) \/ Lose(tx)) \/ Tick
  PROVE  IInv'
<1>0. /\ UNCHANGED <<rows, backup, saves, runs, disputed>>
      /\ \A v \in Vaults : \A d : Held(v, d) => Held(v, d)'
      /\ SavesAgree'
  BY DEF Mine, Lose, Tick, Held, IInv, SavesAgree, Accepts
<1>1. ASSUME NEW tx \in mempool, Mine(tx)
      PROVE  IInv'
  <2>1. tx \in Transaction
    BY DEF IInv, TypeOK
  <2>2. chain' \in AtMostOne(ChainRecord) /\
        \A record \in chain' :
          \/ \E old \in chain : record.vault = old.vault /\ record.commitment = old.commitment
          \/ record.vault = tx.vault /\ record.commitment = tx.commitment
    <3>1. CASE chain' = chain
      BY <3>1 DEF IInv, TypeOK
    <3>2. CASE chain' = {[commitment |-> tx.commitment, vault |-> tx.vault, revealed |-> FALSE]}
      <4>. DEFINE record == [commitment |-> tx.commitment, vault |-> tx.vault, revealed |-> FALSE]
      <4>1. /\ record \in ChainRecord
            /\ record.vault = tx.vault /\ record.commitment = tx.commitment
        BY <2>1 DEF Transaction, ChainRecord
      <4>2. chain' = {record}
        BY <3>2
      <4>. HIDE DEF record
      <4>. QED
        BY <4>1, <4>2, OneIsAtMostOne
    <3>3. CASE chain' = {[record EXCEPT !.revealed = TRUE] : record \in chain}
      <4>1. CASE chain = {}
        BY <3>3, <4>1 DEF AtMostOne
      <4>2. CASE \E record \in ChainRecord : chain = {record}
        <5>1. PICK record \in ChainRecord : chain = {record}
          BY <4>2
        <5>2. /\ [record EXCEPT !.revealed = TRUE] \in ChainRecord
              /\ [record EXCEPT !.revealed = TRUE].vault = record.vault
              /\ [record EXCEPT !.revealed = TRUE].commitment = record.commitment
          BY DEF ChainRecord
        <5>. QED
          BY <3>3, <5>1, <5>2, OneIsAtMostOne
      <4>. QED
        BY <4>1, <4>2 DEF IInv, TypeOK, AtMostOne
    <3>. QED
      BY <1>1, <3>1, <3>2, <3>3 DEF Mine
  <2>3. AllHeld'
    BY <1>0, <1>1, <2>2, NothingNew DEF Mine
  <2>4. TypeOK'
    BY <1>0, <1>1, <2>2 DEF Mine, IInv, TypeOK
  <2>. QED
    BY <1>0, <2>3, <2>4 DEF IInv
<1>2. ASSUME NEW tx \in mempool, Lose(tx)
      PROVE  IInv'
  <2>1. AllHeld'
    BY <1>0, <1>2, NothingNew DEF Lose
  <2>2. TypeOK'
    BY <1>0, <1>2, FaultsAssumption DEF Lose, Fault, IInv, TypeOK
  <2>. QED
    BY <1>0, <2>1, <2>2 DEF IInv
<1>3. ASSUME Tick
      PROVE  IInv'
  <2>1. AllHeld'
    BY <1>0, <1>3, NothingNew DEF Tick
  <2>2. TypeOK'
    BY <1>0, <1>3 DEF Tick, IInv, TypeOK
  <2>. QED
    BY <1>0, <2>1, <2>2 DEF IInv
<1>. QED
  BY <1>1, <1>2, <1>3

LEMMA StepHolds == IInv /\ [Next]_vars => IInv'
<1>. SUFFICES ASSUME IInv, [Next]_vars PROVE IInv'
  OBVIOUS
<1>1. CASE UNCHANGED vars
  BY <1>1 DEF vars, IInv, TypeOK, AllHeld, Held, SavesAgree, Accepts
<1>2. CASE Next
  BY <1>2, VaultStepKeeps, RunStepKeeps, ChainStepKeeps DEF Next
<1>. QED
  BY <1>1, <1>2

LEMMA HeldIsRevealable == IInv => SentIsRevealable
  BY DEF IInv, AllHeld, Held, SentIsRevealable, Sent

\* Every vault has at most one row per challenge and validator, every process at
\* most one call, and the rest its type.
THEOREM VaultTypes == Spec => []TypeOK
<1>1. IInv => TypeOK
  BY DEF IInv
<1>. QED
  BY <1>1, InitHolds, StepHolds, PTL DEF Spec

\* Whatever was sent from a vault can be revealed from it, whatever processes
\* interleave or die and whatever the node loses, unless two commitments have laid claim to its row.
THEOREM SentStaysRevealable == Spec => []SentIsRevealable
  BY InitHolds, StepHolds, HeldIsRevealable, PTL DEF Spec

-----------------------------------------------------------------------------
(* Statuses.  A row of a vault or an export that says revealed was written *)
(* by a command whose validator had seen the reveal, or is a copy of such  *)
(* a row; and the contract never forgets a reveal.                         *)

RevealedInChain == \E record \in chain : record.revealed

Claims(row) == row.status = "revealed"

\* Marking after a transaction was sent never says revealed.
LEMMA SubmittedIsNotRevealed ==
  ASSUME NEW w \in Vaults, NEW kind, NEW row \in Marked(w, MarkOf(kind)), rows[w] \subseteq Row
  PROVE  ~Claims(row)
<1>1. PICK old \in rows[w] : row = [old EXCEPT !.status = MarkOf(kind)]
  BY DEF Marked
<1>2. row.status = MarkOf(kind)
  BY <1>1 DEF Row
<1>. QED
  BY <1>2 DEF MarkOf, Claims

\* What the contract knows to be revealed stays revealed: a commitment is taken only
\* where there is none.
LEMMA RevealsStay ==
  ASSUME IInv, Next, RevealedInChain
  PROVE  RevealedInChain'
<1>1. CASE chain' = chain
  BY <1>1 DEF RevealedInChain
<1>2. ASSUME NEW tx \in mempool, Mine(tx)
      PROVE  RevealedInChain'
  <2>1. ~CommitValid
    BY DEF RevealedInChain, CommitValid
  <2>2. CASE ~Valid(tx)
    BY <1>1, <1>2, <2>2 DEF Mine
  <2>3. CASE Valid(tx)
    <3>1. tx.kind # "commit"
      BY <2>1, <2>3 DEF Valid
    <3>2. chain' = {[record EXCEPT !.revealed = TRUE] : record \in chain}
      BY <1>2, <2>3, <3>1 DEF Mine
    <3>3. PICK record \in chain : record.revealed
      BY DEF RevealedInChain
    <3>4. [record EXCEPT !.revealed = TRUE].revealed
      BY <3>3 DEF IInv, TypeOK, AtMostOne, ChainRecord
    <3>. QED
      BY <3>2, <3>3, <3>4 DEF RevealedInChain
  <2>. QED
    BY <2>2, <2>3
<1>. QED
  BY <1>1, <1>2 DEF Next, VaultStep, RunStep, RetryConfirms, ExportVerdictCommitment,
     ImportVerdictCommitment, ReadRow, CreateVerdictCommitment, SaveBeforeBroadcast,
     CommitValidatorVerdict,
     RevealValidatorVerdict, RetryVerdictReveal, MarkSubmitted, Accept, Refuse, Crash, Lose, Tick

\* A step leaves every row and the export as they were, or copies one to another place,
\* or writes one that claims nothing, or finds the verdict revealed.
LEMMA ClaimsAreCopied ==
  ASSUME IInv, Next,
         NEW row \in backup' \cup UNION {rows'[w] : w \in Vaults}, Claims(row)
  PROVE  \/ row \in backup \cup UNION {rows[w] : w \in Vaults}
         \/ RevealedInChain
<1>1. rows \in [Vaults -> AtMostOne(Row)] /\ \A w \in Vaults : rows[w] \subseteq Row
  BY DEF IInv, TypeOK, AtMostOne
<1>2. CASE UNCHANGED <<rows, backup>>
  BY <1>2
<1>3. ASSUME NEW w \in Vaults, VaultStep(w)
      PROVE  \/ row \in backup \cup UNION {rows[v] : v \in Vaults}
             \/ RevealedInChain
  <2>2. CASE RetryConfirms(w)
    BY <2>2 DEF RetryConfirms, RevealedInChain
  <2>3. CASE ExportVerdictCommitment(w)
    BY <2>3 DEF ExportVerdictCommitment
  <2>4. CASE ImportVerdictCommitment(w)
    BY <1>1, <2>4 DEF ImportVerdictCommitment
  <2>. QED
    BY <1>3, <2>2, <2>3, <2>4 DEF VaultStep
<1>4. ASSUME NEW r \in Runs, RunStep(r)
      PROVE  row \in backup \cup UNION {rows[v] : v \in Vaults}
  <2>1. ASSUME CreateVerdictCommitment(r) \/ SaveBeforeBroadcast(r)
        PROVE  row \in backup \cup UNION {rows[v] : v \in Vaults}
    <3>1. PICK save \in saves[r] : InsertRow(save)
      BY <2>1 DEF CreateVerdictCommitment, SaveBeforeBroadcast
    <3>2. /\ rows' = [rows EXCEPT ![save.vault] = {PendingRow(save.commitment)}]
          /\ backup' = backup
      BY <2>1, <3>1 DEF CreateVerdictCommitment, SaveBeforeBroadcast, InsertRow
    <3>3. ~Claims(PendingRow(save.commitment))
      BY DEF Claims, PendingRow
    <3>. QED
      BY <1>1, <3>2, <3>3
  <2>2. CASE MarkSubmitted(r)
    <3>1. PICK run \in runs[r] :
            rows' = [rows EXCEPT ![run.tx.vault] = Marked(run.tx.vault, MarkOf(run.tx.kind))]
      BY <2>2 DEF MarkSubmitted
    <3>2. run.tx.vault \in Vaults
      <4>1. run \in Waiting
        BY AtMostOneMembers DEF IInv, TypeOK
      <4>. QED
        BY <4>1 DEF Waiting, Transaction
    <3>3. ~ (row \in Marked(run.tx.vault, MarkOf(run.tx.kind)))
      BY <1>1, <3>2, SubmittedIsNotRevealed
    <3>. QED
      BY <1>1, <2>2, <3>1, <3>2, <3>3 DEF MarkSubmitted
  <2>. QED
    BY <1>2, <1>4, <2>1, <2>2 DEF RunStep, ReadRow, CommitValidatorVerdict,
        RevealValidatorVerdict, RetryVerdictReveal, Accept,
       Refuse, Crash
<1>. QED
  BY <1>2, <1>3, <1>4 DEF Next, Mine, Lose, Tick

\* No row and no export says revealed before the contract does.
THEOREM RevealedIsOnChain == Spec => []RevealedOnChain
<1>1. Init => RevealedOnChain
  BY DEF Init, RevealedOnChain, AtMostOne, PendingRow
<1>2. IInv /\ RevealedOnChain /\ [Next]_vars => RevealedOnChain'
  <2>. SUFFICES ASSUME IInv, RevealedOnChain, [Next]_vars PROVE RevealedOnChain'
    OBVIOUS
  <2>1. CASE UNCHANGED vars
    BY <2>1 DEF vars, RevealedOnChain
  <2>2. CASE Next
    <3>. SUFFICES ASSUME NEW row \in backup' \cup UNION {rows'[w] : w \in Vaults}, Claims(row)
                  PROVE  RevealedInChain'
      BY DEF RevealedOnChain, RevealedInChain, Claims
    <3>1. RevealedInChain
      BY <2>2, ClaimsAreCopied DEF RevealedOnChain, RevealedInChain, Claims
    <3>. QED
      BY <2>2, <3>1, RevealsStay
  <2>. QED
    BY <2>1, <2>2
<1>. QED
  BY <1>1, <1>2, InitHolds, StepHolds, PTL DEF Spec

\* What a reveal of the commitment in the contract needs, besides time and an idle
\* process: its vault still has a row to reveal, and the contract takes what that
\* row reveals, unless the vault is disputed.
RevealStaysPossible ==
  \A record \in chain :
    phase = "reveal" /\ ~record.revealed /\ record.vault \notin disputed =>
      \E row \in rows[record.vault] :
        Revealable(row) /\ Valid(RevealTransaction(record.vault, row.commitment))

\* What CommitmentsOpen rests on: whatever crashed or was lost, there is never a
\* commitment in the contract whose reveal the vault or the contract would refuse
\* while reveals are open.
THEOREM RevealIsNeverStuck == Spec => []RevealStaysPossible
<1>1. IInv => RevealStaysPossible
  <2>. SUFFICES ASSUME IInv, NEW record \in chain, phase = "reveal", ~record.revealed,
                       record.vault \notin disputed
                PROVE  \E row \in rows[record.vault] :
                         Revealable(row) /\ Valid(RevealTransaction(record.vault, row.commitment))
    BY DEF RevealStaysPossible
  <2>1. record \in ChainRecord
    BY AtMostOneMembers DEF IInv, TypeOK
  <2>2. record.vault \in Vaults
    BY <2>1 DEF ChainRecord
  <2>3. PICK row \in rows[record.vault] : row.commitment = record.commitment
    BY DEF IInv, AllHeld, Held
  <2>4. row \in Row
    BY <2>2, AtMostOneMembers DEF IInv, TypeOK
  <2>5. Valid(RevealTransaction(record.vault, row.commitment))
    BY <2>3 DEF Valid, RevealTransaction, RevealValid
  <2>. QED
    BY <2>4, <2>5 DEF Revealable
<1>. QED
  BY <1>1, InitHolds, StepHolds, PTL DEF Spec

-----------------------------------------------------------------------------
(* What is committed is revealed.  The argument for a vault w and the      *)
(* commitment c the contract has from it: once reveals are open the row    *)
(* binds c, so a reveal can be asked for whenever a process is idle, and   *)
(* every process is idle again and again; what was asked for is accepted,  *)
(* as the contract takes it; what was accepted is mined.                   *)

Recorded(w, c) == \E record \in chain : record.vault = w /\ record.commitment = c

Done(w) == RevealedInChain \/ phase = "over" \/ w \in disputed

Awaited(w, c) == Recorded(w, c) /\ phase = "reveal" /\ ~Done(w)

Asked(r, w, c) == \E run \in runs[r] : run.tx = RevealTransaction(w, c) /\ ~run.accepted

Pooled(w, c) == RevealTransaction(w, c) \in mempool

Unanswered(r) == \E run \in runs[r] : ~run.accepted
Answered(r)   == \E run \in runs[r] : run.accepted

\* The contract never forgets a commitment.
LEMMA RecordStays ==
  ASSUME IInv, [Next]_vars, NEW w, NEW c, Recorded(w, c)
  PROVE  Recorded(w, c)'
<1>1. CASE chain' = chain
  BY <1>1 DEF Recorded
<1>2. ASSUME NEW tx \in mempool, Mine(tx)
      PROVE  Recorded(w, c)'
  <2>1. CASE ~Valid(tx)
    BY <1>1, <1>2, <2>1 DEF Mine
  <2>2. CASE Valid(tx)
    <3>1. tx.kind # "commit"
      BY <2>2 DEF Valid, CommitValid, Recorded
    <3>2. chain' = {[record EXCEPT !.revealed = TRUE] : record \in chain}
      BY <1>2, <2>2, <3>1 DEF Mine
    <3>3. PICK record \in chain : record.vault = w /\ record.commitment = c
      BY DEF Recorded
    <3>4. record \in ChainRecord
      BY AtMostOneMembers DEF IInv, TypeOK
    <3>5. /\ [record EXCEPT !.revealed = TRUE].vault = w
          /\ [record EXCEPT !.revealed = TRUE].commitment = c
      BY <3>3, <3>4 DEF ChainRecord
    <3>. QED
      BY <3>2, <3>3, <3>5 DEF Recorded
  <2>. QED
    BY <2>1, <2>2
<1>. QED
  BY <1>1, <1>2 DEF Next, VaultStep, RunStep, RetryConfirms, ExportVerdictCommitment,
     ImportVerdictCommitment, ReadRow, CreateVerdictCommitment, SaveBeforeBroadcast,
     CommitValidatorVerdict, vars,
     RevealValidatorVerdict, RetryVerdictReveal, MarkSubmitted, Accept, Refuse, Crash, Lose, Tick

\* Reveals stay open until they are over.
LEMMA PhaseMoves ==
  ASSUME [Next]_vars
  PROVE  \/ phase' = phase
         \/ phase = "commit" /\ phase' = "reveal"
         \/ phase' = "over"
BY DEF Next, VaultStep, RunStep, RetryConfirms, ExportVerdictCommitment,
   ImportVerdictCommitment, ReadRow, CreateVerdictCommitment, SaveBeforeBroadcast,
   CommitValidatorVerdict, vars,
   RevealValidatorVerdict, RetryVerdictReveal, MarkSubmitted, Accept, Refuse, Crash, Lose, Tick,
   Mine

LEMMA AwaitedStays ==
  ASSUME IInv, [Next]_vars, NEW w, NEW c, Awaited(w, c)
  PROVE  Awaited(w, c)' \/ Done(w)'
BY RecordStays, PhaseMoves DEF Awaited, Done

\* The row of an awaited commitment binds it, and the contract takes its reveal.
LEMMA AwaitedIsHeld ==
  ASSUME IInv, NEW w \in Vaults, NEW c, Awaited(w, c)
  PROVE  /\ rows[w] # {} /\ \A row \in rows[w] : row.commitment = c
         /\ Valid(RevealTransaction(w, c))
<1>1. \E row \in rows[w] : row.commitment = c
  BY DEF Awaited, Done, Recorded, IInv, AllHeld, Held
<1>2. \A row \in rows[w] : row.commitment = c
  BY <1>1 DEF IInv, TypeOK, AtMostOne
<1>3. Valid(RevealTransaction(w, c))
  BY DEF Awaited, Done, Recorded, RevealedInChain, Valid, RevealTransaction, RevealValid
<1>. QED
  BY <1>1, <1>2, <1>3

\* The command asks for it.
LEMMA RevealAsks ==
  ASSUME IInv, NEW w \in Vaults, NEW c, Awaited(w, c),
         NEW r \in Runs, RevealValidatorVerdict(r, w)
  PROVE  Asked(r, w, c)'
<1>1. Send(r, RevealTransaction(w, c))
  BY AwaitedIsHeld DEF RevealValidatorVerdict
<1>. QED
  BY <1>1 DEF Send, Asked, IInv, TypeOK, RevealTransaction

\* Where a process is that a command runs in.
Storing(r) == \E save \in saves[r] : ~save.stored
Sending(r) == \E save \in saves[r] : save.stored

\* A step that a process goes on with takes it further.
LEMMA GoingOnFrees ==
  ASSUME IInv, NEW r \in Runs, Goes(r)
  PROVE  /\ Storing(r) => Sending(r)' \/ Idle(r)'
         /\ Sending(r) => Unanswered(r)'
         /\ Unanswered(r) => Answered(r)' \/ Idle(r)'
         /\ Answered(r) => Idle(r)'
<1>0. /\ runs \in [Runs -> AtMostOne(Waiting)] /\ saves \in [Runs -> AtMostOne(Save)]
      /\ saves[r] = {} \/ runs[r] = {}
  BY DEF IInv, TypeOK, SavesAgree
<1>1. CASE Refuse(r) \/ MarkSubmitted(r)
  <2>1. runs[r] # {} /\ runs'[r] = {} /\ saves' = saves
    BY <1>0, <1>1 DEF Refuse, MarkSubmitted
  <2>2. Idle(r)' /\ ~Storing(r) /\ ~Sending(r)
    BY <1>0, <2>1 DEF Idle, Storing, Sending
  <2>. QED
    BY <2>2
<1>2. CASE Accept(r)
  <2>1. PICK run \in runs[r] :
            ~run.accepted /\ runs' = [runs EXCEPT ![r] = {[run EXCEPT !.accepted = TRUE]}]
    BY <1>2 DEF Accept
  <2>2. run \in Waiting /\ runs[r] = {run} /\ saves[r] = {}
    BY <1>0, <2>1 DEF AtMostOne
  <2>3. Answered(r)' /\ ~Answered(r) /\ ~Storing(r) /\ ~Sending(r)
    BY <1>0, <2>1, <2>2 DEF Answered, Waiting, Storing, Sending
  <2>. QED
    BY <2>3
<1>3. CASE CreateVerdictCommitment(r) \/ SaveBeforeBroadcast(r) \/ CommitValidatorVerdict(r)
  <2>1. saves[r] # {} /\ runs[r] = {} /\ ~Unanswered(r) /\ ~Answered(r)
    BY <1>0, <1>3 DEF CreateVerdictCommitment, SaveBeforeBroadcast, CommitValidatorVerdict,
       Unanswered, Answered
  <2>2. PICK save \in Save : saves[r] = {save}
    BY <1>0, <2>1 DEF AtMostOne
  <2>3. CASE CreateVerdictCommitment(r)
    <3>1. saves'[r] = {} /\ runs'[r] = {} /\ ~save.stored
      BY <1>0, <2>1, <2>2, <2>3 DEF CreateVerdictCommitment, InsertRow
    <3>. QED
      BY <2>1, <2>2, <3>1 DEF Idle, Sending
  <2>4. CASE SaveBeforeBroadcast(r)
    <3>1. saves'[r] = {[save EXCEPT !.stored = TRUE]} /\ ~save.stored
      BY <1>0, <2>2, <2>4 DEF SaveBeforeBroadcast, InsertRow
    <3>. QED
      BY <2>1, <2>2, <3>1 DEF Sending, Save
  <2>5. CASE CommitValidatorVerdict(r)
    <3>1. save.stored
      BY <2>2, <2>5 DEF CommitValidatorVerdict
    <3>2. PICK tx : Send(r, tx)
      BY <2>5 DEF CommitValidatorVerdict
    <3>3. Unanswered(r)'
      BY <1>0, <3>2 DEF Send, Unanswered
    <3>. QED
      BY <2>1, <2>2, <3>1, <3>3 DEF Storing
  <2>. QED
    BY <1>3, <2>3, <2>4, <2>5
<1>. QED
  BY <1>1, <1>2, <1>3 DEF Goes

\* What a step can do to a process: start it when it is idle, take it further, or
\* crash it.
LEMMA RunEffect ==
  ASSUME IInv, [Next]_vars, NEW r \in Runs
  PROVE  \/ runs'[r] = runs[r] /\ saves'[r] = saves[r]
         \/ Idle(r)
         \/ Goes(r)
         \/ faults' # faults
<1>0. runs \in [Runs -> AtMostOne(Waiting)] /\ saves \in [Runs -> AtMostOne(Save)]
  BY DEF IInv, TypeOK
<1>1. CASE runs' = runs /\ saves' = saves
  BY <1>1
<1>2. ASSUME NEW q \in Runs, RunStep(q), q # r
      PROVE  runs'[r] = runs[r] /\ saves'[r] = saves[r]
  BY <1>0, <1>2 DEF RunStep, ReadRow, CreateVerdictCommitment, SaveBeforeBroadcast,
     CommitValidatorVerdict, RevealValidatorVerdict, RetryVerdictReveal, MarkSubmitted,
     Accept, Refuse, Crash, Send
<1>3. CASE RunStep(r)
  <2>1. CASE Crash(r)
    BY <2>1 DEF Crash, Fault, IInv, TypeOK
  <2>. QED
    BY <1>3, <2>1 DEF RunStep, Goes, ReadRow, RevealValidatorVerdict, RetryVerdictReveal
<1>. QED
  BY <1>1, <1>2, <1>3 DEF Next, VaultStep, RetryConfirms,
     ExportVerdictCommitment, ImportVerdictCommitment, vars, Mine, Lose, Tick

\* A process is yet to store its row, has stored it, waits for the node, is answered,
\* or is idle, and moves on in that order.
LEMMA AnswersCome ==
  ASSUME IInv, [Next]_vars, NEW r \in Runs
  PROVE  /\ Storing(r) \/ Sending(r) \/ Unanswered(r) \/ Answered(r) \/ Idle(r)
         /\ Storing(r) /\ faults' = faults => Storing(r)' \/ Sending(r)' \/ Idle(r)'
         /\ Sending(r) /\ faults' = faults => Sending(r)' \/ Unanswered(r)'
         /\ Unanswered(r) /\ faults' = faults => Unanswered(r)' \/ Answered(r)' \/ Idle(r)'
         /\ Answered(r) /\ faults' = faults => Answered(r)' \/ Idle(r)'
<1>1. Storing(r) \/ Sending(r) \/ Unanswered(r) \/ Answered(r) \/ Idle(r)
  BY DEF Storing, Sending, Unanswered, Answered, Idle, IInv, TypeOK, AtMostOne
<1>2. ASSUME runs'[r] = runs[r], saves'[r] = saves[r]
      PROVE  /\ Storing(r) => Storing(r)'
             /\ Sending(r) => Sending(r)'
             /\ Unanswered(r) => Unanswered(r)'
             /\ Answered(r) => Answered(r)'
  BY <1>2 DEF Storing, Sending, Unanswered, Answered
<1>3. Idle(r) => ~Storing(r) /\ ~Sending(r) /\ ~Unanswered(r) /\ ~Answered(r)
  BY DEF Idle, Storing, Sending, Unanswered, Answered
<1>. QED
  BY <1>1, <1>2, <1>3, RunEffect, GoingOnFrees

\* A reveal that was asked for is waited for until the node has it.
LEMMA AskedStays ==
  ASSUME IInv, [Next]_vars, faults' = faults,
         NEW r \in Runs, NEW w \in Vaults, NEW c, Awaited(w, c), Asked(r, w, c)
  PROVE  Asked(r, w, c)' \/ Pooled(w, c)'
<1>1. PICK run \in runs[r] : run.tx = RevealTransaction(w, c) /\ ~run.accepted
  BY DEF Asked
<1>2. runs[r] = {run} /\ saves[r] = {} /\ ~Idle(r) /\ Valid(run.tx)
  BY <1>1, AwaitedIsHeld DEF IInv, TypeOK, SavesAgree, AtMostOne, Idle
<1>3. CASE runs'[r] = runs[r]
  BY <1>3 DEF Asked
<1>4. CASE Accept(r)
  BY <1>1, <1>2, <1>4 DEF Accept, Pooled
<1>5. CASE \/ CreateVerdictCommitment(r) \/ SaveBeforeBroadcast(r) \/ CommitValidatorVerdict(r)
           \/ Refuse(r) \/ MarkSubmitted(r)
  BY <1>1, <1>2, <1>5 DEF CreateVerdictCommitment, SaveBeforeBroadcast, CommitValidatorVerdict,
     Refuse, MarkSubmitted
<1>. QED
  BY <1>2, <1>3, <1>4, <1>5, RunEffect DEF Goes

LEMMA GoingOnPools ==
  ASSUME IInv, NEW r \in Runs, NEW w \in Vaults, NEW c, Awaited(w, c), Asked(r, w, c),
         Goes(r)
  PROVE  Pooled(w, c)'
<1>1. PICK run \in runs[r] : run.tx = RevealTransaction(w, c) /\ ~run.accepted
  BY DEF Asked
<1>2. runs[r] = {run} /\ saves[r] = {} /\ Valid(run.tx)
  BY <1>1, AwaitedIsHeld DEF IInv, TypeOK, SavesAgree, AtMostOne
<1>. QED
  BY <1>1, <1>2 DEF Goes, CreateVerdictCommitment, SaveBeforeBroadcast, CommitValidatorVerdict,
     Accept, Refuse, MarkSubmitted, Pooled

\* Mining an awaited reveal reveals, whichever transaction of it is mined.
LEMMA MiningReveals ==
  ASSUME IInv, NEW w \in Vaults, NEW c, Awaited(w, c), Mine(RevealTransaction(w, c))
  PROVE  Done(w)'
<1>1. Valid(RevealTransaction(w, c)) /\ RevealTransaction(w, c).kind = "reveal"
  BY AwaitedIsHeld DEF RevealTransaction
<1>2. chain' = {[record EXCEPT !.revealed = TRUE] : record \in chain}
  BY <1>1 DEF Mine
<1>3. PICK record \in chain : record.vault = w
  BY DEF Awaited, Recorded
<1>4. [record EXCEPT !.revealed = TRUE].revealed
  BY <1>3 DEF IInv, TypeOK, AtMostOne, ChainRecord
<1>. QED
  BY <1>2, <1>3, <1>4 DEF Done, RevealedInChain

LEMMA PooledStays ==
  ASSUME IInv, [Next]_vars, faults' = faults,
         NEW w \in Vaults, NEW c, Awaited(w, c), Pooled(w, c)
  PROVE  Pooled(w, c)' \/ Done(w)'
<1>1. CASE mempool \subseteq mempool'
  BY <1>1 DEF Pooled, RevealTransaction
<1>2. ASSUME NEW tx \in mempool, Mine(tx)
      PROVE  Pooled(w, c)' \/ Done(w)'
  <2>1. CASE tx = RevealTransaction(w, c)
    BY <1>2, <2>1, MiningReveals
  <2>2. CASE tx # RevealTransaction(w, c)
    BY <1>2, <2>2 DEF Mine, Pooled, RevealTransaction
  <2>. QED
    BY <2>1, <2>2
<1>3. ASSUME NEW tx \in mempool, Lose(tx)
      PROVE  FALSE
  BY <1>3 DEF Lose, Fault, IInv, TypeOK
<1>. QED
  BY <1>1, <1>2, <1>3 DEF Next, VaultStep, RunStep, RetryConfirms, ExportVerdictCommitment,
     ImportVerdictCommitment, ReadRow, CreateVerdictCommitment, SaveBeforeBroadcast,
     CommitValidatorVerdict, vars,
     RevealValidatorVerdict, RetryVerdictReveal, MarkSubmitted, Accept, Refuse, Crash, Tick

\* Faults, which the model bounds, come to an end.
FaultsEnd == <>[][faults' = faults]_vars

Steps == []IInv /\ [][Next]_vars

\* Without faults a reveal that was asked for reaches the pool.
Reaches(w, c) == <>((Awaited(w, c) /\ Pooled(w, c)) \/ Done(w))

AskedReaches(r, w, c) == Awaited(w, c) /\ Asked(r, w, c) => Reaches(w, c)

AnyAsked(w, c) == \E r \in Runs : Awaited(w, c) /\ Asked(r, w, c)

ProcessesGoOn    == \A r \in Runs : GoesOn(r)
ProcessesCanGoOn == \A r \in Runs : CanGoOn(r)

\* Whichever process asked: what always holds of each always holds of all.
LEMMA AnyAskedReaches ==
  ASSUME NEW w \in Vaults, NEW c \in Commitments
  PROVE  Steps /\ [][faults' = faults]_vars /\ ProcessesGoOn /\ []ProcessesCanGoOn
         => [](AnyAsked(w, c) => Reaches(w, c))
<1> DEFINE Hyp == Steps /\ [][faults' = faults]_vars /\ ProcessesGoOn /\ []ProcessesCanGoOn
<1>1. ASSUME NEW r \in Runs
      PROVE  Hyp => []AskedReaches(r, w, c)
  <2>1. IInv /\ [Next]_vars /\ Awaited(w, c) => Awaited(w, c)' \/ Done(w)'
    BY AwaitedStays
  <2>2. IInv /\ [Next]_vars /\ [faults' = faults]_vars /\ Awaited(w, c) /\ Asked(r, w, c) =>
          Asked(r, w, c)' \/ Pooled(w, c)'
    BY AskedStays DEF vars
  <2>3. IInv /\ <<Goes(r)>>_vars
        /\ Awaited(w, c) /\ Asked(r, w, c) => Pooled(w, c)'
    BY GoingOnPools
  <2>4. Asked(r, w, c) => ~Idle(r)
    BY DEF Asked, Idle
  <2>5. (ProcessesGoOn => GoesOn(r)) /\ (ProcessesCanGoOn => CanGoOn(r))
    BY DEF ProcessesGoOn, ProcessesCanGoOn
  <2>. QED
    BY <2>1, <2>2, <2>3, <2>4, <2>5, PTL DEF Steps, GoesOn, CanGoOn, AskedReaches, Reaches
<1>2. Hyp => \A r \in Runs : []AskedReaches(r, w, c)
  <2> HIDE DEF Hyp
  <2>. QED
    BY <1>1
<1>3. (\A r \in Runs : []AskedReaches(r, w, c)) => [](\A r \in Runs : AskedReaches(r, w, c))
  OBVIOUS
<1>4. (\A r \in Runs : AskedReaches(r, w, c)) => (AnyAsked(w, c) => Reaches(w, c))
  BY DEF AskedReaches, AnyAsked
<1>. QED
  BY <1>2, <1>3, <1>4, PTL

\* And what is in the pool is mined.
LEMMA PooledIsMined ==
  ASSUME NEW w \in Vaults, NEW c \in Commitments
  PROVE  /\ Steps /\ [][faults' = faults]_vars
         /\ IsMined(RevealTransaction(w, c)) /\ []CanBeMined(RevealTransaction(w, c))
         => (Awaited(w, c) /\ Pooled(w, c) ~> Done(w))
<1>1. IInv /\ [Next]_vars /\ Awaited(w, c) => Awaited(w, c)' \/ Done(w)'
  BY AwaitedStays
<1>2. IInv /\ [Next]_vars /\ [faults' = faults]_vars /\ Awaited(w, c) /\ Pooled(w, c) =>
        Pooled(w, c)' \/ Done(w)'
  BY PooledStays DEF vars
<1>3. IInv /\ <<Mine(RevealTransaction(w, c))>>_vars /\ Awaited(w, c) => Done(w)'
  BY MiningReveals
<1>4. Pooled(w, c) <=> RevealTransaction(w, c) \in mempool
  BY DEF Pooled
<1>. QED
  BY <1>1, <1>2, <1>3, <1>4, PTL DEF Steps, IsMined, CanBeMined

\* Without faults, then, what the contract has is revealed.
LEMMA CalmReveals ==
  ASSUME NEW w \in Vaults, NEW c \in Commitments, NEW p \in Runs
  PROVE  /\ Steps /\ [][faults' = faults]_vars
         /\ CommitsEnd /\ []CommitsCanEnd /\ Reveals(w) /\ []CanReveal(w)
         /\ IsMined(RevealTransaction(w, c)) /\ []CanBeMined(RevealTransaction(w, c))
         /\ []<>Idle(p)
         /\ [](AnyAsked(w, c) => Reaches(w, c))
         => (Recorded(w, c) ~> Done(w))
<1>1. IInv /\ [Next]_vars /\ Recorded(w, c) => Recorded(w, c)'
  BY RecordStays
<1>2. Steps /\ [][faults' = faults]_vars
      /\ IsMined(RevealTransaction(w, c)) /\ []CanBeMined(RevealTransaction(w, c))
      => (Awaited(w, c) /\ Pooled(w, c) ~> Done(w))
  BY PooledIsMined
<1>3. <<phase = "commit" /\ Tick>>_vars => ~(phase = "commit")'
  BY DEF Tick
<1>4. IInv /\ Recorded(w, c) => phase = "commit" \/ Awaited(w, c) \/ Done(w)
  BY DEF IInv, TypeOK, Awaited, Done
<1>5. IInv /\ [Next]_vars /\ Awaited(w, c) => Awaited(w, c)' \/ Done(w)'
  BY AwaitedStays
<1>6. IInv /\ Awaited(w, c) => rows[w] # {}
  BY AwaitedIsHeld
<1>7. Idle(p) => \E r \in Runs : Idle(r)
  OBVIOUS
<1>8. IInv /\ [Next]_vars /\ Awaited(w, c) /\ <<\E r \in Runs : RevealValidatorVerdict(r, w)>>_vars
      => AnyAsked(w, c)' \/ Done(w)'
  BY RevealAsks, AwaitedStays DEF AnyAsked
<1>9. Steps /\ CommitsEnd /\ []CommitsCanEnd => (Recorded(w, c) ~> Awaited(w, c) \/ Done(w))
  BY <1>1, <1>3, <1>4, PTL DEF Steps, CommitsEnd, CommitsCanEnd
<1>10. Steps /\ Reveals(w) /\ []CanReveal(w) /\ []<>Idle(p)
       => (Awaited(w, c) ~> AnyAsked(w, c) \/ Done(w))
  BY <1>5, <1>6, <1>7, <1>8, PTL DEF Steps, Reveals, CanReveal
<1>11. [](AnyAsked(w, c) => Reaches(w, c))
       => (AnyAsked(w, c) ~> (Awaited(w, c) /\ Pooled(w, c)) \/ Done(w))
  BY PTL DEF Reaches
<1>. QED
  BY <1>2, <1>9, <1>10, <1>11, PTL

\* Without processes there is nothing in the contract.
LEMMA NobodyCommits ==
  ASSUME Runs = {}
  PROVE  Spec => [](chain = {})
<1>1. Init => chain = {} /\ mempool = {}
  BY DEF Init
<1>2. chain = {} /\ mempool = {} /\ [Next]_vars => (chain = {} /\ mempool = {})'
  BY DEF Next, VaultStep, RetryConfirms, ExportVerdictCommitment,
     ImportVerdictCommitment, Tick, vars
<1>. QED
  BY <1>1, <1>2, PTL DEF Spec

\* Fairness is for ever.
LEMMA GoOnForEver == ProcessesGoOn => []ProcessesGoOn
<1>1. ASSUME NEW r \in Runs
      PROVE  GoesOn(r) => []GoesOn(r)
  BY PTL DEF GoesOn
<1>2. ProcessesGoOn => \A r \in Runs : []GoesOn(r)
  BY <1>1 DEF ProcessesGoOn
<1>3. (\A r \in Runs : []GoesOn(r)) => [](\A r \in Runs : GoesOn(r))
  OBVIOUS
<1>. QED
  BY <1>2, <1>3, PTL DEF ProcessesGoOn

\* So a commitment of one vault in the contract is revealed once faults have ended:
\* it is still there then.
RevealedInTime(w, c) == Recorded(w, c) => <>Done(w)

LEMMA FairlyRevealed ==
  ASSUME NEW w \in Vaults, NEW c \in Commitments
  PROVE  Spec /\ Fairness /\ []FairStepsAreEnabled /\ FaultsEnd => []RevealedInTime(w, c)
<1> DEFINE tx == RevealTransaction(w, c)
<1>1. tx \in Transaction
  BY DEF Transaction, RevealTransaction
<1>2. Spec => Steps
  BY InitHolds, StepHolds, PTL DEF Spec, Steps
<1>3. CASE Runs = {}
  <2>1. chain = {} => ~Recorded(w, c)
    BY DEF Recorded
  <2>2. Spec => [](chain = {})
    BY <1>3, NobodyCommits
  <2>. QED
    BY <2>1, <2>2, PTL DEF RevealedInTime
<1>4. ASSUME NEW p \in Runs
      PROVE  Spec /\ Fairness /\ []FairStepsAreEnabled /\ FaultsEnd => []RevealedInTime(w, c)
  <2>1. Fairness => /\ CommitsEnd /\ Reveals(w) /\ ProcessesGoOn /\ GoesOn(p)
                    /\ IsMined(tx)
    BY <1>1 DEF Fairness, ProcessesGoOn
  <2>2. FairStepsAreEnabled => /\ CommitsCanEnd /\ CanReveal(w) /\ ProcessesCanGoOn /\ CanGoOn(p)
                               /\ CanBeMined(tx)
    BY <1>1 DEF FairStepsAreEnabled, ProcessesCanGoOn
  <2>3. Steps /\ [][faults' = faults]_vars /\ GoesOn(p) /\ []CanGoOn(p) => []<>Idle(p)
    <3>1. IInv /\ [Next]_vars /\ [faults' = faults]_vars =>
            /\ Storing(p) \/ Sending(p) \/ Unanswered(p) \/ Answered(p) \/ Idle(p)
            /\ Storing(p) => Storing(p)' \/ Sending(p)' \/ Idle(p)'
            /\ Sending(p) => Sending(p)' \/ Unanswered(p)'
            /\ Unanswered(p) => Unanswered(p)' \/ Answered(p)' \/ Idle(p)'
            /\ Answered(p) => Answered(p)' \/ Idle(p)'
      BY AnswersCome DEF vars
    <3>2. IInv /\ <<Goes(p)>>_vars =>
            /\ Storing(p) => Sending(p)' \/ Idle(p)'
            /\ Sending(p) => Unanswered(p)'
            /\ Unanswered(p) => Answered(p)' \/ Idle(p)'
            /\ Answered(p) => Idle(p)'
      BY GoingOnFrees
    <3>. QED
      BY <3>1, <3>2, PTL DEF Steps, GoesOn, CanGoOn
  <2>4. Steps /\ [][faults' = faults]_vars /\ ProcessesGoOn /\ []ProcessesCanGoOn
        => [](AnyAsked(w, c) => Reaches(w, c))
    BY AnyAskedReaches
  <2>5. /\ Steps /\ [][faults' = faults]_vars
        /\ CommitsEnd /\ []CommitsCanEnd /\ Reveals(w) /\ []CanReveal(w)
        /\ IsMined(tx) /\ []CanBeMined(tx)
        /\ []<>Idle(p)
        /\ [](AnyAsked(w, c) => Reaches(w, c))
        => (Recorded(w, c) ~> Done(w))
    BY CalmReveals
  <2>6. IInv /\ [Next]_vars /\ Recorded(w, c) => Recorded(w, c)'
    BY RecordStays
  <2>. HIDE DEF tx
  <2>. QED
    BY <1>2, <2>1, <2>2, <2>3, <2>4, <2>5, <2>6, GoOnForEver, PTL
       DEF Steps, FaultsEnd, CommitsEnd, Reveals, GoesOn, IsMined, RevealedInTime
<1>. QED
  BY <1>3, <1>4

\* A commitment in the contract is revealed in the end, for any vaults, processes,
\* verdicts and salts, in fair behaviours whose faults end, unless reveals are over or
\* the vault is disputed.  That the guards of the fair steps enable them is
\* ENABLED, beyond the provers.
THEOREM CommitmentsAreRevealed ==
  Spec /\ Fairness /\ []FairStepsAreEnabled /\ FaultsEnd => CommitmentsOpen
<1> DEFINE Hyp == Spec /\ Fairness /\ []FairStepsAreEnabled /\ FaultsEnd
<1>1. ASSUME NEW w \in Vaults
      PROVE  Hyp => ((\E record \in chain : record.vault = w)
                       ~> \/ \E record \in chain : record.revealed
                          \/ phase = "over"
                          \/ w \in disputed)
  <2>1. Hyp => \A c \in Commitments : []RevealedInTime(w, c)
    <3>1. ASSUME NEW c \in Commitments
          PROVE  Hyp => []RevealedInTime(w, c)
      BY FairlyRevealed
    <3>. HIDE DEF Hyp
    <3>. QED
      BY <3>1
  <2>2. (\A c \in Commitments : []RevealedInTime(w, c))
        => [](\A c \in Commitments : RevealedInTime(w, c))
    OBVIOUS
  <2>3. (\A c \in Commitments : RevealedInTime(w, c))
        => ((\E c \in Commitments : Recorded(w, c)) => <>Done(w))
    BY DEF RevealedInTime
  <2>4. IInv /\ (\E record \in chain : record.vault = w)
        => \E c \in Commitments : Recorded(w, c)
    <3>. SUFFICES ASSUME IInv, NEW record \in chain, record.vault = w
                  PROVE  \E c \in Commitments : Recorded(w, c)
      OBVIOUS
    <3>1. record \in ChainRecord
      BY AtMostOneMembers DEF IInv, TypeOK
    <3>. QED
      BY <3>1 DEF ChainRecord, Recorded
  <2>5. Done(w) => \/ \E record \in chain : record.revealed
                   \/ phase = "over"
                   \/ w \in disputed
    BY DEF Done, RevealedInChain
  <2>6. Spec => []IInv
    BY InitHolds, StepHolds, PTL DEF Spec
  <2>. QED
    BY <2>1, <2>2, <2>3, <2>4, <2>5, <2>6, PTL
<1>2. Hyp => \A w \in Vaults : ((\E record \in chain : record.vault = w)
                       ~> \/ \E record \in chain : record.revealed
                          \/ phase = "over"
                          \/ w \in disputed)
  <2>. HIDE DEF Hyp
  <2>. QED
    BY <1>1
<1>. QED
  BY <1>2 DEF CommitmentsOpen

-----------------------------------------------------------------------------
(* Scores. *)

Hashes == {Score!ContractHash(o) : o \in Score!Openings}

\* What a commitment binds, and what the contract holds: commitments of known
\* modules, and for every reveal the commitment it opened.
ScoreInv ==
  /\ commits \in [Modules -> [Scorers -> Hashes \cup {NoHash}]]
  /\ reveals \in [Modules -> [Scorers -> Score!Openings \cup {NoOpening}]]
  /\ \A m \in Modules, s \in Scorers :
       /\ commits[m][s] # NoHash => m \in submitted
       /\ reveals[m][s] # NoOpening => commits[m][s] = Score!ContractHash(reveals[m][s])

\* The contract hashes what the specification hashes, and a hash binds its opening.
LEMMA HashBinds ==
  /\ \A o : Score!ContractHash(o) = Score!ProtocolHash(o)
  /\ \A o, p : Score!ContractHash(o) = Score!ContractHash(p) => o = p
  BY DEF Score!ContractHash, Score!ProtocolHash

LEMMA ScoreInitHolds == Score!Init => ScoreInv
  BY DEF Score!Init, ScoreInv

\* Whatever a scorer commits, its own or copied, is a hash.
LEMMA CommittableIsHash ==
  ASSUME ScoreInv, NEW s \in Scorers, NEW m \in Modules, NEW hash \in Score!Committable(s, m)
  PROVE  hash \in Hashes /\ hash # NoHash
<1>1. \A o \in Score!OwnOpenings(s, m) : o \in Score!Openings
  BY DEF Score!OwnOpenings
<1>2. CASE \E o \in Score!OwnOpenings(s, m) :
             hash = Score!ProtocolHash(o) \/ hash = Score!ContractHash(o)
  BY <1>1, <1>2, HashBinds, SlotAssumption DEF Hashes
<1>3. CASE \E n \in Modules, t \in Scorers : hash = commits[n][t] /\ hash # NoHash
  BY <1>3 DEF ScoreInv
<1>. QED
  BY <1>2, <1>3 DEF Score!Committable

LEMMA ScoreStepHolds == ScoreInv /\ [Score!Next]_scoreVars => ScoreInv'
<1>. SUFFICES ASSUME ScoreInv, [Score!Next]_scoreVars PROVE ScoreInv'
  OBVIOUS
<1>1. CASE UNCHANGED scoreVars
  BY <1>1 DEF scoreVars, ScoreInv
<1>2. ASSUME NEW m \in Modules, Score!SubmitModule(m)
      PROVE  ScoreInv'
  BY <1>2 DEF Score!SubmitModule, ScoreInv
<1>3. ASSUME NEW s \in Scorers, NEW m \in Modules, NEW hash \in Score!Committable(s, m),
             Score!CommitScore(s, m, hash)
      PROVE  ScoreInv'
  <2>1. hash \in Hashes /\ hash # NoHash
    BY <1>3, CommittableIsHash
  <2>2. /\ m \in submitted /\ commits[m][s] = NoHash
        /\ commits' = [commits EXCEPT ![m][s] = hash]
        /\ submitted' = submitted /\ reveals' = reveals
    BY <1>3 DEF Score!CommitScore, Score!RequireModule
  <2>3. reveals[m][s] = NoOpening
    <3>1. reveals[m][s] # NoOpening => NoHash \in Hashes
      BY <2>2 DEF ScoreInv, Hashes
    <3>. QED
      BY <3>1, SlotAssumption DEF Hashes
  <2>. QED
    BY <2>1, <2>2, <2>3 DEF ScoreInv
<1>4. ASSUME NEW s \in Scorers, NEW m \in Modules, NEW o \in Score!Openings,
             Score!SendReveal(s, m, o)
      PROVE  ScoreInv'
  BY <1>4 DEF Score!SendReveal, ScoreInv
<1>5. ASSUME NEW s \in Scorers, NEW m \in Modules, NEW o \in Score!Openings,
             Score!RevealScore(s, m, o)
      PROVE  ScoreInv'
  BY <1>5 DEF Score!RevealScore, Score!MayReveal, ScoreInv
<1>. QED
  BY <1>1, <1>2, <1>3, <1>4, <1>5 DEF Score!Next

\* A commitment to a score computed as the protocol says is opened by its score
\* and salt until that is done, whoever else copied it, here or for another
\* module, and opened the copy first.
THEOREM ScoresStayOpenable == OpeningsSpec => []ProtocolCommitmentsOpen
<1>1. OpeningsInit => ScoreInv
  BY ScoreInitHolds DEF OpeningsInit
<1>2. ScoreInv /\ [VerdictStep \/ ScoreStep]_openingVars => ScoreInv'
  <2>1. [VerdictStep \/ ScoreStep]_openingVars => [Score!Next]_scoreVars
    BY DEF VerdictStep, ScoreStep, openingVars
  <2>. QED
    BY <2>1, ScoreStepHolds
<1>3. ScoreInv => ProtocolCommitmentsOpen
  <2>. SUFFICES ASSUME ScoreInv, NEW s \in Scorers, NEW m \in Modules,
                       NEW o \in Score!OwnOpenings(s, m),
                       commits[m][s] = Score!ProtocolHash(o), o.score <= 100, o \in disclosed
                PROVE  reveals[m][s] = o \/ Score!MayReveal(s, m, o)
    BY DEF ProtocolCommitmentsOpen, Score!ProtocolCommitmentsOpen
  <2>1. commits[m][s] = Score!ContractHash(o)
    BY HashBinds
  <2>2. commits[m][s] # NoHash
    BY <2>1, SlotAssumption DEF Score!OwnOpenings
  <2>3. Score!RequireModule(m)
    BY <2>2 DEF ScoreInv, Score!RequireModule
  <2>4. reveals[m][s] = NoOpening \/ reveals[m][s] = o
    BY <2>1, HashBinds DEF ScoreInv
  <2>. QED
    BY <2>1, <2>3, <2>4 DEF Score!MayReveal
<1>. QED
  BY <1>1, <1>2, <1>3, PTL DEF OpeningsSpec

=============================================================================

-------------------------- MODULE TrustPolicy_proofs --------------------------
(***************************************************************************)
(* What the analysis for abuse reports and what the trust policy makes of  *)
(* it.  The moving window finds every burst of submissions; a report made  *)
(* from a log is linked with it; test credit is blocked for just the named *)
(* causes; and no gate is loosened by what becomes known later: for any    *)
(* thresholds, and for whatever order events and files come in.            *)
(***************************************************************************)
EXTENDS TrustPolicy, LogLemmas, FiniteSetTheorems

-----------------------------------------------------------------------------
(* The log and the files. *)

Event == [name : {"AgentPassportRegistered"}, args : Passports, block : 1 .. MaxBlock]
           \cup [name : {"ModuleSubmitted"}, args : Submitters, block : 1 .. MaxBlock]
           \cup [name : {"EvidenceSubmitted"}, args : Evidence, block : 1 .. MaxBlock]
           \cup [name : {"ChallengeSubmitted"}, args : Challenges, block : 1 .. MaxBlock]

EvidenceFile == [id : Evidence, operatorGroup : Groups, runner : Runners, valid : BOOLEAN]

ReputationFile == [owner : Addresses, records : RecordLists]

InputTypes ==
  /\ block \in 1 .. MaxBlock
  /\ events \in Seq(Event)
  /\ passports \in SUBSET Passports
  /\ evidence \in Seq(EvidenceFile)
  /\ reputation \in Seq(ReputationFile)

\* The log is in the order of its blocks, and a challenge's evidence is in it.
InputsInv ==
  /\ InputTypes
  /\ \A i \in DOMAIN events : events[i].block <= block
  /\ \A i, j \in DOMAIN events : i <= j => events[i].block <= events[j].block
  /\ \A c \in Args("ChallengeSubmitted") : c[1] \in Args("EvidenceSubmitted")

\* Nothing that is known is forgotten.
InputsGrow ==
  /\ DOMAIN events \subseteq DOMAIN events' /\ \A i \in DOMAIN events : events'[i] = events[i]
  /\ passports \subseteq passports'
  /\ DOMAIN evidence \subseteq DOMAIN evidence'
  /\ \A i \in DOMAIN evidence : evidence'[i] = evidence[i]
  /\ DOMAIN reputation \subseteq DOMAIN reputation'
  /\ \A i \in DOMAIN reputation : reputation'[i] = reputation[i]

LEMMA Appended ==
  ASSUME NEW S, NEW s \in Seq(S), NEW x \in S
  PROVE  /\ Append(s, x) \in Seq(S) /\ Len(s) \in Nat
         /\ DOMAIN s = 1 .. Len(s) /\ DOMAIN Append(s, x) = 1 .. Len(s) + 1
         /\ \A i \in DOMAIN s : i \in DOMAIN Append(s, x) /\ Append(s, x)[i] = s[i]
         /\ Append(s, x)[Len(s) + 1] = x
  OBVIOUS

LEMMA EventsAre ==
  ASSUME NEW e \in Event
  PROVE  /\ e.block \in 1 .. MaxBlock /\ e.block \in Nat
         /\ e.name = "AgentPassportRegistered" => e.args \in Passports
         /\ e.name = "ModuleSubmitted" => e.args \in Submitters
         /\ e.name = "EvidenceSubmitted" => e.args \in Evidence
         /\ e.name = "ChallengeSubmitted" => e.args \in Challenges
  BY ThresholdsAssumption DEF Event

LEMMA EmitKeeps ==
  ASSUME InputsInv, NEW name, NEW args, Emit(name, args),
         [name |-> name, args |-> args, block |-> block] \in Event,
         name = "ChallengeSubmitted" => args[1] \in Args("EvidenceSubmitted")
  PROVE  InputsInv' /\ InputsGrow
<1>. DEFINE e == [name |-> name, args |-> args, block |-> block]
<1>1. /\ e \in Event /\ e.name = name /\ e.args = args /\ e.block = block
      /\ events' = Append(events, e)
      /\ UNCHANGED <<block, passports, evidence, reputation>>
  BY DEF Emit
<1>. HIDE DEF e
<1>2. /\ events' \in Seq(Event) /\ Len(events) \in Nat
      /\ DOMAIN events = 1 .. Len(events) /\ DOMAIN events' = 1 .. Len(events) + 1
      /\ \A i \in DOMAIN events : i \in DOMAIN events' /\ events'[i] = events[i]
      /\ events'[Len(events) + 1] = e
  BY <1>1, Appended DEF InputsInv, InputTypes
<1>3. InputsGrow
  BY <1>1, <1>2 DEF InputsGrow
<1>4. InputTypes'
  BY <1>1, <1>2 DEF InputsInv, InputTypes
<1>5. ASSUME NEW i \in DOMAIN events'
      PROVE  i \in DOMAIN events \/ (i = Len(events) + 1 /\ events'[i] = e)
  BY <1>2
<1>6. \A i \in DOMAIN events' : events'[i].block <= block'
  <2>1. block <= block
    BY DEF InputsInv, InputTypes
  <2>. QED
    BY <1>1, <1>2, <1>5, <2>1 DEF InputsInv
<1>7. ASSUME NEW i \in DOMAIN events', NEW j \in DOMAIN events', i <= j
      PROVE  events'[i].block <= events'[j].block
  <2>1. CASE j = Len(events) + 1
    BY <1>1, <1>2, <1>6, <2>1
  <2>2. CASE j \in DOMAIN events
    <3>1. i \in DOMAIN events
      BY <1>2, <1>7, <2>2
    <3>. QED
      BY <1>2, <1>7, <2>2, <3>1 DEF InputsInv
  <2>. QED
    BY <1>5, <2>1, <2>2
<1>8. ASSUME NEW c \in Args("ChallengeSubmitted")'
      PROVE  c[1] \in Args("EvidenceSubmitted")'
  <2>1. Args("EvidenceSubmitted") \subseteq Args("EvidenceSubmitted")'
    BY <1>2 DEF Args
  <2>2. PICK i \in DOMAIN events' : events'[i].name = "ChallengeSubmitted" /\ c = events'[i].args
    BY DEF Args
  <2>3. CASE i \in DOMAIN events
    BY <1>2, <2>1, <2>2, <2>3 DEF InputsInv, Args
  <2>4. CASE events'[i] = e
    BY <1>1, <2>1, <2>2, <2>4
  <2>. QED
    BY <1>5, <2>3, <2>4
<1>. QED
  BY <1>3, <1>4, <1>6, <1>7, <1>8 DEF InputsInv

\* A step that keeps the log.
LEMMA LogKept ==
  ASSUME InputsInv, events' = events, InputTypes', block <= block'
  PROVE  InputsInv'
<1>1. Args("ChallengeSubmitted")' = Args("ChallengeSubmitted")
  BY DEF Args
<1>2. Args("EvidenceSubmitted")' = Args("EvidenceSubmitted")
  BY DEF Args
<1>3. \A i \in DOMAIN events : events[i].block <= block'
  <2>1. \A i \in DOMAIN events : events[i].block \in Nat
    BY EventsAre DEF InputsInv, InputTypes
  <2>. QED
    BY <2>1 DEF InputsInv, InputTypes
<1>. QED
  BY <1>1, <1>2, <1>3 DEF InputsInv

LEMMA InputsStep ==
  ASSUME InputsInv, [Next]_vars
  PROVE  InputsInv' /\ InputsGrow
<1>1. CASE UNCHANGED vars
  <2>1. InputTypes' /\ events' = events /\ block <= block'
    BY <1>1 DEF vars, InputsInv, InputTypes
  <2>. QED
    BY <1>1, <2>1, LogKept DEF vars, InputsGrow
<1>2. CASE NextBlock
  <2>1. InputTypes' /\ events' = events /\ block <= block'
    BY <1>2, ThresholdsAssumption DEF NextBlock, InputsInv, InputTypes
  <2>. QED
    BY <1>2, <2>1, LogKept DEF NextBlock, InputsGrow
<1>3. ASSUME NEW p \in Passports, RegisterPassport(p)
      PROVE  InputsInv' /\ InputsGrow
  <2>1. [name |-> "AgentPassportRegistered", args |-> p, block |-> block] \in Event
    BY DEF Event, InputsInv, InputTypes
  <2>. QED
    BY <1>3, <2>1, EmitKeeps DEF RegisterPassport
<1>4. ASSUME NEW p \in Passports, GivePassport(p)
      PROVE  InputsInv' /\ InputsGrow
  <2>1. InputTypes' /\ events' = events /\ block <= block'
    BY <1>4 DEF GivePassport, InputsInv, InputTypes
  <2>. QED
    BY <1>4, <2>1, LogKept DEF GivePassport, InputsGrow
<1>5. ASSUME NEW a \in Submitters, SubmitModule(a)
      PROVE  InputsInv' /\ InputsGrow
  <2>1. [name |-> "ModuleSubmitted", args |-> a, block |-> block] \in Event
    BY DEF Event, InputsInv, InputTypes
  <2>. QED
    BY <1>5, <2>1, EmitKeeps DEF SubmitModule
<1>6. ASSUME NEW e \in Evidence, SubmitEvidence(e)
      PROVE  InputsInv' /\ InputsGrow
  <2>1. [name |-> "EvidenceSubmitted", args |-> e, block |-> block] \in Event
    BY DEF Event, InputsInv, InputTypes
  <2>. QED
    BY <1>6, <2>1, EmitKeeps DEF SubmitEvidence
<1>7. ASSUME NEW c \in Challenges, SubmitChallenge(c)
      PROVE  InputsInv' /\ InputsGrow
  <2>1. [name |-> "ChallengeSubmitted", args |-> c, block |-> block] \in Event
    BY DEF Event, InputsInv, InputTypes
  <2>. QED
    BY <1>7, <2>1, EmitKeeps DEF SubmitChallenge
<1>8. ASSUME NEW e \in Evidence, NEW g \in Groups, NEW r \in Runners, NEW valid \in BOOLEAN,
             GiveEvidence(e, g, r, valid)
      PROVE  InputsInv' /\ InputsGrow
  <2>. DEFINE f == [id |-> e, operatorGroup |-> g, runner |-> r, valid |-> valid]
  <2>1. f \in EvidenceFile /\ evidence' = Append(evidence, f)
    BY <1>8 DEF GiveEvidence, EvidenceFile
  <2>. HIDE DEF f
  <2>2. evidence \in Seq(EvidenceFile)
    BY DEF InputsInv, InputTypes
  <2>3. /\ evidence' \in Seq(EvidenceFile)
        /\ \A i \in DOMAIN evidence : i \in DOMAIN evidence' /\ evidence'[i] = evidence[i]
    BY <2>1, <2>2, Appended
  <2>4. InputTypes' /\ events' = events /\ block <= block'
    BY <1>8, <2>3 DEF GiveEvidence, InputsInv, InputTypes
  <2>. QED
    BY <1>8, <2>3, <2>4, LogKept DEF GiveEvidence, InputsGrow
<1>9. ASSUME NEW o \in Addresses, NEW list \in RecordLists, GiveReputation(o, list)
      PROVE  InputsInv' /\ InputsGrow
  <2>. DEFINE f == [owner |-> o, records |-> list]
  <2>1. f \in ReputationFile /\ reputation' = Append(reputation, f)
    BY <1>9 DEF GiveReputation, ReputationFile
  <2>. HIDE DEF f
  <2>2. reputation \in Seq(ReputationFile)
    BY DEF InputsInv, InputTypes
  <2>3. /\ reputation' \in Seq(ReputationFile)
        /\ \A i \in DOMAIN reputation : i \in DOMAIN reputation' /\ reputation'[i] = reputation[i]
    BY <2>1, <2>2, Appended
  <2>4. InputTypes' /\ events' = events /\ block <= block'
    BY <1>9, <2>3 DEF GiveReputation, InputsInv, InputTypes
  <2>. QED
    BY <1>9, <2>3, <2>4, LogKept DEF GiveReputation, InputsGrow
<1>. QED
  BY <1>1, <1>2, <1>3, <1>4, <1>5, <1>6, <1>7, <1>8, <1>9 DEF Next

LEMMA InputsInductive == Spec => []InputsInv
<1>1. Init => InputsInv
  BY ThresholdsAssumption DEF Init, InputsInv, InputTypes, Args
<1>2. InputsInv /\ [Next]_vars => InputsInv'
  BY InputsStep
<1>. QED
  BY <1>1, <1>2, PTL DEF Spec

-----------------------------------------------------------------------------
(* The moving window. *)

\* The submissions that a window ending at the nth event holds.
Held(a, n) == {i \in Submitted(a) : /\ i <= n
                                    /\ events[n].block - events[i].block <= ModuleSpamBlockWindow}

Burst(a, first) ==
  {i \in DOMAIN events :
     /\ events[i].name = "ModuleSubmitted" /\ events[i].args = a
     /\ events[i].block \in first .. first + ModuleSpamBlockWindow}

\* What the search for the next beginning makes of the last one.
Moved(a, n, left) ==
  IF n \notin Submitted(a) THEN left
  ELSE Min({n} \cup {i \in left .. n :
         /\ i \in Submitted(a)
         /\ events[n].block - events[i].block <= ModuleSpamBlockWindow})

LEMMA SubmissionsAre ==
  ASSUME InputsInv, NEW a
  PROVE  /\ Len(events) \in Nat /\ DOMAIN events = 1 .. Len(events)
         /\ Submitted(a) \in SUBSET (1 .. Len(events))
         /\ \A i \in Submitted(a) : i \in Nat /\ events[i].block \in Nat
                                    /\ events[i].block \in 1 .. MaxBlock
         /\ \A i, j \in Submitted(a) : i <= j => events[i].block <= events[j].block
  BY EventsAre DEF InputsInv, InputTypes, Submitted

\* The windows begin where the search leads.
LEMMA WindowsMove ==
  ASSUME InputsInv, NEW a
  PROVE  /\ \A n \in 0 .. Len(events) : WindowStarts(a)[n] \in Nat
         /\ WindowStarts(a)[0] = 1
         /\ \A n \in 1 .. Len(events) :
              WindowStarts(a)[n] = Moved(a, n, WindowStarts(a)[n - 1])
<1>. DEFINE N == Len(events)
            step == [n \in 1 .. N |-> [left \in Nat |-> Moved(a, n, left)]]
            Body(f) == [n \in 0 .. N |-> IF n = 0 THEN 1
                                         ELSE IF n \notin Submitted(a) THEN f[n - 1]
                                         ELSE Min({n} \cup {i \in f[n - 1] .. n :
                                                /\ i \in Submitted(a)
                                                /\ events[n].block - events[i].block
                                                     <= ModuleSpamBlockWindow})]
            left == WindowStarts(a)
<1>1. N \in Nat
  BY SubmissionsAre
<1>2. ASSUME NEW n \in 1 .. N, NEW x \in Nat
      PROVE  Moved(a, n, x) \in Nat
  <2>. DEFINE T == {n} \cup {i \in x .. n : /\ i \in Submitted(a)
                               /\ events[n].block - events[i].block <= ModuleSpamBlockWindow}
  <2>1. T \in SUBSET Nat /\ T # {}
    BY <1>1
  <2>. HIDE DEF T
  <2>2. Min(T) \in Nat
    BY <2>1, MinIsLeast
  <2>. QED
    BY <2>2 DEF Moved, T
<1>3. \E s \in [0 .. N -> Nat] : Follows(s, 1, N, step)
  <2>1. step \in Steps(Nat, N)
    BY <1>2 DEF Steps
  <2>. HIDE DEF step, N
  <2>. QED
    BY <1>1, <2>1, StepByStep
<1>4. PICK s \in [0 .. N -> Nat] :
        s[0] = 1 /\ \A n \in 1 .. N : s[n] = Moved(a, n, s[n - 1])
  <2>1. PICK s \in [0 .. N -> Nat] : Follows(s, 1, N, step)
    BY <1>3
  <2>2. ASSUME NEW n \in 1 .. N
        PROVE  s[n] = Moved(a, n, s[n - 1])
    <3>1. n - 1 \in 0 .. N
      BY <1>1
    <3>2. s[n - 1] \in Nat
      BY <3>1
    <3>. QED
      BY <2>1, <3>2 DEF Follows
  <2>. QED
    BY <2>1, <2>2 DEF Follows
<1>5. s = Body(s)
  <2>1. ASSUME NEW n \in 0 .. N, n # 0
        PROVE  s[n] = IF n \notin Submitted(a) THEN s[n - 1]
                      ELSE Min({n} \cup {i \in s[n - 1] .. n :
                             /\ i \in Submitted(a)
                             /\ events[n].block - events[i].block <= ModuleSpamBlockWindow})
    <3>1. n \in 1 .. N
      BY <1>1, <2>1
    <3>. QED
      BY <1>4, <3>1 DEF Moved
  <2>2. s = [n \in 0 .. N |-> s[n]]
    OBVIOUS
  <2>. QED
    BY <1>4, <2>1, <2>2
<1>6. left = CHOOSE f : f = Body(f)
  BY DEF WindowStarts
<1>7. left = Body(left)
  BY <1>5, <1>6
<1>. HIDE DEF left
<1>8. left[0] = 1
  BY <1>1, <1>7
<1>9. \A n \in 1 .. N : left[n] = Moved(a, n, left[n - 1])
  <2>. SUFFICES ASSUME NEW n \in 1 .. N PROVE left[n] = Moved(a, n, left[n - 1])
    OBVIOUS
  <2>1. n \in 0 .. N /\ n # 0
    BY <1>1
  <2>. QED
    BY <1>7, <2>1 DEF Moved
<1>10. \A n \in 0 .. N : left[n] \in Nat
  <2>1. left[0] \in Nat
    BY <1>8
  <2>2. \A n \in 1 .. N : left[n - 1] \in Nat => left[n] \in Nat
    BY <1>2, <1>9
  <2>. HIDE DEF N
  <2>. QED
    BY <1>1, <2>1, <2>2, StaysIn
<1>. QED
  BY <1>8, <1>9, <1>10 DEF left

\* What a window has left behind is too far from any later submission.
FarBehind(a, n) ==
  \A i, m \in Submitted(a) :
    i < WindowStarts(a)[n] /\ n <= m /\ i <= m
      => ~ (events[m].block - events[i].block <= ModuleSpamBlockWindow)

LEMMA LeftBehind ==
  ASSUME InputsInv, NEW a
  PROVE  \A n \in 0 .. Len(events) : FarBehind(a, n)
<1>. DEFINE N == Len(events)
            left == WindowStarts(a)
            T == {n \in Nat : n <= N => FarBehind(a, n)}
<1>1. /\ N \in Nat /\ Submitted(a) \in SUBSET (1 .. N)
      /\ \A i \in Submitted(a) : i \in Nat /\ i >= 1 /\ events[i].block \in Nat
      /\ \A i, j \in Submitted(a) : i <= j => events[i].block <= events[j].block
  BY SubmissionsAre
<1>2. /\ \A n \in 0 .. N : left[n] \in Nat
      /\ left[0] = 1
      /\ \A n \in 1 .. N : left[n] = Moved(a, n, left[n - 1])
  BY WindowsMove
<1>. HIDE DEF N, left
<1>3. 0 \in T
  <2>1. \A i \in Submitted(a) : ~ (i < left[0])
    BY <1>1, <1>2
  <2>. QED
    BY <2>1 DEF FarBehind, left
<1>4. ASSUME NEW n \in T
      PROVE  n + 1 \in T
  <2>. SUFFICES ASSUME n + 1 <= N PROVE FarBehind(a, n + 1)
    OBVIOUS
  <2>1. /\ n + 1 \in 1 .. N /\ n \in 0 .. N /\ (n + 1) - 1 = n /\ n \in Nat /\ n <= n + 1
        /\ FarBehind(a, n) /\ n + 1 \in Nat /\ n + 1 \in 0 .. N
    BY <1>1
  <2>2. left[n + 1] = Moved(a, n + 1, left[n]) /\ left[n] \in Nat /\ left[n + 1] \in Nat
    BY <1>2, <2>1
  <2>3. SUFFICES ASSUME NEW i \in Submitted(a), NEW m \in Submitted(a),
                        i < left[n + 1], n + 1 <= m, i <= m
                 PROVE  ~ (events[m].block - events[i].block <= ModuleSpamBlockWindow)
    BY DEF FarBehind, left
  <2>4. n <= m
    BY <1>1, <2>1, <2>3
  <2>5. CASE i < left[n]
    BY <2>1, <2>3, <2>4, <2>5 DEF FarBehind, left
  <2>6. CASE ~ (i < left[n])
    <3>. DEFINE K == {n + 1} \cup {j \in left[n] .. n + 1 :
                      /\ j \in Submitted(a)
                      /\ events[n + 1].block - events[j].block <= ModuleSpamBlockWindow}
    <3>1. n + 1 \in Submitted(a) /\ left[n + 1] = Min(K)
      BY <2>2, <2>3, <2>6 DEF Moved
    <3>2. K \in SUBSET Nat /\ K # {} /\ n + 1 \in K
      BY <2>1, <2>2
    <3>3. i \notin K /\ i <= n + 1
      <4>. HIDE DEF K
      <4>1. \A j \in K : left[n + 1] <= j
        BY <3>1, <3>2, MinIsLeast
      <4>2. i \in Nat /\ n + 1 \in Nat /\ left[n + 1] <= n + 1
        BY <1>1, <2>1, <3>2, <4>1
      <4>3. \A j \in K : i # j
        BY <2>2, <2>3, <3>2, <4>1, <4>2
      <4>. QED
        BY <2>2, <2>3, <4>2, <4>3
    <3>4. i \in left[n] .. n + 1
      BY <1>1, <2>1, <2>2, <2>6, <3>3
    <3>5. ~ (events[n + 1].block - events[i].block <= ModuleSpamBlockWindow)
      BY <3>3, <3>4
    <3>6. events[n + 1].block <= events[m].block
      BY <1>1, <2>3, <3>1
    <3>. QED
      BY <1>1, <2>3, <3>1, <3>5, <3>6, ThresholdsAssumption
  <2>. QED
    BY <2>5, <2>6
<1>5. T = Nat
  <2>. HIDE DEF T
  <2>1. T \in SUBSET Nat
    BY DEF T
  <2>. QED
    BY <1>3, <1>4, <2>1, Induction
<1>. QED
  BY <1>1, <1>5 DEF N

\* A window holds what is near enough to its end.
LEMMA WindowHolds ==
  ASSUME InputsInv, NEW a, NEW n \in Submitted(a)
  PROVE  /\ Submitted(a) \cap (WindowStarts(a)[n] .. n) = Held(a, n)
         /\ WindowStarts(a)[n] \in Held(a, n)
<1>. DEFINE left == WindowStarts(a)
            K == {n} \cup {j \in left[n - 1] .. n :
                             /\ j \in Submitted(a)
                             /\ events[n].block - events[j].block <= ModuleSpamBlockWindow}
<1>1. /\ Len(events) \in Nat /\ n \in 1 .. Len(events) /\ n \in 0 .. Len(events)
      /\ n - 1 \in 0 .. Len(events) /\ n \in Nat
      /\ \A i \in Submitted(a) : i \in Nat /\ events[i].block \in Nat
      /\ \A i, j \in Submitted(a) : i <= j => events[i].block <= events[j].block
  BY SubmissionsAre
<1>2. /\ left[n] = Moved(a, n, left[n - 1]) /\ left[n - 1] \in Nat /\ left[n] \in Nat
      /\ FarBehind(a, n)
  BY <1>1, WindowsMove, LeftBehind
<1>. HIDE DEF left
<1>3. left[n] = Min(K)
  BY <1>2 DEF Moved
<1>4. K \in SUBSET Nat /\ K # {} /\ n \in K
  BY <1>1, <1>2
<1>5. ModuleSpamBlockWindow \in Nat /\ events[n].block - events[n].block <= ModuleSpamBlockWindow
  BY <1>1, ThresholdsAssumption
<1>6. \A j \in K : /\ j \in Submitted(a) /\ j <= n
                   /\ events[n].block - events[j].block <= ModuleSpamBlockWindow
  BY <1>1, <1>2, <1>5
<1>7. left[n] \in K /\ left[n] <= n
  <2>. HIDE DEF K
  <2>. QED
    BY <1>3, <1>4, MinIsLeast
<1>8. left[n] \in Held(a, n)
  BY <1>6, <1>7 DEF Held
<1>9. ASSUME NEW i \in Submitted(a), i \in left[n] .. n
      PROVE  i \in Held(a, n)
  <2>1. left[n] <= i /\ i <= n
    BY <1>1, <1>2, <1>9
  <2>2. events[left[n]].block <= events[i].block
    BY <1>1, <1>6, <1>7, <2>1
  <2>3. events[n].block - events[left[n]].block <= ModuleSpamBlockWindow
    BY <1>6, <1>7
  <2>4. events[n].block - events[i].block <= ModuleSpamBlockWindow
    <3>. DEFINE x == events[left[n]].block
                y == events[i].block
                z == events[n].block
    <3>1. x \in Nat /\ y \in Nat /\ z \in Nat
      BY <1>1, <1>6, <1>7
    <3>. HIDE DEF x, y, z
    <3>2. x <= y /\ z - x <= ModuleSpamBlockWindow
      BY <2>2, <2>3 DEF x, y, z
    <3>3. z - y <= ModuleSpamBlockWindow
      BY <1>5, <3>1, <3>2
    <3>. QED
      BY <3>3 DEF y, z
  <2>. QED
    BY <2>1, <2>4 DEF Held
<1>10. ASSUME NEW i \in Held(a, n)
       PROVE  i \in left[n] .. n
  <2>1. i \in Submitted(a) /\ i <= n /\ n <= n
        /\ events[n].block - events[i].block <= ModuleSpamBlockWindow
    BY <1>1 DEF Held
  <2>2. ~ (i < left[n])
    BY <1>2, <2>1 DEF FarBehind, left
  <2>3. i \in Nat
    BY <1>1, <2>1
  <2>4. left[n] \in Nat
    BY <1>2
  <2>. QED
    BY <1>1, <2>1, <2>2, <2>3, <2>4
<1>11. Held(a, n) \subseteq Submitted(a)
  BY DEF Held
<1>. QED
  BY <1>8, <1>9, <1>10, <1>11 DEF left

\* Some window is that full just when some range of blocks is.
LEMMA SpamIsABurst ==
  ASSUME InputsInv, NEW a
  PROVE  MaxWindow(a) >= ModuleSpamHigh
           <=> \E first \in 1 .. MaxBlock : Cardinality(Burst(a, first)) >= ModuleSpamHigh
<1>. DEFINE N == Len(events)
            C == {Cardinality(Submitted(a) \cap (WindowStarts(a)[n] .. n)) : n \in Submitted(a)}
                   \cup {0}
<1>1. /\ N \in Nat /\ Submitted(a) \in SUBSET (1 .. N)
      /\ \A i \in Submitted(a) : i \in Nat /\ events[i].block \in Nat
                                /\ events[i].block \in 1 .. MaxBlock
      /\ \A i, j \in Submitted(a) : i <= j => events[i].block <= events[j].block
  BY SubmissionsAre
<1>2. ModuleSpamHigh \in Nat /\ ModuleSpamHigh > 0 /\ ModuleSpamBlockWindow \in Nat
  BY ThresholdsAssumption
<1>3. IsFiniteSet(1 .. N) /\ Cardinality(1 .. N) = N
  <2>. HIDE DEF N
  <2>1. 1 \in Int /\ N \in Int /\ (IF 1 > N THEN 0 ELSE N - 1 + 1) = N
    BY <1>1
  <2>. QED
    BY <2>1, FS_Interval
<1>4. ASSUME NEW T \in SUBSET (1 .. N)
      PROVE  IsFiniteSet(T) /\ Cardinality(T) \in 0 .. N
  <2>. HIDE DEF N
  <2>1. IsFiniteSet(T) /\ Cardinality(T) <= Cardinality(1 .. N)
    BY <1>3, FS_Subset
  <2>2. Cardinality(T) \in Nat
    BY <2>1, FS_CardinalityType
  <2>. QED
    BY <1>1, <1>3, <2>1, <2>2
<1>5. ASSUME NEW first
      PROVE  /\ Burst(a, first) \in SUBSET Submitted(a)
             /\ IsFiniteSet(Burst(a, first)) /\ Cardinality(Burst(a, first)) \in Nat
  <2>1. Burst(a, first) \in SUBSET Submitted(a)
    BY DEF Burst, Submitted
  <2>. QED
    BY <1>1, <1>4, <2>1
<1>6. ASSUME NEW n \in Submitted(a)
      PROVE  /\ Held(a, n) \in SUBSET Submitted(a)
             /\ IsFiniteSet(Held(a, n)) /\ Cardinality(Held(a, n)) \in 0 .. N
             /\ Cardinality(Held(a, n)) \in C
  <2>1. Held(a, n) \in SUBSET Submitted(a)
    BY DEF Held
  <2>2. Submitted(a) \cap (WindowStarts(a)[n] .. n) = Held(a, n)
    BY WindowHolds
  <2>3. Held(a, n) \in SUBSET (1 .. N)
    BY <1>1, <2>1
  <2>. QED
    BY <1>4, <2>1, <2>2, <2>3
<1>7. ASSUME NEW x \in C
      PROVE  x \in 0 .. N /\ (x = 0 \/ \E n \in Submitted(a) : x = Cardinality(Held(a, n)))
  <2>1. CASE x = 0
    BY <1>1, <2>1
  <2>2. CASE x # 0
    <3>1. PICK n \in Submitted(a) :
                 x = Cardinality(Submitted(a) \cap (WindowStarts(a)[n] .. n))
      BY <2>2
    <3>2. x = Cardinality(Held(a, n))
      BY <3>1, WindowHolds
    <3>. QED
      BY <1>6, <3>2
  <2>. QED
    BY <2>1, <2>2
<1>8. MaxWindow(a) = Max(C)
  BY DEF MaxWindow
<1>9. C # {} /\ C \in SUBSET (0 .. N)
  BY <1>7
<1>. HIDE DEF C
<1>10. Max(C) \in C /\ \A x \in C : x <= Max(C)
  <2>. HIDE DEF N
  <2>. QED
    BY <1>1, <1>9, MaxUpTo
<1>11. ASSUME MaxWindow(a) >= ModuleSpamHigh
       PROVE  \E first \in 1 .. MaxBlock : Cardinality(Burst(a, first)) >= ModuleSpamHigh
  <2>1. PICK n \in Submitted(a) : Max(C) = Cardinality(Held(a, n))
    BY <1>2, <1>7, <1>8, <1>10, <1>11
  <2>. DEFINE left == WindowStarts(a)[n]
              first == events[left].block
  <2>2. left \in Held(a, n) /\ Submitted(a) \cap (left .. n) = Held(a, n)
    BY WindowHolds
  <2>. HIDE DEF left
  <2>3. left \in Submitted(a) /\ first \in 1 .. MaxBlock /\ first \in Nat /\ left \in Nat
        /\ n \in Nat
    BY <1>1, <1>6, <2>2
  <2>4. ASSUME NEW i \in Held(a, n)
        PROVE  i \in Burst(a, first)
    <3>1. i \in Submitted(a) /\ left <= i /\ i <= n
      BY <1>1, <2>2, <2>3, <2>4
    <3>2. first <= events[i].block /\ events[i].block <= events[n].block
      BY <1>1, <2>3, <3>1
    <3>3. events[n].block - first <= ModuleSpamBlockWindow
      BY <2>2 DEF Held
    <3>4. events[i].block \in Nat /\ events[n].block \in Nat
      BY <1>1, <3>1
    <3>5. events[i].block \in first .. first + ModuleSpamBlockWindow
      <4>. DEFINE x == first
                  y == events[i].block
                  z == events[n].block
      <4>1. x \in Nat /\ y \in Nat /\ z \in Nat
        BY <2>3, <3>4
      <4>2. x <= y /\ y <= z /\ z - x <= ModuleSpamBlockWindow
        BY <3>2, <3>3
      <4>. HIDE DEF x, y, z
      <4>3. y \in x .. x + ModuleSpamBlockWindow
        BY <1>2, <4>1, <4>2
      <4>. QED
        BY <4>3 DEF x, y
    <3>6. events[i].name = "ModuleSubmitted" /\ events[i].args = a /\ i \in DOMAIN events
      BY <3>1 DEF Submitted
    <3>. QED
      BY <3>5, <3>6 DEF Burst
  <2>. HIDE DEF first
  <2>5. Held(a, n) \in SUBSET Burst(a, first)
    BY <2>4
  <2>6. Cardinality(Held(a, n)) <= Cardinality(Burst(a, first))
    BY <1>5, <2>5, FS_Subset
  <2>7. Cardinality(Burst(a, first)) \in Nat /\ Cardinality(Held(a, n)) \in Nat
    BY <1>5, <1>6
  <2>8. Cardinality(Burst(a, first)) >= ModuleSpamHigh
    BY <1>2, <1>8, <1>11, <2>1, <2>6, <2>7
  <2>. QED
    BY <2>3, <2>8
<1>12. ASSUME NEW first \in 1 .. MaxBlock, Cardinality(Burst(a, first)) >= ModuleSpamHigh
       PROVE  MaxWindow(a) >= ModuleSpamHigh
  <2>. DEFINE T == Burst(a, first)
              n == Max(T)
  <2>1. T # {} /\ T \in SUBSET Submitted(a) /\ T \in SUBSET (1 .. N)
        /\ Cardinality(T) \in Nat /\ first \in Nat
    BY <1>1, <1>2, <1>5, <1>12, FS_EmptySet, ThresholdsAssumption
  <2>. HIDE DEF T
  <2>2. n \in T /\ \A i \in T : i <= n
    <3>. HIDE DEF N
    <3>. QED
      BY <1>1, <2>1, MaxIsGreatest
  <2>. HIDE DEF n
  <2>3. n \in Submitted(a)
    BY <2>1, <2>2
  <2>4. ASSUME NEW i \in T
        PROVE  i \in Held(a, n)
    <3>1. i \in Submitted(a) /\ i <= n
      BY <2>1, <2>2
    <3>2. /\ events[i].block \in first .. first + ModuleSpamBlockWindow
          /\ events[n].block \in first .. first + ModuleSpamBlockWindow
      BY <2>2 DEF T, Burst
    <3>3. events[n].block - events[i].block <= ModuleSpamBlockWindow
      BY <1>2, <2>1, <3>2
    <3>. QED
      BY <3>1, <3>3 DEF Held
  <2>5. T \in SUBSET Held(a, n)
    BY <2>4
  <2>6. Cardinality(T) <= Cardinality(Held(a, n))
    BY <1>6, <2>3, <2>5, FS_Subset
  <2>7. Cardinality(Held(a, n)) <= Max(C) /\ Cardinality(Held(a, n)) \in Nat
    BY <1>6, <1>10, <2>3
  <2>8. Max(C) \in Nat
    <3>1. 0 .. N \subseteq Nat
      BY <1>1
    <3>. HIDE DEF N
    <3>. QED
      BY <1>9, <1>10, <3>1
  <2>9. Cardinality(T) >= ModuleSpamHigh
    BY <1>12 DEF T
  <2>. QED
    BY <1>2, <1>8, <2>1, <2>6, <2>7, <2>8, <2>9
<1>. QED
  BY <1>11, <1>12

-----------------------------------------------------------------------------
(* The signals, one by one. *)

Suspect(o) == \/ Cardinality(PassportsByOwner(o)) >= PassportSybilHigh
              \/ Cardinality(PassportsByOwner(o)) >= PassportSybilMedium

SybilSignal(o) ==
  Signal(IF TooMany(o) THEN "high" ELSE "medium", "passport_sybil", {o} \cup PassportsByOwner(o),
         <<"AgentPassportRegistered", o>>, 0)

SpamSignal(a) == Signal("high", "module_spam", {a}, <<"ModuleSubmitted", a>>, 0)

FarmingSignal(severity, who, c, nth) ==
  Signal(severity, "reputation_farming", {who, c}, <<"ChallengeSubmitted", c>>, nth)

\* The nth record of a report, and where it is farming.
Record(i, j) == reputation[i].records[j]

Farms(i, j) == /\ i \in DOMAIN reputation /\ j \in DOMAIN reputation[i].records
               /\ IsFarming(Record(i, j), reputation[i].owner)

ListedSignal(i, j) == FarmingSignal("medium", reputation[i].owner, Record(i, j), <<i, j>>)

LEMMA SignalFields ==
  ASSUME NEW severity, NEW category, NEW subjects, NEW link, NEW nth, NEW s,
         s = Signal(severity, category, subjects, link, nth)
  PROVE  /\ s.severity = severity /\ s.category = category /\ s.subjects = subjects
         /\ s.link = link /\ s.nth = nth
  BY DEF Signal

LEMMA TamperingIs ==
  ASSUME NEW s \in ArtifactTamperingSignals
  PROVE  s.severity = "critical" /\ s.category = "artifact_tampering" /\ s.link = <<>>
<1>1. PICK i \in DOMAIN evidence :
        s = Signal("critical", "artifact_tampering", {<<"evidence_report", i>>}, <<>>, 0)
  BY DEF ArtifactTamperingSignals
<1>. QED
  BY <1>1 DEF Signal

LEMMA SybilIs ==
  PassportSybilSignals = {SybilSignal(o) : o \in {a \in Owners : Suspect(a)}}
  BY DEF PassportSybilSignals, SybilSignal, Suspect, TooMany

LEMMA SpamIs ==
  ModuleSpamSignals = {SpamSignal(a) : a \in {s \in Submitters : MaxWindow(s) >= ModuleSpamHigh}}
  BY DEF ModuleSpamSignals, SpamSignal

LEMMA CollusionIs ==
  ASSUME NEW s \in ValidatorCollusionSignals
  PROVE  s.severity = "high" /\ s.category = "validator_collusion" /\ s.link = <<>>
<1>1. ASSUME NEW mark, NEW marks, s \in CollusionSignals(mark, marks)
      PROVE  \E subjects : s = Signal("high", "validator_collusion", subjects, <<>>, 0)
  BY <1>1 DEF CollusionSignals
<1>2. PICK subjects : s = Signal("high", "validator_collusion", subjects, <<>>, 0)
  BY <1>1 DEF ValidatorCollusionSignals
<1>. QED
  BY <1>2 DEF Signal

LEMMA FarmingIs ==
  ReputationFarmingSignals =
    {FarmingSignal("high", c[2], c, 0) : c \in Seen}
      \cup UNION {{ListedSignal(i, j) : j \in {n \in DOMAIN reputation[i].records : Farms(i, n)}}
                  : i \in DOMAIN reputation}
<1>. DEFINE Of(i) ==
       {Signal("medium", "reputation_farming", {reputation[i].owner, reputation[i].records[j]},
               <<"ChallengeSubmitted", reputation[i].records[j]>>, <<i, j>>)
          : j \in {n \in DOMAIN reputation[i].records :
                     IsFarming(reputation[i].records[n], reputation[i].owner)}}
<1>1. ASSUME NEW i \in DOMAIN reputation
      PROVE  Of(i) = {ListedSignal(i, j) :
                        j \in {n \in DOMAIN reputation[i].records : Farms(i, n)}}
  BY DEF ListedSignal, FarmingSignal, Farms, Record
<1>2. ReputationFarmingSignals = {FarmingSignal("high", c[2], c, 0) : c \in Seen}
                                   \cup UNION {Of(i) : i \in DOMAIN reputation}
  BY DEF ReputationFarmingSignals, FarmingSignal
<1>. HIDE DEF Of
<1>. QED
  BY <1>1, <1>2

\* Every signal is one of six.
LEMMA SignalsAre ==
  ASSUME NEW s
  PROVE  s \in Signals <=>
           \/ s \in ArtifactTamperingSignals
           \/ \E o \in Owners : Suspect(o) /\ s = SybilSignal(o)
           \/ \E a \in Submitters : MaxWindow(a) >= ModuleSpamHigh /\ s = SpamSignal(a)
           \/ s \in ValidatorCollusionSignals
           \/ \E c \in Seen : s = FarmingSignal("high", c[2], c, 0)
           \/ \E i \in DOMAIN reputation : \E j \in DOMAIN reputation[i].records :
                Farms(i, j) /\ s = ListedSignal(i, j)
  BY SybilIs, SpamIs, FarmingIs DEF Signals

\* A submitter is reported for spam iff some window of blocks is that full.
LEMMA SpamFound ==
  ASSUME InputsInv
  PROVE  SpamIsAFullWindow
<1>. DEFINE Spam == {t \in Signals : t.category = "module_spam"}
            Full == {x \in Submitters :
                       \E first \in 1 .. MaxBlock : Cardinality(Burst(x, first)) >= ModuleSpamHigh}
<1>1. ASSUME NEW s \in Spam
      PROVE  \E a \in Full : s.subjects = {a}
  <2>1. /\ s \notin ArtifactTamperingSignals /\ s \notin ValidatorCollusionSignals
        /\ \A o : s # SybilSignal(o)
        /\ \A severity, who, c, nth : s # FarmingSignal(severity, who, c, nth)
    BY TamperingIs, CollusionIs DEF SybilSignal, FarmingSignal, Signal
  <2>2. PICK a \in Submitters : MaxWindow(a) >= ModuleSpamHigh /\ s = SpamSignal(a)
    <3>1. \A i, j : s # ListedSignal(i, j)
      BY <2>1 DEF ListedSignal
    <3>2. s \in Signals
      OBVIOUS
    <3>. QED
      BY <2>1, <3>1, <3>2, SignalsAre
  <2>3. s.subjects = {a}
    BY <2>2 DEF SpamSignal, Signal
  <2>. QED
    BY <2>2, <2>3, SpamIsABurst
<1>2. ASSUME NEW a \in Full
      PROVE  SpamSignal(a) \in Spam /\ SpamSignal(a).subjects = {a}
  <2>1. MaxWindow(a) >= ModuleSpamHigh
    BY SpamIsABurst
  <2>2. SpamSignal(a) \in Signals
    BY <2>1, SignalsAre
  <2>. QED
    BY <2>2 DEF SpamSignal, Signal
<1>3. {s.subjects : s \in Spam} = {{a} : a \in Full}
  <2>. HIDE DEF Spam, Full
  <2>1. {s.subjects : s \in Spam} \subseteq {{a} : a \in Full}
    BY <1>1
  <2>2. ASSUME NEW a \in Full
        PROVE  {a} \in {s.subjects : s \in Spam}
    BY <1>2
  <2>. QED
    BY <2>1, <2>2
<1>. QED
  BY <1>3 DEF SpamIsAFullWindow, Burst

\* The window finds every burst and no other.
THEOREM BurstsAreFound == Spec => []SpamIsAFullWindow
  BY InputsInductive, SpamFound, PTL

-----------------------------------------------------------------------------
(* The links of a report. *)

LEMMA ArgsAre ==
  ASSUME InputsInv
  PROVE  /\ Args("AgentPassportRegistered") \subseteq Passports
         /\ Args("ChallengeSubmitted") \subseteq Challenges
         /\ \A name : \A x \in Args(name) : \E i \in DOMAIN events :
              events[i].name = name /\ events[i].args = x
         /\ \A i \in DOMAIN events : events[i].args \in Args(events[i].name)
<1>1. \A i \in DOMAIN events : events[i] \in Event
  BY DEF InputsInv, InputTypes
<1>. QED
  BY <1>1, EventsAre DEF Args

\* An owner is no passport, and the passports of an owner are passports.
LEMMA OwnersAre ==
  ASSUME InputsInv
  PROVE  /\ \A o \in Owners : o \notin Passports /\ o \notin Challenges /\ o \in Addresses
         /\ \A o : PassportsByOwner(o) \in SUBSET Passports
         /\ \A o : \A p \in PassportsByOwner(o) : p[1] = o
         /\ \A p \in Passports : p[1] \in Owners
<1>1. Owners \subseteq Addresses
  BY DEF Addresses
<1>2. \A o : PassportsByOwner(o) \in SUBSET Passports
  BY ArgsAre DEF PassportsByOwner, InputsInv, InputTypes
<1>. QED
  BY <1>1, <1>2, IdsAssumption DEF PassportsByOwner, Owners

LEMMA ReportsAreLinked ==
  ASSUME InputsInv
  PROVE  ReportsLink
<1>. SUFFICES ASSUME NEW s \in Signals
              PROVE  Linked(s) <=> (s.category = "passport_sybil" =>
                       \E p \in Args("AgentPassportRegistered") : p[1] \in s.subjects)
  BY DEF ReportsLink
<1>1. CASE s \in ArtifactTamperingSignals \/ s \in ValidatorCollusionSignals
  <2>1. s.link = <<>> /\ s.category # "passport_sybil"
    BY <1>1, TamperingIs, CollusionIs
  <2>. QED
    BY <2>1 DEF Linked
<1>2. ASSUME NEW o \in Owners, s = SybilSignal(o)
      PROVE  Linked(s) <=> (s.category = "passport_sybil" =>
               \E p \in Args("AgentPassportRegistered") : p[1] \in s.subjects)
  <2>1. /\ s.link = <<"AgentPassportRegistered", o>> /\ s.category = "passport_sybil"
        /\ s.subjects = {o} \cup PassportsByOwner(o)
    BY <1>2 DEF SybilSignal, Signal
  <2>2. s.link # <<>> /\ s.link[1] = "AgentPassportRegistered" /\ s.link[2] = o
    BY <2>1
  <2>3. ASSUME NEW i \in DOMAIN events, events[i].name = "AgentPassportRegistered"
        PROVE  Mentions(events[i], o) <=> events[i].args[1] = o
    <3>1. Mentions(events[i], o) <=> o = events[i].args \/ o = events[i].args[1]
      BY <2>3 DEF Mentions
    <3>2. events[i].args \in Passports
      BY <2>3, ArgsAre
    <3>. QED
      BY <3>1, <3>2, OwnersAre
  <2>4. Linked(s) <=> \E i \in DOMAIN events : /\ events[i].name = "AgentPassportRegistered"
                                               /\ events[i].args[1] = o
    BY <2>2, <2>3 DEF Linked
  <2>5. ASSUME NEW p \in Args("AgentPassportRegistered")
        PROVE  p[1] \in s.subjects <=> p[1] = o
    BY <2>1, <2>5, ArgsAre, OwnersAre
  <2>6. (\E p \in Args("AgentPassportRegistered") : p[1] = o)
          <=> \E i \in DOMAIN events : /\ events[i].name = "AgentPassportRegistered"
                                       /\ events[i].args[1] = o
    BY DEF Args
  <2>. QED
    BY <2>1, <2>4, <2>5, <2>6
<1>3. ASSUME NEW a \in Submitters, MaxWindow(a) >= ModuleSpamHigh, s = SpamSignal(a)
      PROVE  Linked(s) /\ s.category # "passport_sybil"
  <2>1. s.link = <<"ModuleSubmitted", a>> /\ s.category # "passport_sybil"
    BY <1>3 DEF SpamSignal, Signal
  <2>2. PICK first \in 1 .. MaxBlock : Cardinality(Burst(a, first)) >= ModuleSpamHigh
    BY <1>3, SpamIsABurst
  <2>3. Burst(a, first) # {}
    BY <2>2, FS_EmptySet, ThresholdsAssumption
  <2>4. PICK i \in DOMAIN events : events[i].name = "ModuleSubmitted" /\ events[i].args = a
    BY <2>3 DEF Burst
  <2>5. Mentions(events[i], a)
    BY <2>4 DEF Mentions
  <2>. QED
    BY <2>1, <2>4, <2>5 DEF Linked
<1>4. ASSUME NEW severity, NEW who, NEW c \in Args("ChallengeSubmitted"), NEW nth,
             s = FarmingSignal(severity, who, c, nth)
      PROVE  Linked(s) /\ s.category # "passport_sybil"
  <2>1. s.link = <<"ChallengeSubmitted", c>> /\ s.category # "passport_sybil"
    BY <1>4 DEF FarmingSignal, Signal
  <2>2. PICK i \in DOMAIN events : events[i].name = "ChallengeSubmitted" /\ events[i].args = c
    BY ArgsAre
  <2>3. Mentions(events[i], c)
    BY <2>2 DEF Mentions
  <2>. QED
    BY <2>1, <2>2, <2>3 DEF Linked
<1>5. ASSUME NEW c \in Seen, s = FarmingSignal("high", c[2], c, 0)
      PROVE  Linked(s) /\ s.category # "passport_sybil"
  BY <1>4, <1>5 DEF Seen
<1>6. ASSUME NEW i, NEW j, Farms(i, j), s = ListedSignal(i, j)
      PROVE  Linked(s) /\ s.category # "passport_sybil"
  BY <1>4, <1>6 DEF Farms, IsFarming, ListedSignal
<1>. QED
  BY <1>1, <1>2, <1>3, <1>5, <1>6, SignalsAre

-----------------------------------------------------------------------------
(* Risks and decisions. *)

LEMMA RanksAre ==
  /\ RiskRank("low") = 1 /\ RiskRank("medium") = 2
  /\ RiskRank("high") = 3 /\ RiskRank("critical") = 4
  /\ \A n \in 1 .. 4 : /\ Risks[n] \in {"low", "medium", "high", "critical"}
                       /\ RiskRank(Risks[n]) = n
<1>1. \A n \in 1 .. 4 : n = 1 \/ n = 2 \/ n = 3 \/ n = 4
  OBVIOUS
<1>2. /\ Risks[1] = "low" /\ Risks[2] = "medium" /\ Risks[3] = "high" /\ Risks[4] = "critical"
      /\ 1 \in 1 .. 4 /\ 2 \in 1 .. 4 /\ 3 \in 1 .. 4 /\ 4 \in 1 .. 4
  BY DEF Risks
<1>3. ASSUME NEW n \in 1 .. 4
      PROVE  RiskRank(Risks[n]) = n
  <2>1. \A m \in 1 .. 4 : Risks[m] = Risks[n] <=> m = n
    BY <1>1, <1>2
  <2>. QED
    BY <2>1 DEF RiskRank
<1>. QED
  BY <1>1, <1>2, <1>3

Severities == {"medium", "high", "critical"}

Mediums(signals) == {s \in signals : s.severity = "medium"}

\* The risk is that of the most severe signal, or high with three of medium severity.
LEMMA RiskIs ==
  ASSUME NEW signals, \A s \in signals : s.severity \in Severities
  PROVE  LET risk == AggregateRisk(signals) IN
         /\ risk \in {"low", "medium", "high", "critical"} /\ RiskRank(risk) \in 1 .. 4
         /\ \A s \in signals : RiskRank(s.severity) <= RiskRank(risk)
         /\ Cardinality(Mediums(signals)) >= 3 => RiskRank(risk) >= 3
         /\ \/ RiskRank(risk) = 1
            \/ \E s \in signals : RiskRank(s.severity) = RiskRank(risk)
            \/ RiskRank(risk) = 3 /\ Cardinality(Mediums(signals)) >= 3
         /\ risk \in {"high", "critical"} <=> RiskRank(risk) >= 3
<1>. DEFINE T == {RiskRank(s.severity) : s \in signals} \cup {1}
            highest == Risks[Max(T)]
            risk == AggregateRisk(signals)
<1>1. T \in SUBSET (1 .. 4) /\ T # {}
  BY RanksAre DEF Severities
<1>2. \A x \in T : x = 1 \/ \E s \in signals : x = RiskRank(s.severity)
  OBVIOUS
<1>3. \A s \in signals : RiskRank(s.severity) \in T
  OBVIOUS
<1>4. risk = IF Cardinality(Mediums(signals)) >= 3 /\ RiskRank(highest) < RiskRank("high")
             THEN "high" ELSE highest
  BY DEF AggregateRisk, Mediums
<1>. HIDE DEF T, risk
<1>5. Max(T) \in T /\ \A x \in T : x <= Max(T)
  BY <1>1, MaxIsGreatest
<1>6. Max(T) \in 1 .. 4 /\ RiskRank(highest) = Max(T)
      /\ highest \in {"low", "medium", "high", "critical"}
  BY <1>1, <1>5, RanksAre
<1>. HIDE DEF highest
<1>7. CASE Cardinality(Mediums(signals)) >= 3 /\ RiskRank(highest) < RiskRank("high")
  <2>1. risk = "high" /\ RiskRank(risk) = 3 /\ Max(T) < 3
    BY <1>4, <1>6, <1>7, RanksAre
  <2>2. \A x \in T : x <= 3
    BY <1>1, <1>5, <1>6, <2>1
  <2>. QED
    BY <1>3, <1>7, <2>1, <2>2 DEF risk
<1>8. CASE ~ (Cardinality(Mediums(signals)) >= 3 /\ RiskRank(highest) < RiskRank("high"))
  <2>1. risk = highest /\ RiskRank(risk) = Max(T) /\ RiskRank(risk) \in 1 .. 4
    BY <1>4, <1>6, <1>8
  <2>2. Cardinality(Mediums(signals)) >= 3 => RiskRank(risk) >= 3
    BY <1>6, <1>8, <2>1, RanksAre
  <2>3. risk \in {"high", "critical"} <=> RiskRank(risk) >= 3
    BY <1>6, <2>1, RanksAre
  <2>4. RiskRank(risk) = 1 \/ \E s \in signals : RiskRank(s.severity) = RiskRank(risk)
    BY <1>2, <1>5, <2>1
  <2>. QED
    BY <1>3, <1>5, <1>6, <2>1, <2>2, <2>3, <2>4 DEF risk
<1>. QED
  BY <1>7, <1>8

Bucket(x) == {s \in Signals : x \in SubjectsForSignal(s)}

LEMMA SeveritiesAre ==
  ASSUME NEW s \in Signals
  PROVE  s.severity \in Severities
<1>1. CASE s \in ArtifactTamperingSignals \/ s \in ValidatorCollusionSignals
  BY <1>1, TamperingIs, CollusionIs DEF Severities
<1>2. CASE \/ \E o \in Owners : s = SybilSignal(o)
           \/ \E a \in Submitters : s = SpamSignal(a)
           \/ \E c \in Seen : s = FarmingSignal("high", c[2], c, 0)
           \/ \E i \in DOMAIN reputation : \E j \in DOMAIN reputation[i].records :
                s = ListedSignal(i, j)
  BY <1>2 DEF SybilSignal, SpamSignal, ListedSignal, FarmingSignal, Signal, Severities
<1>. QED
  BY <1>1, <1>2, SignalsAre

\* High risk has a severe signal or three of medium severity.
LEMMA HighRisk ==
  ASSUME NEW x
  PROVE  /\ AggregateRisk(Bucket(x)) \in {"high", "critical"} <=>
              \/ \E s \in Bucket(x) : s.severity \in {"high", "critical"}
              \/ Cardinality(Mediums(Bucket(x))) >= 3
         /\ AggregateRisk(Bucket(x)) \in {"high", "critical"} => Bucket(x) # {}
<1>. DEFINE B == Bucket(x)
            risk == AggregateRisk(B)
<1>1. \A s \in B : s.severity \in Severities
  BY SeveritiesAre DEF Bucket
<1>. HIDE DEF B
<1>2. /\ RiskRank(risk) \in 1 .. 4
      /\ \A s \in B : RiskRank(s.severity) <= RiskRank(risk)
      /\ Cardinality(Mediums(B)) >= 3 => RiskRank(risk) >= 3
      /\ \/ RiskRank(risk) = 1
         \/ \E s \in B : RiskRank(s.severity) = RiskRank(risk)
         \/ RiskRank(risk) = 3 /\ Cardinality(Mediums(B)) >= 3
      /\ risk \in {"high", "critical"} <=> RiskRank(risk) >= 3
  BY <1>1, RiskIs
<1>. HIDE DEF risk
<1>3. \A s \in B : s.severity \in {"high", "critical"} <=> RiskRank(s.severity) >= 3
  BY <1>1, RanksAre DEF Severities
<1>4. \A s \in B : RiskRank(s.severity) \in 1 .. 4
  BY <1>1, RanksAre DEF Severities
<1>5. risk \in {"high", "critical"} <=>
        \/ \E s \in B : s.severity \in {"high", "critical"}
        \/ Cardinality(Mediums(B)) >= 3
  BY <1>2, <1>3, <1>4
<1>6. B = {} => ~ (Cardinality(Mediums(B)) >= 3)
  <2>1. B = {} => Mediums(B) = {}
    BY DEF Mediums
  <2>. QED
    BY <2>1, FS_EmptySet
<1>. QED
  BY <1>5, <1>6 DEF B, risk

PassportSubject(p) == [type |-> "passport", id |-> p]
AddressSubject(o) == [type |-> "address", id |-> o]

LEMMA SubjectsAre ==
  ASSUME NEW s
  PROVE  /\ \A p \in Passports : PassportSubject(p) \in SubjectsForSignal(s)
                                  <=> p \in s.subjects /\ s.category = "passport_sybil"
         /\ \A o \in Addresses : AddressSubject(o) \in SubjectsForSignal(s)
                                  <=> /\ o \in s.subjects
                                      /\ s.category \in {"passport_sybil", "reputation_farming"}
         /\ \A x \in SubjectsForSignal(s) : x = [type |-> x.type, id |-> x.id]
<1>. DEFINE Type(x) ==
       CASE s.category = "module_spam"                           -> "module_submitter"
         [] s.category = "validator_collusion" /\ x \in Addresses -> "validator"
         [] s.category = "passport_sybil" /\ x \in Addresses      -> "address"
         [] s.category = "passport_sybil" /\ x \in Passports      -> "passport"
         [] s.category = "reputation_farming" /\ x \in Addresses  -> "address"
         [] OTHER                                                -> "artifact_set"
<1>1. SubjectsForSignal(s) = {[type |-> Type(x), id |-> x] : x \in s.subjects}
  BY DEF SubjectsForSignal
<1>2. ASSUME NEW p \in Passports
      PROVE  Type(p) = "passport" <=> s.category = "passport_sybil"
  <2>1. p \notin Addresses
    BY IdsAssumption
  <2>. QED
    BY <2>1
<1>3. ASSUME NEW o \in Addresses
      PROVE  Type(o) = "address" <=> s.category \in {"passport_sybil", "reputation_farming"}
  <2>1. o \notin Passports
    BY IdsAssumption
  <2>. QED
    BY <2>1
<1>. HIDE DEF Type
<1>4. ASSUME NEW type, NEW y
      PROVE  [type |-> type, id |-> y] \in SubjectsForSignal(s) <=> y \in s.subjects /\ Type(y) = type
  BY <1>1
<1>5. \A x \in SubjectsForSignal(s) : x = [type |-> x.type, id |-> x.id]
  BY <1>1
<1>. QED
  BY <1>2, <1>3, <1>4, <1>5 DEF PassportSubject, AddressSubject

Decision(x) == BucketToDecision(x, Signals)

Subjects == UNION {SubjectsForSignal(s) : s \in Signals}

LEMMA DecisionsAre ==
  /\ Policy = {Decision(x) : x \in Subjects}
  /\ \A x : /\ x \in Subjects <=> Bucket(x) # {}
           /\ Decision(x).type = x.type /\ Decision(x).id = x.id
           /\ Decision(x).gates = GatesFor(x.type, {s.category : s \in Bucket(x)},
                                          AggregateRisk(Bucket(x)))
<1>1. Policy = {Decision(x) : x \in Subjects}
  BY DEF Policy, EvaluateTrustPolicy, Decision, Subjects
<1>2. ASSUME NEW x
      PROVE  /\ x \in Subjects <=> Bucket(x) # {}
             /\ Decision(x).type = x.type /\ Decision(x).id = x.id
             /\ Decision(x).gates = GatesFor(x.type, {s.category : s \in Bucket(x)},
                                            AggregateRisk(Bucket(x)))
  <2>1. x \in Subjects <=> Bucket(x) # {}
    BY DEF Subjects, Bucket
  <2>. QED
    BY <2>1 DEF Decision, BucketToDecision, Bucket
<1>. QED
  BY <1>1, <1>2

LEMMA CreditGate ==
  ASSUME NEW type, NEW categories, NEW risk,
         type = "passport" \/ categories \cap {"passport_sybil", "reputation_farming"} # {}
  PROVE  GatesFor(type, categories, risk).test_credit = "blocked" <=> risk \in {"high", "critical"}
<1>1. GatesFor(type, categories, risk).test_credit = AdmissionGateForRisk(risk)
  BY DEF GatesFor
<1>. QED
  BY <1>1 DEF AdmissionGateForRisk

\* Credit is blocked where the risk of the passport or of the owner is high.
LEMMA BlockedIs ==
  ASSUME NEW o \in Owners, NEW p \in Passports
  PROVE  TestCreditGateFor(p, o, Policy) = "blocked" <=>
           \/ AggregateRisk(Bucket(PassportSubject(p))) \in {"high", "critical"}
           \/ AggregateRisk(Bucket(AddressSubject(o))) \in {"high", "critical"}
<1>1. o \in Addresses
  BY DEF Addresses
<1>2. TestCreditGateFor(p, o, Policy) = "blocked" <=>
        \E d \in Policy : /\ d.gates.test_credit = "blocked"
                          /\ \/ d.type = "passport" /\ d.id = p
                             \/ d.type = "address" /\ d.id = o
  BY DEF TestCreditGateFor
<1>3. @ <=> \E x \in Subjects : /\ Decision(x).gates.test_credit = "blocked"
                                /\ \/ x.type = "passport" /\ x.id = p
                                   \/ x.type = "address" /\ x.id = o
  BY DecisionsAre
<1>4. ASSUME NEW x \in Subjects
      PROVE  /\ x.type = "passport" /\ x.id = p <=> x = PassportSubject(p)
             /\ x.type = "address" /\ x.id = o <=> x = AddressSubject(o)
  <2>1. x = [type |-> x.type, id |-> x.id]
    BY SubjectsAre DEF Subjects
  <2>. QED
    BY <2>1 DEF PassportSubject, AddressSubject
<1>5. ASSUME NEW x \in {PassportSubject(p), AddressSubject(o)}, x \in Subjects
      PROVE  Decision(x).gates.test_credit = "blocked"
               <=> AggregateRisk(Bucket(x)) \in {"high", "critical"}
  <2>. DEFINE categories == {s.category : s \in Bucket(x)}
              risk == AggregateRisk(Bucket(x))
  <2>1. x.type = "passport" \/ categories \cap {"passport_sybil", "reputation_farming"} # {}
    <3>1. CASE x = PassportSubject(p)
      BY <3>1 DEF PassportSubject
    <3>2. CASE x = AddressSubject(o)
      <4>1. PICK s \in Bucket(x) : TRUE
        BY <1>5, DecisionsAre
      <4>2. s.category \in {"passport_sybil", "reputation_farming"}
        BY <1>1, <3>2, <4>1, SubjectsAre DEF Bucket
      <4>. QED
        BY <4>1, <4>2
    <3>. QED
      BY <3>1, <3>2
  <2>2. Decision(x).gates = GatesFor(x.type, categories, risk)
    BY DecisionsAre
  <2>. HIDE DEF categories, risk
  <2>3. GatesFor(x.type, categories, risk).test_credit = "blocked" <=> risk \in {"high", "critical"}
    BY <2>1, CreditGate
  <2>. QED
    BY <2>2, <2>3 DEF risk
<1>6. ASSUME NEW x, AggregateRisk(Bucket(x)) \in {"high", "critical"}
      PROVE  x \in Subjects
  BY <1>6, HighRisk, DecisionsAre
<1>. QED
  BY <1>2, <1>3, <1>4, <1>5, <1>6

-----------------------------------------------------------------------------
(* The causes of a block. *)

\* Which signals are of which category.
LEMMA CategoriesAre ==
  ASSUME NEW s \in Signals
  PROVE  /\ s.category = "passport_sybil" <=> \E o \in Owners : Suspect(o) /\ s = SybilSignal(o)
         /\ s.category = "reputation_farming" <=>
              \/ \E c \in Seen : s = FarmingSignal("high", c[2], c, 0)
              \/ \E i \in DOMAIN reputation : \E j \in DOMAIN reputation[i].records :
                   Farms(i, j) /\ s = ListedSignal(i, j)
<1>1. \A o, a : /\ SybilSignal(o).category = "passport_sybil"
              /\ SpamSignal(a).category = "module_spam"
  BY DEF SybilSignal, SpamSignal, Signal
<1>2. /\ \A severity, who, c, nth :
           FarmingSignal(severity, who, c, nth).category = "reputation_farming"
      /\ \A i, j : ListedSignal(i, j).category = "reputation_farming"
  BY DEF FarmingSignal, ListedSignal, Signal
<1>3. CASE s \in ArtifactTamperingSignals \/ s \in ValidatorCollusionSignals
  BY <1>1, <1>2, <1>3, TamperingIs, CollusionIs
<1>4. CASE s \notin ArtifactTamperingSignals /\ s \notin ValidatorCollusionSignals
  BY <1>1, <1>2, <1>4, SignalsAre
<1>. QED
  BY <1>3, <1>4

LEMMA SignalFieldsAre ==
  /\ \A o : /\ SybilSignal(o).severity = IF TooMany(o) THEN "high" ELSE "medium"
           /\ SybilSignal(o).subjects = {o} \cup PassportsByOwner(o)
           /\ SybilSignal(o).link = <<"AgentPassportRegistered", o>>
           /\ SybilSignal(o).category = "passport_sybil"
  /\ \A severity, who, c, nth :
       LET s == FarmingSignal(severity, who, c, nth)
       IN  /\ s.severity = severity /\ s.subjects = {who, c}
           /\ s.link = <<"ChallengeSubmitted", c>> /\ s.nth = nth
           /\ s.category = "reputation_farming"
  BY DEF SybilSignal, FarmingSignal, Signal

\* A passport is named by the signal of its owner only.
LEMMA PassportRisk ==
  ASSUME InputsInv, NEW p \in Passports
  PROVE  AggregateRisk(Bucket(PassportSubject(p))) \in {"high", "critical"}
           <=> TooMany(p[1]) /\ p \in PassportsByOwner(p[1])
<1>. DEFINE B == Bucket(PassportSubject(p))
            o == p[1]
<1>1. ASSUME NEW s
      PROVE  s \in B <=> s = SybilSignal(o) /\ Suspect(o) /\ p \in PassportsByOwner(o)
  <2>1. s \in B <=> s \in Signals /\ p \in s.subjects /\ s.category = "passport_sybil"
    BY SubjectsAre DEF Bucket
  <2>2. s \in B <=> \E u \in Owners : Suspect(u) /\ s = SybilSignal(u) /\ p \in s.subjects
    BY <2>1, CategoriesAre, SignalsAre
  <2>3. ASSUME NEW u \in Owners
        PROVE  p \in SybilSignal(u).subjects <=> u = o /\ p \in PassportsByOwner(u)
    BY OwnersAre, SignalFieldsAre
  <2>4. o \in Owners
    BY OwnersAre
  <2>. QED
    BY <2>2, <2>3, <2>4
<1>2. ~ (Cardinality(Mediums(B)) >= 3)
  <2>1. Mediums(B) \in SUBSET {SybilSignal(o)}
    BY <1>1 DEF Mediums
  <2>2. IsFiniteSet({SybilSignal(o)}) /\ Cardinality({SybilSignal(o)}) = 1
    BY FS_Singleton
  <2>3. Cardinality(Mediums(B)) <= 1 /\ Cardinality(Mediums(B)) \in Nat
    BY <2>1, <2>2, FS_Subset, FS_CardinalityType
  <2>. QED
    BY <2>3
<1>3. (\E s \in B : s.severity \in {"high", "critical"})
        <=> TooMany(o) /\ p \in PassportsByOwner(o)
  <2>1. TooMany(o) => Suspect(o)
    BY DEF TooMany, Suspect
  <2>2. SybilSignal(o).severity = IF TooMany(o) THEN "high" ELSE "medium"
    BY SignalFieldsAre
  <2>. QED
    BY <1>1, <2>1, <2>2
<1>. QED
  BY <1>2, <1>3, HighRisk

\* Where a record is farming it is listed.
LEMMA ListedIs ==
  ASSUME InputsInv, NEW o
  PROVE  \A x : x \in Listed(o) <=>
           \E i \in DOMAIN reputation : \E j \in DOMAIN reputation[i].records :
             x = <<i, j>> /\ reputation[i].owner = o /\ Farms(i, j)
<1>1. ASSUME NEW i \in DOMAIN reputation, NEW j \in DOMAIN reputation[i].records,
             reputation[i].owner = o
      PROVE  Farms(i, j) <=> Own(Record(i, j), o) /\ Record(i, j)[2] # o
  <2>. DEFINE c == Record(i, j)
  <2>1. c \in Args("ChallengeSubmitted") => ReporterKnown(c[1])
    BY DEF InputsInv, ReporterKnown
  <2>. HIDE DEF c
  <2>2. IsFarming(c, o) <=> Own(c, o) /\ c[2] # o
    BY <2>1 DEF IsFarming, Seen, Own
  <2>. QED
    BY <1>1, <2>2 DEF Farms, c
<1>2. ASSUME NEW x
      PROVE  x \in Listed(o) <=>
               \E i \in DOMAIN reputation : \E j \in DOMAIN reputation[i].records :
                 /\ x = <<i, j>> /\ reputation[i].owner = o
                 /\ Own(Record(i, j), o) /\ Record(i, j)[2] # o
  BY DEF Listed, Record
<1>. QED
  BY <1>1, <1>2

\* The values of a function on a finite set are finitely many.
LEMMA ValuesAreFinite ==
  ASSUME NEW S, IsFiniteSet(S), NEW f, DOMAIN f = S, f = [x \in S |-> f[x]]
  PROVE  IsFiniteSet({f[x] : x \in S})
<1>. DEFINE T == {f[x] : x \in S}
<1>1. f \in Surjection(S, T)
  BY DEF Surjection
<1>. QED
  BY <1>1, FS_Surjection

Places == UNION {{i} \X DOMAIN reputation[i].records : i \in DOMAIN reputation}

LEMMA PlacesAreFinite ==
  ASSUME InputsInv
  PROVE  IsFiniteSet(Places)
<1>. DEFINE row == [i \in DOMAIN reputation |-> {i} \X DOMAIN reputation[i].records]
            rows == {row[i] : i \in DOMAIN reputation}
<1>1. IsFiniteSet(DOMAIN reputation)
  <2>1. Len(reputation) \in Nat /\ DOMAIN reputation = 1 .. Len(reputation)
    BY DEF InputsInv, InputTypes
  <2>. QED
    BY <2>1, FS_Interval
<1>2. ASSUME NEW i \in DOMAIN reputation
      PROVE  IsFiniteSet(row[i])
  <2>. DEFINE list == reputation[i].records
  <2>1. list \in Seq(Challenges)
    <3>1. reputation[i] \in ReputationFile
      BY DEF InputsInv, InputTypes
    <3>. QED
      BY <3>1, IdsAssumption DEF ReputationFile
  <2>2. Len(list) \in Nat /\ DOMAIN list = 1 .. Len(list)
    BY <2>1
  <2>3. IsFiniteSet(DOMAIN list)
    BY <2>2, FS_Interval
  <2>4. IsFiniteSet({i})
    BY FS_Singleton
  <2>. QED
    BY <2>3, <2>4, FS_Product
<1>3. IsFiniteSet(rows)
  <2>1. DOMAIN row = DOMAIN reputation /\ row = [i \in DOMAIN reputation |-> row[i]]
    OBVIOUS
  <2>. HIDE DEF row
  <2>. QED
    BY <1>1, <2>1, ValuesAreFinite
<1>4. IsFiniteSet(UNION rows)
  <2>1. \A T \in rows : IsFiniteSet(T)
    BY <1>2
  <2>. HIDE DEF rows
  <2>. QED
    BY <1>3, <2>1, FS_UNION
<1>. QED
  BY <1>4 DEF Places

LEMMA ListedIsFinite ==
  ASSUME InputsInv, NEW o
  PROVE  IsFiniteSet(Listed(o))
<1>1. Listed(o) \in SUBSET Places
  BY ListedIs DEF Places
<1>. QED
  BY <1>1, PlacesAreFinite, FS_Subset

\* An owner is named by the signals of its passports and of its challenges.
LEMMA AddressBucket ==
  ASSUME InputsInv, NEW o \in Owners, NEW s
  PROVE  s \in Bucket(AddressSubject(o)) <=>
           \/ Suspect(o) /\ s = SybilSignal(o)
           \/ \E c \in Seen : c[2] = o /\ s = FarmingSignal("high", o, c, 0)
           \/ \E x \in Listed(o) : s = ListedSignal(x[1], x[2])
<1>1. o \in Addresses /\ o \notin Passports /\ o \notin Challenges
  BY OwnersAre
<1>2. s \in Bucket(AddressSubject(o)) <=>
        /\ s \in Signals /\ o \in s.subjects
        /\ s.category \in {"passport_sybil", "reputation_farming"}
  BY <1>1, SubjectsAre DEF Bucket
<1>3. @ <=> \/ \E u \in Owners : Suspect(u) /\ s = SybilSignal(u) /\ o \in s.subjects
            \/ \E c \in Seen : s = FarmingSignal("high", c[2], c, 0) /\ o \in s.subjects
            \/ \E i \in DOMAIN reputation : \E j \in DOMAIN reputation[i].records :
                 Farms(i, j) /\ s = ListedSignal(i, j) /\ o \in s.subjects
  BY CategoriesAre, SignalsAre
<1>4. ASSUME NEW u \in Owners
      PROVE  o \in SybilSignal(u).subjects <=> u = o
  BY <1>1, OwnersAre, SignalFieldsAre
<1>5. ASSUME NEW c \in Seen
      PROVE  o \in FarmingSignal("high", c[2], c, 0).subjects <=> c[2] = o
  <2>1. c \in Challenges
    BY ArgsAre DEF Seen
  <2>. QED
    BY <1>1, <2>1, SignalFieldsAre
<1>6. ASSUME NEW i \in DOMAIN reputation, NEW j \in DOMAIN reputation[i].records, Farms(i, j)
      PROVE  o \in ListedSignal(i, j).subjects <=> reputation[i].owner = o
  <2>1. Record(i, j) \in Challenges
    BY <1>6, ArgsAre DEF Farms, IsFarming
  <2>2. ListedSignal(i, j).subjects = {reputation[i].owner, Record(i, j)}
    BY SignalFieldsAre DEF ListedSignal
  <2>. QED
    BY <1>1, <2>1, <2>2
<1>7. (\E i \in DOMAIN reputation : \E j \in DOMAIN reputation[i].records :
         Farms(i, j) /\ s = ListedSignal(i, j) /\ reputation[i].owner = o)
        <=> \E x \in Listed(o) : s = ListedSignal(x[1], x[2])
  <2>1. ASSUME NEW i \in DOMAIN reputation, NEW j \in DOMAIN reputation[i].records,
               Farms(i, j), s = ListedSignal(i, j), reputation[i].owner = o
        PROVE  \E x \in Listed(o) : s = ListedSignal(x[1], x[2])
    <3>1. <<i, j>> \in Listed(o)
      BY <2>1, ListedIs
    <3>2. s = ListedSignal(<<i, j>>[1], <<i, j>>[2])
      BY <2>1
    <3>. QED
      BY <3>1, <3>2
  <2>2. ASSUME NEW x \in Listed(o), s = ListedSignal(x[1], x[2])
        PROVE  \E i \in DOMAIN reputation : \E j \in DOMAIN reputation[i].records :
                 Farms(i, j) /\ s = ListedSignal(i, j) /\ reputation[i].owner = o
    <3>1. PICK i \in DOMAIN reputation : \E j \in DOMAIN reputation[i].records :
                 x = <<i, j>> /\ reputation[i].owner = o /\ Farms(i, j)
      BY ListedIs
    <3>2. PICK j \in DOMAIN reputation[i].records :
                 x = <<i, j>> /\ reputation[i].owner = o /\ Farms(i, j)
      BY <3>1
    <3>3. x[1] = i /\ x[2] = j
      BY <3>2
    <3>. QED
      BY <2>2, <3>2, <3>3
  <2>. QED
    BY <2>1, <2>2
<1>. QED
  BY <1>2, <1>3, <1>4, <1>5, <1>6, <1>7

\* The medium signals of an owner with few passports are the causes for a review.
LEMMA ReviewsAre ==
  ASSUME InputsInv, NEW o \in Owners, ~ TooMany(o)
  PROVE  Cardinality(Mediums(Bucket(AddressSubject(o)))) = Reviews(o)
<1>. DEFINE M == Mediums(Bucket(AddressSubject(o)))
            f == [x \in Listed(o) |-> ListedSignal(x[1], x[2])]
            L == {f[x] : x \in Listed(o)}
            sybil == SybilSignal(o)
<1>1. \A i, j : /\ ListedSignal(i, j).severity = "medium" /\ ListedSignal(i, j).nth = <<i, j>>
              /\ ListedSignal(i, j).category = "reputation_farming"
  BY SignalFieldsAre DEF ListedSignal
<1>2. sybil.severity = "medium" /\ sybil.category = "passport_sybil"
  BY SignalFieldsAre
<1>3. \A c : FarmingSignal("high", o, c, 0).severity = "high"
  BY SignalFieldsAre
<1>4. ASSUME NEW s
      PROVE  s \in M <=> (Suspect(o) /\ s = sybil) \/ s \in L
  <2>1. s \in L <=> \E x \in Listed(o) : s = ListedSignal(x[1], x[2])
    OBVIOUS
  <2>. HIDE DEF L, sybil
  <2>2. s \in L => s.severity = "medium"
    BY <1>1, <2>1
  <2>. QED
    BY <1>2, <1>3, <2>1, <2>2, AddressBucket DEF Mediums, sybil
<1>5. IsFiniteSet(Listed(o)) /\ Cardinality(Listed(o)) \in Nat
  BY ListedIsFinite, FS_CardinalityType
<1>6. IsFiniteSet(L) /\ Cardinality(L) = Cardinality(Listed(o))
  <2>1. f \in Surjection(Listed(o), L)
    BY DEF Surjection
  <2>2. ASSUME NEW x \in Listed(o), NEW y \in Listed(o), f[x] = f[y]
        PROVE  x = y
    <3>1. f[x].nth = <<x[1], x[2]>> /\ f[y].nth = <<y[1], y[2]>>
      BY <1>1
    <3>2. x[1] = y[1] /\ x[2] = y[2]
      BY <2>2, <3>1
    <3>3. x = <<x[1], x[2]>> /\ y = <<y[1], y[2]>>
      <4>1. \A z \in Listed(o) : z = <<z[1], z[2]>>
        BY ListedIs
      <4>. QED
        BY <4>1
    <3>. QED
      BY <3>2, <3>3
  <2>3. f \in [Listed(o) -> L]
    OBVIOUS
  <2>. HIDE DEF f, L
  <2>4. f \in Injection(Listed(o), L)
    BY <2>2, <2>3 DEF Injection, IsInjective
  <2>. QED
    BY <1>5, <2>1, <2>4, FS_Surjection
<1>7. sybil \notin L
  BY <1>1, <1>2
<1>8. Suspect(o) <=> Cardinality(PassportsByOwner(o)) >= PassportSybilMedium
  BY DEF Suspect, TooMany
<1>. HIDE DEF L, sybil, M
<1>9. CASE Suspect(o)
  <2>1. M = L \cup {sybil}
    BY <1>4, <1>9
  <2>2. Cardinality(L \cup {sybil}) = Cardinality(L) + 1
    BY <1>6, <1>7, FS_AddElement
  <2>. QED
    BY <1>6, <1>8, <1>9, <2>1, <2>2 DEF Reviews, M
<1>10. CASE ~ Suspect(o)
  <2>1. M = L
    BY <1>4, <1>10
  <2>. QED
    BY <1>5, <1>6, <1>8, <1>10, <2>1 DEF Reviews, M
<1>. QED
  BY <1>9, <1>10

LEMMA AddressRisk ==
  ASSUME InputsInv, NEW o \in Owners
  PROVE  AggregateRisk(Bucket(AddressSubject(o))) \in {"high", "critical"} <=>
           \/ TooMany(o) \/ Reviews(o) >= 3
           \/ \E c \in Challenges : Own(c, o) /\ c[2] = o
<1>. DEFINE B == Bucket(AddressSubject(o))
<1>1. (\E c \in Challenges : Own(c, o) /\ c[2] = o) <=> \E c \in Seen : c[2] = o
  <2>1. ASSUME NEW c \in Args("ChallengeSubmitted")
        PROVE  c \in Challenges /\ ReporterKnown(c[1])
    BY ArgsAre DEF InputsInv, ReporterKnown
  <2>. QED
    BY <2>1 DEF Own, Seen
<1>2. \A i, j : ListedSignal(i, j).severity = "medium"
  BY SignalFieldsAre DEF ListedSignal
<1>3. TooMany(o) => Suspect(o)
  BY DEF TooMany, Suspect
<1>4. (\E s \in B : s.severity \in {"high", "critical"})
        <=> TooMany(o) \/ \E c \in Seen : c[2] = o
  <2>1. ASSUME NEW s \in B, s.severity \in {"high", "critical"}
        PROVE  TooMany(o) \/ \E c \in Seen : c[2] = o
    BY <1>2, <2>1, AddressBucket, SignalFieldsAre
  <2>2. ASSUME TooMany(o)
        PROVE  SybilSignal(o) \in B /\ SybilSignal(o).severity = "high"
    BY <1>3, <2>2, AddressBucket, SignalFieldsAre
  <2>3. ASSUME NEW c \in Seen, c[2] = o
        PROVE  /\ FarmingSignal("high", o, c, 0) \in B
               /\ FarmingSignal("high", o, c, 0).severity = "high"
    BY <2>3, AddressBucket, SignalFieldsAre
  <2>. QED
    BY <2>1, <2>2, <2>3
<1>. QED
  BY <1>1, <1>4, ReviewsAre, HighRisk

\* Test credit is blocked for the causes that are named and for no other, and a report is
\* linked with the log it was made from.
THEOREM PolicyHasGrounds == Spec => []PolicyIsGrounded
<1>1. InputsInv => BlockedForCause
  <2>. SUFFICES ASSUME InputsInv, NEW o \in Owners, NEW p \in Passports
                PROVE  TestCreditGateFor(p, o, Policy) = "blocked" <=>
                         \/ TooMany(o) \/ Reviews(o) >= 3
                         \/ \E c \in Challenges : Own(c, o) /\ c[2] = o
                         \/ TooMany(p[1]) /\ p \in PassportsByOwner(p[1])
    BY DEF BlockedForCause
  <2>. QED
    BY BlockedIs, PassportRisk, AddressRisk
<1>2. InputsInv => PolicyIsGrounded
  BY <1>1, ReportsAreLinked DEF PolicyIsGrounded
<1>. QED
  BY <1>2, InputsInductive, PTL

-----------------------------------------------------------------------------
(* Gates are never loosened. *)

\* A signal that says of as many subjects as much.
Counterpart(s, t) ==
  /\ t.category = s.category /\ s.subjects \subseteq t.subjects
  /\ RiskRank(s.severity) <= RiskRank(t.severity)
  /\ t.link = s.link /\ t.nth = s.nth

\* Signals that have three things in common: each severity is one, what is of medium
\* severity is told apart by link and number, and is finite.
SignalsHold(signals) ==
  /\ \A s \in signals : s.severity \in Severities
  /\ IsFiniteSet(Mediums(signals))
  /\ \A s, t \in Mediums(signals) : s.link = t.link /\ s.nth = t.nth => s = t

LEMMA RiskGrows ==
  ASSUME NEW S, NEW T, SignalsHold(S), SignalsHold(T),
         \A s \in S : \E t \in T : Counterpart(s, t)
  PROVE  RiskRank(AggregateRisk(S)) <= RiskRank(AggregateRisk(T))
<1>. DEFINE low == RiskRank(AggregateRisk(S))
            up == RiskRank(AggregateRisk(T))
<1>1. /\ low \in 1 .. 4
      /\ \/ low = 1
         \/ \E s \in S : RiskRank(s.severity) = low
         \/ low = 3 /\ Cardinality(Mediums(S)) >= 3
  BY RiskIs DEF SignalsHold
<1>2. /\ up \in 1 .. 4 /\ \A t \in T : RiskRank(t.severity) <= up
      /\ Cardinality(Mediums(T)) >= 3 => up >= 3
  BY RiskIs DEF SignalsHold
<1>. HIDE DEF low, up
<1>3. \A s \in S \cup T : RiskRank(s.severity) \in 1 .. 4
  BY RanksAre DEF SignalsHold, Severities
<1>4. ASSUME NEW s \in S
      PROVE  RiskRank(s.severity) <= up
  <2>1. PICK t \in T : RiskRank(s.severity) <= RiskRank(t.severity)
    BY DEF Counterpart
  <2>2. RiskRank(t.severity) <= up /\ RiskRank(s.severity) \in 1 .. 4 /\ RiskRank(t.severity) \in 1 .. 4
    BY <1>2, <1>3
  <2>. QED
    BY <1>2, <2>1, <2>2
<1>5. CASE low = 3 /\ Cardinality(Mediums(S)) >= 3
  <2>1. CASE \E t \in T : t.severity # "medium" /\ \E s \in Mediums(S) : Counterpart(s, t)
    <3>1. PICK t \in T : t.severity # "medium"
      BY <2>1
    <3>2. RiskRank(t.severity) >= 3
      BY <3>1, RanksAre DEF SignalsHold, Severities
    <3>3. RiskRank(t.severity) <= up /\ RiskRank(t.severity) \in 1 .. 4
      BY <1>2, <1>3
    <3>. QED
      BY <1>2, <1>5, <3>2, <3>3 DEF low, up
  <2>2. CASE ~ \E t \in T : t.severity # "medium" /\ \E s \in Mediums(S) : Counterpart(s, t)
    <3>. DEFINE f == [s \in Mediums(S) |-> CHOOSE t \in T : Counterpart(s, t)]
    <3>1. ASSUME NEW s \in Mediums(S)
          PROVE  f[s] \in Mediums(T) /\ Counterpart(s, f[s])
      <4>1. \E t \in T : Counterpart(s, t)
        BY DEF Mediums
      <4>2. f[s] \in T /\ Counterpart(s, f[s])
        BY <4>1
      <4>. QED
        BY <2>2, <4>2 DEF Mediums
    <3>2. ASSUME NEW s \in Mediums(S), NEW t \in Mediums(S), f[s] = f[t]
          PROVE  s = t
      <4>1. s.link = t.link /\ s.nth = t.nth
        BY <3>1, <3>2 DEF Counterpart
      <4>. QED
        BY <4>1 DEF SignalsHold
    <3>3. f \in [Mediums(S) -> Mediums(T)]
      BY <3>1
    <3>. HIDE DEF f
    <3>4. f \in Injection(Mediums(S), Mediums(T))
      BY <3>2, <3>3 DEF Injection, IsInjective
    <3>5. Cardinality(Mediums(S)) <= Cardinality(Mediums(T)) /\ IsFiniteSet(Mediums(S))
      BY <3>4, FS_Injection DEF SignalsHold
    <3>6. Cardinality(Mediums(S)) \in Nat /\ Cardinality(Mediums(T)) \in Nat
      BY <3>5, FS_CardinalityType DEF SignalsHold
    <3>7. Cardinality(Mediums(T)) >= 3
      BY <1>5, <3>5, <3>6
    <3>. QED
      BY <1>2, <1>5, <3>7 DEF low, up
  <2>. QED
    BY <2>1, <2>2
<1>. QED
  BY <1>1, <1>2, <1>4, <1>5 DEF low, up

LEMMA GatesTighten ==
  ASSUME NEW type, NEW few, NEW many, few \subseteq many,
         NEW risk, NEW higher, RiskRank(risk) <= RiskRank(higher),
         {risk, higher} \subseteq {"low", "medium", "high", "critical"}
  PROVE  LET gates == GatesFor(type, few, risk)
             later == GatesFor(type, many, higher)
         IN  \A gate \in DOMAIN gates : Strictness(later[gate]) >= Strictness(gates[gate])
<1>. DEFINE Where(types, named, gate, categories) ==
              IF type \in types \/ categories \cap named # {} THEN gate ELSE "not_applicable"
<1>1. ASSUME NEW types, NEW named, NEW gate, NEW stricter,
             Strictness(gate) \in 0 .. 3, Strictness(stricter) \in 0 .. 3,
             Strictness(stricter) >= Strictness(gate)
      PROVE  Strictness(Where(types, named, stricter, many))
               >= Strictness(Where(types, named, gate, few))
  <2>1. few \cap named # {} => many \cap named # {}
    OBVIOUS
  <2>2. Strictness("not_applicable") = 0
    BY DEF Strictness
  <2>. QED
    BY <1>1, <2>1, <2>2
<1>2. /\ Strictness("eligible") = 1 /\ Strictness("normal") = 1 /\ Strictness("accepted") = 1
      /\ Strictness("manual_review") = 2 /\ Strictness("capped") = 2
      /\ Strictness("blocked") = 3 /\ Strictness("zeroed") = 3 /\ Strictness("quarantined") = 3
  BY DEF Strictness
<1>3. /\ Strictness(AdmissionGateForRisk(risk)) \in 0 .. 3
      /\ Strictness(AdmissionGateForRisk(higher)) \in 0 .. 3
      /\ Strictness(AdmissionGateForRisk(higher)) >= Strictness(AdmissionGateForRisk(risk))
  BY <1>2, RanksAre DEF AdmissionGateForRisk
<1>4. /\ Strictness(ValidatorGateForRisk(risk)) \in 0 .. 3
      /\ Strictness(ValidatorGateForRisk(higher)) \in 0 .. 3
      /\ Strictness(ValidatorGateForRisk(higher)) >= Strictness(ValidatorGateForRisk(risk))
  BY <1>2, RanksAre DEF ValidatorGateForRisk
<1>5. /\ Strictness(ArtifactGateForRisk(risk)) \in 0 .. 3
      /\ Strictness(ArtifactGateForRisk(higher)) \in 0 .. 3
      /\ Strictness(ArtifactGateForRisk(higher)) >= Strictness(ArtifactGateForRisk(risk))
  BY <1>2, RanksAre DEF ArtifactGateForRisk
<1>. HIDE DEF Where
<1>6. ASSUME NEW categories, NEW r
      PROVE  GatesFor(type, categories, r) =
               [test_credit |-> Where({"passport"}, {"passport_sybil", "reputation_farming"},
                                      AdmissionGateForRisk(r), categories),
                module_recommendation |-> Where({"module_submitter"}, {"module_spam"},
                                                AdmissionGateForRisk(r), categories),
                validator_weight |-> Where({"validator"}, {"validator_collusion"},
                                           ValidatorGateForRisk(r), categories),
                artifact_handling |-> Where({"artifact_set"}, {"artifact_tampering"},
                                            ArtifactGateForRisk(r), categories)]
  BY DEF GatesFor, Where
<1>7. ASSUME NEW gate \in {"test_credit", "module_recommendation", "validator_weight",
                          "artifact_handling"}
      PROVE  Strictness(GatesFor(type, many, higher)[gate])
               >= Strictness(GatesFor(type, few, risk)[gate])
  BY <1>1, <1>3, <1>4, <1>5, <1>6
<1>8. DOMAIN GatesFor(type, few, risk) = {"test_credit", "module_recommendation",
                                          "validator_weight", "artifact_handling"}
  BY <1>6
<1>. QED
  BY <1>7, <1>8

LEMMA PolicyTightens ==
  ASSUME NEW S, NEW T, SignalsHold(S), SignalsHold(T),
         \A s \in S : \E t \in T : Counterpart(s, t)
  PROVE  Tighten(EvaluateTrustPolicy(S), EvaluateTrustPolicy(T))
<1>1. ASSUME NEW s, NEW t, Counterpart(s, t)
      PROVE  SubjectsForSignal(s) \subseteq SubjectsForSignal(t)
  BY <1>1 DEF Counterpart, SubjectsForSignal
<1>2. ASSUME NEW x \in UNION {SubjectsForSignal(s) : s \in S}
      PROVE  \E e \in EvaluateTrustPolicy(T) :
               LET d == BucketToDecision(x, S)
               IN  /\ e.type = d.type /\ e.id = d.id
                   /\ \A gate \in DOMAIN d.gates :
                        Strictness(e.gates[gate]) >= Strictness(d.gates[gate])
  <2>. DEFINE B == {s \in S : x \in SubjectsForSignal(s)}
              C == {t \in T : x \in SubjectsForSignal(t)}
              few == {s.category : s \in B}
              many == {t.category : t \in C}
              d == BucketToDecision(x, S)
              e == BucketToDecision(x, T)
  <2>1. \A s \in B : \E t \in C : Counterpart(s, t)
    BY <1>1
  <2>2. SignalsHold(B) /\ SignalsHold(C)
    <3>1. ASSUME NEW U, SignalsHold(U), NEW V \in SUBSET U
          PROVE  SignalsHold(V)
      <4>1. Mediums(V) \in SUBSET Mediums(U)
        BY DEF Mediums
      <4>2. IsFiniteSet(Mediums(V))
        BY <3>1, <4>1, FS_Subset DEF SignalsHold
      <4>. QED
        BY <3>1, <4>1, <4>2 DEF SignalsHold
    <3>. QED
      BY <3>1
  <2>3. x \in UNION {SubjectsForSignal(t) : t \in T}
    <3>1. PICK s \in S : x \in SubjectsForSignal(s)
      OBVIOUS
    <3>2. PICK t \in T : Counterpart(s, t)
      OBVIOUS
    <3>. QED
      BY <1>1, <3>1, <3>2
  <2>4. e \in EvaluateTrustPolicy(T)
    BY <2>3 DEF EvaluateTrustPolicy
  <2>5. few \subseteq many
    BY <2>1 DEF Counterpart
  <2>6. /\ d.type = x.type /\ d.id = x.id /\ d.gates = GatesFor(x.type, few, AggregateRisk(B))
        /\ e.type = x.type /\ e.id = x.id /\ e.gates = GatesFor(x.type, many, AggregateRisk(C))
    BY DEF BucketToDecision
  <2>. HIDE DEF B, C, few, many, d, e
  <2>7. RiskRank(AggregateRisk(B)) <= RiskRank(AggregateRisk(C))
    BY <2>1, <2>2, RiskGrows
  <2>8. {AggregateRisk(B), AggregateRisk(C)} \subseteq {"low", "medium", "high", "critical"}
    BY <2>2, RiskIs DEF SignalsHold
  <2>9. \A gate \in DOMAIN d.gates : Strictness(e.gates[gate]) >= Strictness(d.gates[gate])
    BY <2>5, <2>6, <2>7, <2>8, GatesTighten
  <2>. QED
    BY <2>4, <2>6, <2>9 DEF d
<1>. QED
  BY <1>2 DEF Tighten, EvaluateTrustPolicy

\* The signals of any log and files.
LEMMA SignalsAreFit ==
  ASSUME InputsInv
  PROVE  SignalsHold(Signals)
<1>. DEFINE M == Mediums(Signals)
            sybil == [o \in Owners |-> SybilSignal(o)]
            listed == [x \in Places |-> ListedSignal(x[1], x[2])]
            K == {sybil[o] : o \in Owners} \cup {listed[x] : x \in Places}
<1>1. ASSUME NEW s \in M
      PROVE  \/ \E o \in Owners : s = SybilSignal(o)
             \/ \E i \in DOMAIN reputation : \E j \in DOMAIN reputation[i].records :
                  s = ListedSignal(i, j)
  <2>1. s \in Signals /\ s.severity = "medium"
    BY DEF Mediums
  <2>2. s \notin ArtifactTamperingSignals /\ s \notin ValidatorCollusionSignals
    BY <2>1, TamperingIs, CollusionIs
  <2>3. /\ \A c : FarmingSignal("high", c[2], c, 0).severity = "high"
        /\ \A a : SpamSignal(a).severity = "high"
    BY DEF FarmingSignal, SpamSignal, Signal
  <2>. QED
    BY <2>1, <2>2, <2>3, SignalsAre
<1>2. IsFiniteSet(Owners)
  <2>. DEFINE first == [p \in Passports |-> p[1]]
  <2>1. DOMAIN first = Passports /\ first = [p \in Passports |-> first[p]]
    OBVIOUS
  <2>2. Owners = {first[p] : p \in Passports}
    BY DEF Owners
  <2>. HIDE DEF first
  <2>. QED
    BY <2>1, <2>2, ValuesAreFinite, IdsAssumption
<1>3. IsFiniteSet(K)
  <2>1. DOMAIN sybil = Owners /\ sybil = [o \in Owners |-> sybil[o]]
    OBVIOUS
  <2>2. DOMAIN listed = Places /\ listed = [x \in Places |-> listed[x]]
    OBVIOUS
  <2>. HIDE DEF sybil, listed
  <2>3. IsFiniteSet({sybil[o] : o \in Owners})
    BY <1>2, <2>1, ValuesAreFinite
  <2>4. IsFiniteSet({listed[x] : x \in Places})
    BY <2>2, PlacesAreFinite, ValuesAreFinite
  <2>. QED
    BY <2>3, <2>4, FS_Union
<1>4. M \in SUBSET K
  <2>1. ASSUME NEW o \in Owners
        PROVE  SybilSignal(o) \in K
    BY DEF K
  <2>2. ASSUME NEW i \in DOMAIN reputation, NEW j \in DOMAIN reputation[i].records
        PROVE  ListedSignal(i, j) \in K
    <3>1. <<i, j>> \in Places
      BY DEF Places
    <3>2. listed[<<i, j>>] = ListedSignal(i, j)
      BY <3>1
    <3>. QED
      BY <3>1, <3>2
  <2>. HIDE DEF K, M
  <2>. QED
    BY <1>1, <2>1, <2>2
<1>. HIDE DEF K
<1>5. IsFiniteSet(M)
  BY <1>3, <1>4, FS_Subset
<1>6. ASSUME NEW s \in M, NEW t \in M, s.link = t.link, s.nth = t.nth
      PROVE  s = t
  <2>1. \A o : SybilSignal(o).link = <<"AgentPassportRegistered", o>>
    BY SignalFieldsAre
  <2>2. \A i, j : /\ ListedSignal(i, j).link = <<"ChallengeSubmitted", Record(i, j)>>
                /\ ListedSignal(i, j).nth = <<i, j>>
    BY SignalFieldsAre DEF ListedSignal
  <2>3. \A o, i, j : SybilSignal(o).link # ListedSignal(i, j).link
    BY <2>1, <2>2
  <2>4. CASE \E o \in Owners : s = SybilSignal(o)
    <3>1. PICK o \in Owners : s = SybilSignal(o)
      BY <2>4
    <3>2. PICK u \in Owners : t = SybilSignal(u)
      BY <1>1, <1>6, <2>3, <3>1
    <3>3. <<"AgentPassportRegistered", o>> = <<"AgentPassportRegistered", u>>
      BY <1>6, <2>1, <3>1, <3>2
    <3>. QED
      BY <3>1, <3>2, <3>3
  <2>5. CASE ~ \E o \in Owners : s = SybilSignal(o)
    <3>1. PICK i \in DOMAIN reputation : \E j \in DOMAIN reputation[i].records :
                 s = ListedSignal(i, j)
      BY <1>1, <2>5
    <3>2. PICK j \in DOMAIN reputation[i].records : s = ListedSignal(i, j)
      BY <3>1
    <3>3. PICK k \in DOMAIN reputation : \E l \in DOMAIN reputation[k].records :
                 t = ListedSignal(k, l)
      BY <1>1, <1>6, <2>3, <3>2
    <3>4. PICK l \in DOMAIN reputation[k].records : t = ListedSignal(k, l)
      BY <3>3
    <3>5. <<i, j>> = <<k, l>>
      BY <1>6, <2>2, <3>2, <3>4
    <3>. QED
      BY <3>2, <3>4, <3>5
  <2>. QED
    BY <2>4, <2>5
<1>. QED
  BY <1>5, <1>6, SeveritiesAre DEF SignalsHold

\* What holds of the signals of one state, to be had of the next.
SignalFacts ==
  /\ SignalsHold(Signals)
  /\ \A a : MaxWindow(a) >= ModuleSpamHigh
           <=> \E first \in 1 .. MaxBlock : Cardinality(Burst(a, first)) >= ModuleSpamHigh
  /\ \A s : s \in Signals <=>
       \/ s \in ArtifactTamperingSignals
       \/ \E o \in Owners : Suspect(o) /\ s = SybilSignal(o)
       \/ \E a \in Submitters : MaxWindow(a) >= ModuleSpamHigh /\ s = SpamSignal(a)
       \/ s \in ValidatorCollusionSignals
       \/ \E c \in Seen : s = FarmingSignal("high", c[2], c, 0)
       \/ \E i \in DOMAIN reputation : \E j \in DOMAIN reputation[i].records :
            Farms(i, j) /\ s = ListedSignal(i, j)

LEMMA FactsHold == InputsInv => SignalFacts
  BY SignalsAreFit, SpamIsABurst, SignalsAre DEF SignalFacts

LEMMA FactsHoldNext == InputsInv' => SignalFacts'
<1>1. (InputsInv => SignalFacts)'
  BY FactsHold, PTL
<1>. QED
  BY <1>1

\* Owners stay suspect, and their signals grow.
LEMMA SybilStays ==
  ASSUME InputsInv, InputsInv', InputsGrow, NEW o \in Owners
  PROVE  /\ Suspect(o) => Suspect(o)'
         /\ Counterpart(SybilSignal(o), SybilSignal(o)')
<1>1. PassportsByOwner(o) \subseteq PassportsByOwner(o)'
  <2>1. Args("AgentPassportRegistered") \subseteq Args("AgentPassportRegistered")'
    BY DEF Args, InputsGrow
  <2>. QED
    BY <2>1 DEF PassportsByOwner, InputsGrow
<1>2. IsFiniteSet(PassportsByOwner(o)')
  <2>1. passports' \subseteq Passports /\ \A i \in DOMAIN events' : events'[i] \in Event
    BY DEF InputsInv, InputTypes
  <2>2. PassportsByOwner(o)' \in SUBSET Passports
    BY <2>1, EventsAre DEF PassportsByOwner, Args
  <2>. QED
    BY <2>2, IdsAssumption, FS_Subset
<1>. DEFINE few == PassportsByOwner(o)
            many == PassportsByOwner(o)'
<1>. HIDE DEF few, many
<1>3. /\ Cardinality(few) \in Nat /\ Cardinality(many) \in Nat
      /\ Cardinality(few) <= Cardinality(many)
  BY <1>1, <1>2, FS_Subset, FS_CardinalityType DEF few, many
<1>4. {PassportSybilHigh, PassportSybilMedium} \subseteq Nat
  BY ThresholdsAssumption
<1>5. /\ Cardinality(few) >= PassportSybilHigh => Cardinality(many) >= PassportSybilHigh
      /\ Cardinality(few) >= PassportSybilMedium => Cardinality(many) >= PassportSybilMedium
  BY <1>3, <1>4
<1>6. Suspect(o) => Suspect(o)'
  BY <1>5 DEF Suspect, few, many
<1>7. TooMany(o) => TooMany(o)'
  BY <1>5 DEF TooMany, few, many
<1>8. Counterpart(SybilSignal(o), SybilSignal(o)')
  <2>1. RiskRank(SybilSignal(o).severity) <= RiskRank(SybilSignal(o)'.severity)
    BY <1>7, RanksAre DEF SybilSignal, Signal
  <2>. QED
    BY <1>1, <2>1 DEF Counterpart, SybilSignal, Signal
<1>. QED
  BY <1>6, <1>8

\* A signal is its own counterpart.
LEMMA OwnCounterpart ==
  ASSUME NEW s, s.severity \in Severities
  PROVE  Counterpart(s, s)
<1>1. RiskRank(s.severity) \in Nat
  BY RanksAre DEF Severities
<1>. QED
  BY <1>1 DEF Counterpart

\* Reporters who share a mark go on sharing it.
LEMMA CollusionStays ==
  ASSUME InputsInv, InputsInv', InputsGrow, NEW marks, NEW mark, NEW later,
         DOMAIN mark = DOMAIN evidence, DOMAIN later = DOMAIN evidence',
         \A i \in DOMAIN mark : later[i] = mark[i],
         NEW s \in CollusionSignals(mark, marks)
  PROVE  \E t \in CollusionSignals(later, marks)' : Counterpart(s, t)
<1>. DEFINE At(m) == {i \in DOMAIN mark : mark[i] = m}
            LaterAt(m) == {i \in DOMAIN later : later[i] = m}
            Reporting(m) == {evidence[i].id[1] : i \in At(m)}
            LaterReporting(m) == {evidence'[i].id[1] : i \in LaterAt(m)}
<1>1. PICK m \in marks : /\ Cardinality(Reporting(m)) >= ValidatorCollusionHigh
                        /\ s = Signal("high", "validator_collusion", {m} \cup Reporting(m), <<>>, 0)
  BY DEF CollusionSignals
<1>2. At(m) \subseteq LaterAt(m) /\ \A i \in At(m) : evidence'[i] = evidence[i]
  BY DEF InputsGrow
<1>3. Reporting(m) \subseteq LaterReporting(m)
  BY <1>2
<1>4. IsFiniteSet(LaterReporting(m))
  <2>. DEFINE reporter == [i \in LaterAt(m) |-> evidence'[i].id[1]]
  <2>1. Len(evidence') \in Nat /\ DOMAIN evidence' = 1 .. Len(evidence')
    BY DEF InputsInv, InputTypes
  <2>2. IsFiniteSet(DOMAIN evidence')
    BY <2>1, FS_Interval
  <2>3. IsFiniteSet(LaterAt(m))
    <3>1. LaterAt(m) \in SUBSET DOMAIN evidence'
      OBVIOUS
    <3>. HIDE DEF LaterAt
    <3>. QED
      BY <2>2, <3>1, FS_Subset
  <2>4. DOMAIN reporter = LaterAt(m) /\ reporter = [i \in LaterAt(m) |-> reporter[i]]
    OBVIOUS
  <2>5. LaterReporting(m) = {reporter[i] : i \in LaterAt(m)}
    OBVIOUS
  <2>. HIDE DEF reporter, LaterAt, LaterReporting
  <2>. QED
    BY <2>3, <2>4, <2>5, ValuesAreFinite
<1>5. Cardinality(LaterReporting(m)) >= ValidatorCollusionHigh
  <2>. HIDE DEF Reporting, LaterReporting
  <2>1. /\ IsFiniteSet(Reporting(m))
        /\ Cardinality(Reporting(m)) <= Cardinality(LaterReporting(m))
    BY <1>3, <1>4, FS_Subset
  <2>2. Cardinality(Reporting(m)) \in Nat /\ Cardinality(LaterReporting(m)) \in Nat
    BY <1>4, <2>1, FS_CardinalityType
  <2>3. ValidatorCollusionHigh \in Nat
    BY ThresholdsAssumption
  <2>. QED
    BY <1>1, <2>1, <2>2, <2>3
<1>. DEFINE t == Signal("high", "validator_collusion", {m} \cup LaterReporting(m), <<>>, 0)
<1>6. t \in CollusionSignals(later, marks)'
  BY <1>5 DEF CollusionSignals
<1>7. Counterpart(s, t)
  <2>1. RiskRank("high") <= RiskRank("high")
    BY RanksAre
  <2>. HIDE DEF Reporting, LaterReporting
  <2>. QED
    BY <1>1, <1>3, <2>1 DEF Counterpart, Signal
<1>. QED
  BY <1>6, <1>7

\* Records that farm reputation go on doing so.
LEMMA FarmingStays ==
  ASSUME InputsInv, InputsInv', InputsGrow
  PROVE  /\ Seen \subseteq Seen'
         /\ \A i, j : Farms(i, j) => /\ Farms(i, j)' /\ ListedSignal(i, j)' = ListedSignal(i, j)
                                     /\ j \in DOMAIN reputation'[i].records
                                     /\ i \in DOMAIN reputation'
<1>1. \A name : Args(name) \subseteq Args(name)'
  BY DEF Args, InputsGrow
<1>2. ASSUME NEW e, ReporterKnown(e)
      PROVE  ReporterKnown(e)'
  BY <1>1, <1>2 DEF ReporterKnown, InputsGrow
<1>3. Seen \subseteq Seen'
  BY <1>1, <1>2 DEF Seen
<1>4. ASSUME NEW c, NEW o, IsFarming(c, o)
      PROVE  IsFarming(c, o)'
  BY <1>1, <1>2, <1>4 DEF IsFarming, Seen
<1>5. ASSUME NEW i, NEW j, Farms(i, j)
      PROVE  /\ Farms(i, j)' /\ ListedSignal(i, j)' = ListedSignal(i, j)
             /\ j \in DOMAIN reputation'[i].records /\ i \in DOMAIN reputation'
  <2>1. /\ i \in DOMAIN reputation' /\ reputation'[i] = reputation[i]
        /\ j \in DOMAIN reputation'[i].records
    BY <1>5 DEF Farms, InputsGrow
  <2>2. PICK c, o : c = reputation[i].records[j] /\ o = reputation[i].owner
    OBVIOUS
  <2>3. IsFarming(c, o)'
    <3>1. IsFarming(c, o)
      BY <1>5, <2>2 DEF Farms, Record
    <3>. QED
      BY <1>4, <3>1
  <2>4. ListedSignal(i, j)' = ListedSignal(i, j)
    BY <2>1 DEF ListedSignal, FarmingSignal, Record, Signal
  <2>. QED
    BY <2>1, <2>2, <2>3, <2>4 DEF Farms, Record
<1>. QED
  BY <1>3, <1>5

\* Bursts stay, and grow.
LEMMA BurstsStay ==
  ASSUME InputsInv', InputsGrow, NEW a, NEW first, Cardinality(Burst(a, first)) >= ModuleSpamHigh
  PROVE  Cardinality(Burst(a, first)') >= ModuleSpamHigh
<1>. DEFINE few == Burst(a, first)
            many == Burst(a, first)'
<1>1. few \subseteq many
  BY DEF Burst, InputsGrow
<1>2. IsFiniteSet(many)
  <2>1. Len(events') \in Nat /\ DOMAIN events' = 1 .. Len(events')
    BY DEF InputsInv, InputTypes
  <2>2. IsFiniteSet(DOMAIN events')
    BY <2>1, FS_Interval
  <2>3. many \in SUBSET DOMAIN events'
    BY DEF Burst
  <2>. HIDE DEF many
  <2>. QED
    BY <2>2, <2>3, FS_Subset
<1>. HIDE DEF few, many
<1>3. /\ Cardinality(few) \in Nat /\ Cardinality(many) \in Nat
      /\ Cardinality(few) <= Cardinality(many)
  BY <1>1, <1>2, FS_Subset, FS_CardinalityType
<1>4. ModuleSpamHigh \in Nat
  BY ThresholdsAssumption
<1>. QED
  BY <1>3, <1>4 DEF few, many

\* What is reported goes on being reported, as strictly.
LEMMA SignalsStay ==
  ASSUME InputsInv, InputsInv', InputsGrow, NEW s \in Signals
  PROVE  \E t \in Signals' : Counterpart(s, t)
<1>. USE DEF SignalFacts
<1>1. SignalFacts /\ SignalFacts'
  BY FactsHold, FactsHoldNext
<1>2. Counterpart(s, s)
  BY SeveritiesAre, OwnCounterpart
<1>3. CASE s \in ArtifactTamperingSignals
  <2>1. s \in ArtifactTamperingSignals'
    BY <1>3 DEF ArtifactTamperingSignals, InputsGrow
  <2>. QED
    BY <1>1, <1>2, <2>1
<1>4. ASSUME NEW o \in Owners, Suspect(o), s = SybilSignal(o)
      PROVE  \E t \in Signals' : Counterpart(s, t)
  <2>1. Suspect(o)' /\ Counterpart(s, SybilSignal(o)')
    BY <1>4, SybilStays
  <2>2. SybilSignal(o)' \in Signals'
    BY <1>1, <2>1
  <2>. QED
    BY <2>1, <2>2
<1>5. ASSUME NEW a \in Submitters, MaxWindow(a) >= ModuleSpamHigh, s = SpamSignal(a)
      PROVE  \E t \in Signals' : Counterpart(s, t)
  <2>1. PICK first \in 1 .. MaxBlock : Cardinality(Burst(a, first)) >= ModuleSpamHigh
    BY <1>1, <1>5
  <2>2. Cardinality(Burst(a, first)') >= ModuleSpamHigh
    BY <2>1, BurstsStay
  <2>3. MaxWindow(a)' >= ModuleSpamHigh
    BY <1>1, <2>2
  <2>4. s \in Signals'
    BY <1>1, <1>5, <2>3
  <2>. QED
    BY <1>2, <2>4
<1>6. CASE s \in ValidatorCollusionSignals
  <2>. DEFINE group == [i \in DOMAIN evidence |-> evidence[i].operatorGroup]
              runner == [i \in DOMAIN evidence |-> evidence[i].runner]
              laterGroup == [i \in DOMAIN evidence' |-> evidence'[i].operatorGroup]
              laterRunner == [i \in DOMAIN evidence' |-> evidence'[i].runner]
  <2>1. \E t \in ValidatorCollusionSignals' : Counterpart(s, t)
    <3>1. /\ DOMAIN group = DOMAIN evidence /\ DOMAIN runner = DOMAIN evidence
          /\ DOMAIN laterGroup = DOMAIN evidence' /\ DOMAIN laterRunner = DOMAIN evidence'
          /\ \A i \in DOMAIN group : laterGroup[i] = group[i]
          /\ \A i \in DOMAIN runner : laterRunner[i] = runner[i]
      BY DEF InputsGrow
    <3>2. s \in CollusionSignals(group, Groups) \cup CollusionSignals(runner, Runners)
      BY <1>6 DEF ValidatorCollusionSignals
    <3>3. PICK g, r, lg, lr : g = group /\ r = runner /\ lg = laterGroup /\ lr = laterRunner
      OBVIOUS
    <3>4. CASE s \in CollusionSignals(g, Groups)
      <4>1. PICK t \in CollusionSignals(lg, Groups)' : Counterpart(s, t)
        BY <3>1, <3>3, <3>4, CollusionStays
      <4>. QED
        BY <3>3, <4>1 DEF ValidatorCollusionSignals
    <3>5. CASE s \in CollusionSignals(r, Runners)
      <4>1. PICK t \in CollusionSignals(lr, Runners)' : Counterpart(s, t)
        BY <3>1, <3>3, <3>5, CollusionStays
      <4>. QED
        BY <3>3, <4>1 DEF ValidatorCollusionSignals
    <3>. QED
      BY <3>2, <3>3, <3>4, <3>5
  <2>2. PICK t \in ValidatorCollusionSignals' : Counterpart(s, t)
    BY <2>1
  <2>. QED
    BY <1>1, <2>2
<1>7. ASSUME NEW c \in Seen, s = FarmingSignal("high", c[2], c, 0)
      PROVE  \E t \in Signals' : Counterpart(s, t)
  <2>1. c \in Seen'
    BY FarmingStays
  <2>2. s \in Signals'
    BY <1>1, <1>7, <2>1
  <2>. QED
    BY <1>2, <2>2
<1>8. ASSUME NEW i \in DOMAIN reputation, NEW j \in DOMAIN reputation[i].records,
             Farms(i, j), s = ListedSignal(i, j)
      PROVE  \E t \in Signals' : Counterpart(s, t)
  <2>1. /\ Farms(i, j)' /\ s = ListedSignal(i, j)'
        /\ i \in DOMAIN reputation' /\ j \in DOMAIN reputation'[i].records
    BY <1>8, FarmingStays
  <2>2. s \in Signals'
    BY <1>1, <2>1
  <2>. QED
    BY <1>2, <2>2
<1>. QED
  BY <1>1, <1>3, <1>4, <1>5, <1>6, <1>7, <1>8

\* Whatever else becomes known, no decision is dropped and none of its gates is loosened.
THEOREM GatesStayTight == Spec => GatesOnlyTighten
<1>1. ASSUME InputsInv, [Next]_vars
      PROVE  Tighten(Policy, Policy')
  <2>1. InputsInv' /\ InputsGrow
    BY <1>1, InputsStep
  <2>2. SignalsHold(Signals) /\ SignalsHold(Signals')
    BY <1>1, <2>1, FactsHold, FactsHoldNext DEF SignalFacts
  <2>3. \A s \in Signals : \E t \in Signals' : Counterpart(s, t)
    BY <1>1, <2>1, SignalsStay
  <2>4. PICK few, many : few = Signals /\ many = Signals'
    OBVIOUS
  <2>5. Tighten(EvaluateTrustPolicy(few), EvaluateTrustPolicy(many))
    BY <2>2, <2>3, <2>4, PolicyTightens
  <2>. QED
    BY <2>4, <2>5 DEF Policy
<1>. QED
  BY <1>1, InputsInductive, PTL DEF GatesOnlyTighten, Spec

=============================================================================

----------------------------- MODULE LogLemmas -----------------------------
(***************************************************************************)
(* Lemmas about logs: sequences of events that are only appended to, the   *)
(* set of their events, ranges of blocks, and the first event of a kind.   *)
(* And induction over the natural numbers, stated with a set in place of   *)
(* the predicate.                                                          *)
(***************************************************************************)
EXTENDS Integers, Sequences, Functions, FiniteSetsExt, WellFoundedInduction, TLAPS

\* A set of natural numbers has a least one.
LEMMA LeastNat ==
  ASSUME NEW T \in SUBSET Nat, T # {}
  PROVE  \E x \in T : \A y \in T : x <= y
<1>. DEFINE R == {ss \in Nat \X Nat : ss[1] < ss[2]}
<1>1. IsWellFoundedOn(R, Nat)
  BY NatLessThanWellFounded DEF OpToRel
<1>2. \E x \in T : \A y \in T : ~ (<<y, x>> \in R)
  <2>. HIDE DEF R
  <2>. QED
    BY <1>1, WFMin
<1>3. PICK x \in T : \A y \in T : ~ (<<y, x>> \in R)
  BY <1>2
<1>4. ASSUME NEW y \in T
      PROVE  x <= y
  <2>1. ~ (<<y, x>> \in R) /\ x \in Nat /\ y \in Nat /\ <<y, x>> \in Nat \X Nat
    BY <1>3
  <2>2. ~ (y < x)
    BY <2>1
  <2>. QED
    BY <2>1, <2>2
<1>. QED
  BY <1>4

\* Min is that one.
LEMMA MinIsLeast ==
  ASSUME NEW T \in SUBSET Nat, T # {}
  PROVE  Min(T) \in T /\ \A y \in T : Min(T) <= y
<1>1. PICK x \in T : \A y \in T : x <= y
  BY LeastNat
<1>. QED
  BY <1>1 DEF Min

\* Max is the greatest of some numbers up to n.
LEMMA MaxUpTo ==
  ASSUME NEW n \in Nat, NEW T \in SUBSET (0 .. n), T # {}
  PROVE  Max(T) \in T /\ \A y \in T : y <= Max(T)
<1>. DEFINE U == {n - x : x \in T}
<1>1. U \in SUBSET Nat /\ U # {}
  <2>1. \A x \in T : n - x \in Nat
    OBVIOUS
  <2>. QED
    BY <2>1
<1>. HIDE DEF U
<1>2. PICK d \in U : \A y \in U : d <= y
  BY <1>1, LeastNat
<1>3. PICK x \in T : d = n - x
  BY DEF U
<1>4. ASSUME NEW y \in T PROVE y <= x
  <2>1. n - y \in U
    BY DEF U
  <2>2. n - x <= n - y /\ x \in 0 .. n /\ y \in 0 .. n
    BY <1>2, <1>3, <2>1
  <2>. QED
    BY <2>2
<1>5. \A y, z \in T : y >= z <=> z <= y
  OBVIOUS
<1>6. \E y \in T : \A z \in T : y >= z
  BY <1>4, <1>5
<1>7. Max(T) \in T /\ \A z \in T : Max(T) >= z
  BY <1>6 DEF Max
<1>. QED
  BY <1>5, <1>7

LEMMA MaxIsGreatest ==
  ASSUME NEW n \in Nat, NEW T \in SUBSET (1 .. n), T # {}
  PROVE  Max(T) \in T /\ \A y \in T : y <= Max(T)
<1>1. T \in SUBSET (0 .. n)
  OBVIOUS
<1>. QED
  BY <1>1, MaxUpTo

LEMMA MaxIs ==
  ASSUME NEW T \in SUBSET Nat, NEW n \in T, \A y \in T : y <= n
  PROVE  Max(T) = n
<1>1. \A y, z \in T : (y >= z <=> z <= y) /\ (y <= z /\ z <= y => y = z)
  OBVIOUS
<1>2. \E y \in T : \A z \in T : y >= z
  BY <1>1
<1>3. Max(T) \in T /\ \A z \in T : Max(T) >= z
  BY <1>2 DEF Max
<1>. QED
  BY <1>1, <1>3

\* The numbers of a set up to n, and up to the next.
UpTo(M, n) == {i \in M : i <= n}

LEMMA UpToGrows ==
  ASSUME NEW N \in Nat, NEW M \in SUBSET (1 .. N)
  PROVE  /\ UpTo(M, 0) = {} /\ UpTo(M, N) = M
         /\ \A n \in Nat :
              /\ UpTo(M, n) = {i \in M : i < n + 1} /\ n + 1 \notin UpTo(M, n)
              /\ UpTo(M, n + 1) = IF n + 1 \in M THEN UpTo(M, n) \cup {n + 1} ELSE UpTo(M, n)
              /\ \A i \in UpTo(M, n) : i \in Nat /\ i <= n
<1>1. ASSUME NEW i \in M
      PROVE  i \in Nat /\ ~ (i <= 0) /\ i <= N
  OBVIOUS
<1>2. UpTo(M, 0) = {} /\ UpTo(M, N) = M
  BY <1>1 DEF UpTo
<1>3. ASSUME NEW n \in Nat
      PROVE  /\ UpTo(M, n) = {i \in M : i < n + 1} /\ n + 1 \notin UpTo(M, n)
             /\ UpTo(M, n + 1) = IF n + 1 \in M THEN UpTo(M, n) \cup {n + 1} ELSE UpTo(M, n)
             /\ \A i \in UpTo(M, n) : i \in Nat /\ i <= n
  <2>1. ASSUME NEW i \in M
        PROVE  (i <= n <=> i < n + 1) /\ (i <= n + 1 <=> (i <= n \/ i = n + 1))
    BY <1>1
  <2>2. ~ (n + 1 <= n) /\ n + 1 <= n + 1
    OBVIOUS
  <2>. QED
    BY <1>1, <2>1, <2>2 DEF UpTo
<1>. QED
  BY <1>2, <1>3

\* Induction: what holds of 0, and of n + 1 wherever it holds of n, holds of all.
LEMMA Induction ==
  ASSUME NEW T \in SUBSET Nat, 0 \in T, \A n \in T : n + 1 \in T
  PROVE  T = Nat
<1>1. CASE Nat \ T # {}
  <2>1. PICK x \in Nat \ T : \A y \in Nat \ T : x <= y
    BY <1>1, LeastNat
  <2>2. x # 0 /\ x - 1 \in Nat /\ x - 1 \in T
    BY <2>1
  <2>. QED
    BY <2>1, <2>2
<1>. QED
  BY <1>1

\* A sequence of values stays where every step keeps it.
LEMMA StaysIn ==
  ASSUME NEW X, NEW N \in Nat, NEW s, s[0] \in X,
         \A n \in 1 .. N : s[n - 1] \in X => s[n] \in X
  PROVE  \A n \in 0 .. N : s[n] \in X
<1>. DEFINE T == {n \in Nat : n <= N => s[n] \in X}
<1>1. T = Nat
  <2>1. 0 \in T
    OBVIOUS
  <2>2. ASSUME NEW n \in T PROVE n + 1 \in T
    <3>1. CASE n + 1 <= N
      <4>1. s[n] \in X /\ n + 1 \in 1 .. N /\ (n + 1) - 1 = n
        BY <3>1
      <4>2. s[(n + 1) - 1] \in X => s[n + 1] \in X
        BY <4>1
      <4>. QED
        BY <4>1, <4>2
    <3>. QED
      BY <3>1
  <2>. HIDE DEF T
  <2>3. T \in SUBSET Nat
    BY DEF T
  <2>. QED
    BY <2>1, <2>2, <2>3, Induction
<1>. QED
  BY <1>1

\* A function may be defined from a first value, step by step.
Steps(X, N) == [1 .. N -> [X -> X]]

Follows(s, first, N, step) == s[0] = first /\ \A n \in 1 .. N : s[n] = step[n][s[n - 1]]

LEMMA StepByStep ==
  ASSUME NEW X, NEW first \in X, NEW N \in Nat, NEW step \in Steps(X, N)
  PROVE  \E s \in [0 .. N -> X] : Follows(s, first, N, step)
<1>. USE DEF Steps, Follows
<1>. DEFINE Fits(s, m) == s[0] = first /\ \A n \in 1 .. m : s[n] = step[n][s[n - 1]]
            T == {m \in Nat : m <= N => \E s \in [0 .. m -> X] : Fits(s, m)}
<1>1. 0 \in T
  <2>1. [n \in 0 .. 0 |-> first] \in [0 .. 0 -> X] /\ Fits([n \in 0 .. 0 |-> first], 0)
    OBVIOUS
  <2>. QED
    BY <2>1
<1>2. ASSUME NEW m \in T PROVE m + 1 \in T
  <2>1. CASE m + 1 <= N
    <3>1. PICK s \in [0 .. m -> X] : Fits(s, m)
      BY <2>1
    <3>. DEFINE t == [n \in 0 .. m + 1 |-> IF n = m + 1 THEN step[m + 1][s[m]] ELSE s[n]]
    <3>2. s[m] \in X /\ m + 1 \in 1 .. N
      BY <2>1
    <3>3. step[m + 1][s[m]] \in X
      BY <3>2
    <3>4. t \in [0 .. m + 1 -> X]
      BY <3>3
    <3>5. /\ t[0] = s[0] /\ t[m + 1] = step[m + 1][s[m]] /\ t[m] = s[m]
          /\ \A n \in 1 .. m : t[n] = s[n] /\ t[n - 1] = s[n - 1]
      OBVIOUS
    <3>. HIDE DEF t
    <3>6. t[0] = first
      BY <3>1, <3>5
    <3>7. ASSUME NEW n \in 1 .. m + 1 PROVE t[n] = step[n][t[n - 1]]
      <4>1. CASE n = m + 1
        <5>1. n - 1 = m
          BY <4>1
        <5>. QED
          BY <3>5, <4>1, <5>1
      <4>2. CASE n # m + 1
        <5>1. n \in 1 .. m
          BY <4>2
        <5>. QED
          BY <3>1, <3>5, <5>1
      <4>. QED
        BY <4>1, <4>2
    <3>8. Fits(t, m + 1)
      BY <3>6, <3>7
    <3>. HIDE DEF Fits
    <3>9. \E u \in [0 .. m + 1 -> X] : Fits(u, m + 1)
      BY <3>4, <3>8
    <3>. QED
      BY <3>9
  <2>. QED
    BY <2>1
<1>3. T = Nat
  <2>. HIDE DEF T
  <2>1. T \in SUBSET Nat
    BY DEF T
  <2>. QED
    BY <1>1, <1>2, <2>1, Induction
<1>4. PICK s \in [0 .. N -> X] : Fits(s, N)
  BY <1>3
<1>. QED
  BY <1>4

-----------------------------------------------------------------------------
\* Appending an event adds it to the events of the log.
LEMMA AppendedRange ==
  ASSUME NEW S, NEW s \in Seq(S), NEW e \in S
  PROVE  /\ Append(s, e) \in Seq(S)
         /\ Range(Append(s, e)) = Range(s) \cup {e}
<1>1. /\ DOMAIN s = 1 .. Len(s) /\ Len(s) \in Nat
      /\ Append(s, e) \in Seq(S)
      /\ DOMAIN Append(s, e) = 1 .. Len(s) + 1
      /\ \A i \in DOMAIN s : Append(s, e)[i] = s[i]
      /\ Append(s, e)[Len(s) + 1] = e
  OBVIOUS
<1>2. Range(Append(s, e)) \subseteq Range(s) \cup {e}
  <2>1. ASSUME NEW i \in DOMAIN Append(s, e)
        PROVE  Append(s, e)[i] \in Range(s) \cup {e}
    BY <1>1 DEF Range
  <2>. QED
    BY <2>1 DEF Range
<1>3. Range(s) \cup {e} \subseteq Range(Append(s, e))
  <2>1. ASSUME NEW i \in DOMAIN s
        PROVE  s[i] \in Range(Append(s, e))
    BY <1>1 DEF Range
  <2>2. e \in Range(Append(s, e))
    BY <1>1 DEF Range
  <2>. QED
    BY <2>1, <2>2 DEF Range
<1>. QED
  BY <1>1, <1>2, <1>3

\* A range of blocks of a log holds events of the log only.
LEMMA SubRange ==
  ASSUME NEW S, NEW s \in Seq(S), NEW first \in 1 .. Len(s), NEW last \in 1 .. Len(s)
  PROVE  /\ SubSeq(s, first, last) \in Seq(S)
         /\ Range(SubSeq(s, first, last)) \subseteq Range(s)
<1>1. /\ DOMAIN s = 1 .. Len(s) /\ Len(s) \in Nat
      /\ SubSeq(s, first, last) \in Seq(S)
  OBVIOUS
<1>2. ASSUME NEW i \in DOMAIN SubSeq(s, first, last)
      PROVE  SubSeq(s, first, last)[i] \in Range(s)
  <2>1. i \in 1 .. last - first + 1 /\ SubSeq(s, first, last)[i] = s[first + i - 1]
    BY <1>1
  <2>. QED
    BY <1>1, <2>1 DEF Range
<1>. QED
  BY <1>1, <1>2 DEF Range

\* The first event among some of a log is one of them.
LEMMA FirstIsOne ==
  ASSUME NEW S, NEW s \in Seq(S), NEW T \in SUBSET DOMAIN s, T # {}
  PROVE  /\ Min(T) \in T
         /\ s[Min(T)] \in Range(s)
         /\ \A i \in T : Min(T) <= i
<1>1. T \in SUBSET Nat
  OBVIOUS
<1>. QED
  BY <1>1, MinIsLeast DEF Range

=============================================================================

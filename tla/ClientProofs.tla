---------------------------- MODULE ClientProofs ----------------------------
(***************************************************************************)
(* Proofs about Client, for any input, keys, values, pipe and number of    *)
(* changes: its types, what read_Thread prints, and that a terminal's      *)
(* lines are carried out as they were typed, each at its turn.             *)
(***************************************************************************)
EXTENDS Client, FiniteSetTheorems, WellFoundedInduction, SequenceTheorems, TLAPS

-----------------------------------------------------------------------------
(* Numbers and sequences.                                                  *)

(* Min chooses an element that no other is below.                          *)
LEMMA MinimumExists ==
  ASSUME NEW I \in SUBSET Nat, I # {}
  PROVE  Min(I) \in I /\ \A i \in I : Min(I) <= i
<1>1. PICK x \in I : \A y \in I : ~(<<y, x>> \in OpToRel(<, Nat))
  BY NatLessThanWellFounded, WFMin, Zenon
<1>2. ASSUME NEW y \in I
      PROVE  x <= y
  <2>1. y < x => <<y, x>> \in OpToRel(<, Nat)
    BY DEF OpToRel
  <2>2. ~(y < x)
    BY <1>1, <2>1, Zenon
  <2> QED
    BY <2>2
<1> QED
  BY <1>1, <1>2 DEF Min

(* Induction over numbers, for the members of a set.                       *)
LEMMA NaturalsByStep ==
  ASSUME NEW P, 0 \in P, \A n \in Nat : n \in P => n + 1 \in P
  PROVE  Nat \subseteq P
<1> SUFFICES ASSUME ~(Nat \subseteq P)
             PROVE  FALSE
  OBVIOUS
<1> DEFINE I == Nat \ P
<1>1. Min(I) \in I /\ \A i \in I : Min(I) <= i
  BY MinimumExists
<1>2. PICK m : m = Min(I)
  OBVIOUS
<1>3. m \in Nat /\ m \notin P /\ m # 0
  BY <1>1, <1>2
<1>4. m - 1 \in Nat /\ ~(m <= m - 1) /\ m - 1 + 1 = m
  BY <1>3
<1>5. m - 1 \in P
  BY <1>1, <1>2, <1>4
<1> QED
  BY <1>3, <1>4, <1>5

(* Induction over sequences.                                               *)
LEMMA SequencesByStep ==
  ASSUME NEW S, NEW P, << >> \in P, \A s \in Seq(S) : s \in P => \A e \in S : Append(s, e) \in P
  PROVE  Seq(S) \subseteq P
<1> DEFINE Q == {n \in Nat : \A s \in Seq(S) : Len(s) = n => s \in P}
<1>1. 0 \in Q
  <2>1. \A s \in Seq(S) : Len(s) = 0 => s = << >>
    OBVIOUS
  <2> QED
    BY <2>1
<1>2. ASSUME NEW n \in Nat, n \in Q
      PROVE  n + 1 \in Q
  <2> SUFFICES ASSUME NEW t \in Seq(S), Len(t) = n + 1
               PROVE  t \in P
    OBVIOUS
  <2>1. t # << >>
    BY <1>2
  <2>2. PICK s \in Seq(S), e \in S : t = Append(s, e)
    BY <2>1, SequenceEmptyOrAppend
  <2>3. Len(t) = Len(s) + 1 /\ Len(s) \in Nat
    BY <2>2, AppendProperties, LenProperties
  <2>4. Len(s) = n
    BY <2>3
  <2>5. s \in P
    BY <1>2, <2>4
  <2> QED
    BY <2>2, <2>5
<1>3. Nat \subseteq Q
  <2> HIDE DEF Q
  <2> QED
    BY <1>1, <1>2, NaturalsByStep
<1> QED
  BY <1>3, LenProperties

LEMMA Appended ==
  ASSUME NEW S, NEW s \in Seq(S), NEW e \in S
  PROVE  /\ Append(s, e) \in Seq(S) /\ Len(Append(s, e)) = Len(s) + 1 /\ Len(s) \in Nat
         /\ Append(s, e)[Len(s) + 1] = e
         /\ \A i \in 1..Len(s) : Append(s, e)[i] = s[i]
BY AppendProperties, LenProperties

(* A function from 1..n is a sequence.                                     *)
LEMMA FunctionIsSeq ==
  ASSUME NEW S, NEW n \in Nat, NEW f \in [1..n -> S]
  PROVE  f \in Seq(S) /\ Len(f) = n
<1>1. f \in Seq(S)
  BY SeqDef
<1>2. Len(f) \in Nat /\ DOMAIN f = 1..Len(f) /\ DOMAIN f = 1..n
  BY <1>1, LenProperties
<1> QED
  BY <1>1, <1>2

(* A sequence over a set is one over a larger set.                         *)
LEMMA WiderSeq ==
  ASSUME NEW S, NEW T, S \subseteq T, NEW s \in Seq(S)
  PROVE  s \in Seq(T)
OBVIOUS

\* The same for the beginning of a line.
LEMMA IsPrefixIs ==
  ASSUME NEW S, NEW w \in Seq(S), NEW T, NEW s \in Seq(T)
  PROVE  IsPrefix(w, s) <=> Len(w) <= Len(s) /\ \A i \in 1..Len(w) : s[i] = w[i]
<1>1. Len(w) \in Nat /\ Len(s) \in Nat
  BY LenProperties
<1>2. IsPrefix(w, s) <=> Len(w) <= Len(s) /\ SubSeq(w, 1, Len(w)) = SubSeq(s, 1, Len(w))
  BY DEF IsPrefix
<1>3. CASE Len(w) <= Len(s)
  <2> DEFINE u == SubSeq(w, 1, Len(w))
             v == SubSeq(s, 1, Len(w))
  <2>1. \A i \in 1..Len(w) : w[i] \in S \cup T /\ s[i] \in S \cup T
    <3>1. ASSUME NEW i \in 1..Len(w)
          PROVE  w[i] \in S /\ s[i] \in T
      <4>1. i \in 1..Len(s)
        BY <1>1, <1>3
      <4> QED
        BY <4>1, ElementOfSeq
    <3> QED
      BY <3>1
  <2>2. PICK n : n = Len(w)
    OBVIOUS
  <2>3. Len(w) = 0 => n = 0
    BY <2>2
  <2>4. 1 \in Int /\ n \in Nat /\ n \in Int /\ n - 1 + 1 = n /\ (1 <= n \/ n = 0) /\ ~(1 <= 0)
    BY <1>1, <2>2
  <2>5. /\ u \in Seq(S \cup T) /\ Len(u) = n
        /\ \A i \in 1..n : u[i] = w[1 + i - 1]
    <3>1. \A i \in 1..n : w[i] \in S \cup T
      BY <2>1, <2>2
    <3>2. /\ SubSeq(w, 1, n) \in Seq(S \cup T)
          /\ Len(SubSeq(w, 1, n)) = IF 1 <= n THEN n - 1 + 1 ELSE 0
          /\ \A i \in 1..(n - 1 + 1) : SubSeq(w, 1, n)[i] = w[1 + i - 1]
      BY <2>4, <3>1, SubSeqProperties
    <3> QED
      BY <2>2, <2>4, <3>2
  <2>6. /\ v \in Seq(S \cup T) /\ Len(v) = n
        /\ \A i \in 1..n : v[i] = s[1 + i - 1]
    <3>1. \A i \in 1..n : s[i] \in S \cup T
      BY <2>1, <2>2
    <3>2. /\ SubSeq(s, 1, n) \in Seq(S \cup T)
          /\ Len(SubSeq(s, 1, n)) = IF 1 <= n THEN n - 1 + 1 ELSE 0
          /\ \A i \in 1..(n - 1 + 1) : SubSeq(s, 1, n)[i] = s[1 + i - 1]
      BY <2>4, <3>1, SubSeqProperties
    <3> QED
      BY <2>2, <2>4, <3>2
  <2>7. \A i \in 1..n : 1 + i - 1 = i
    BY <2>4
  <2> HIDE DEF u, v
  <2>8. u = v <=> \A i \in 1..n : u[i] = v[i]
    <3>1. ASSUME \A i \in 1..n : u[i] = v[i]
          PROVE  u = v
      BY <2>5, <2>6, <3>1, SeqEqual
    <3> QED
      BY <3>1
  <2>9. u = v <=> \A i \in 1..n : s[i] = w[i]
    BY <2>5, <2>6, <2>7, <2>8
  <2> QED
    BY <1>2, <1>3, <2>2, <2>9 DEF u, v
<1> QED
  BY <1>2, <1>3

LEMMA PrefixOfItself ==
  ASSUME NEW S, NEW w \in Seq(S)
  PROVE  IsPrefix(w, w)
BY LenProperties DEF IsPrefix

LEMMA PrefixOfConcatenation ==
  ASSUME NEW S, NEW w \in Seq(S), NEW T, NEW r \in Seq(T)
  PROVE  IsPrefix(w, w \o r)
<1>1. w \in Seq(S \cup T) /\ r \in Seq(S \cup T)
  BY WiderSeq
<1>2. PICK s : s = w \o r
  OBVIOUS
<1>3. /\ s \in Seq(S \cup T) /\ Len(s) = Len(w) + Len(r) /\ Len(w) \in Nat /\ Len(r) \in Nat
      /\ \A i \in 1..(Len(w) + Len(r)) : s[i] = IF i <= Len(w) THEN w[i] ELSE r[i - Len(w)]
  BY <1>1, <1>2, ConcatProperties, LenProperties
<1>4. \A i \in 1..Len(w) : i \in 1..(Len(w) + Len(r)) /\ i <= Len(w)
  BY <1>3
<1>5. Len(w) <= Len(s) /\ \A i \in 1..Len(w) : s[i] = w[i]
  BY <1>3, <1>4
<1>6. IsPrefix(w, s)
  BY <1>3, <1>5, IsPrefixIs
<1> QED
  BY <1>2, <1>6

LEMMA WholeSequence ==
  ASSUME NEW S, NEW r \in Seq(S), NEW l, l = Len(r)
  PROVE  SubSeq(r, 1, l) = r
<1>1. l \in Nat
  BY LenProperties
<1>2. PICK u : u = SubSeq(r, 1, l)
  OBVIOUS
<1>3. 1 \in Int /\ l \in Int /\ l - 1 + 1 = l /\ (1 <= l \/ l = 0) /\ (l = 0 => ~(1 <= l)) /\ \A i \in 1..l : 1 + i - 1 = i
  BY <1>1
<1>4. \A i \in 1..l : r[i] \in S
  BY ElementOfSeq
<1>5. /\ u \in Seq(S) /\ Len(u) = (IF 1 <= l THEN l - 1 + 1 ELSE 0)
      /\ \A i \in 1..(l - 1 + 1) : u[i] = r[1 + i - 1]
  BY <1>2, <1>3, <1>4, SubSeqProperties
<1>6. Len(u) = l /\ \A i \in 1..l : u[i] = r[i]
  BY <1>3, <1>5
<1>7. u = r
  BY <1>5, <1>6, SeqEqual
<1> QED
  BY <1>2, <1>7

(* What fails somewhere among 1 .. n fails at a first place. *)
LEMMA FirstFailure ==
  ASSUME NEW n \in Nat, NEW Holding, ~(1 .. n \subseteq Holding)
  PROVE  \E k \in 1 .. n : k \notin Holding /\ 1 .. k - 1 \subseteq Holding
<1> DEFINE I == {k \in 1 .. n : k \notin Holding}
<1>1. I \in SUBSET Nat /\ I # {}
  OBVIOUS
<1>2. Min(I) \in I /\ \A i \in I : Min(I) <= i
  BY <1>1, MinimumExists
<1> QED
  BY <1>2

-----------------------------------------------------------------------------
(* Squeeze.                                                                *)
Squeezes(s, f) ==
  f = [n \in 0..Len(s) |->
         IF n = 0 THEN <<>>
         ELSE IF n > 1 /\ s[n - 1] = s[n] THEN f[n - 1]
         ELSE Append(f[n - 1], s[n])]

LEMMA SqueezeExists ==
  ASSUME NEW S, NEW s \in Seq(S)
  PROVE  \E f : Squeezes(s, f) /\ Squeeze(s) = f[Len(s)]
<1> DEFINE P == {t \in Seq(S) : \E f : Squeezes(t, f)}
<1>1. << >> \in P
  <2> DEFINE f == [n \in 0..0 |-> << >>]
  <2>1. 0..Len(<< >>) = {0} /\ 0..0 = {0}
    OBVIOUS
  <2>2. f = [n \in 0..Len(<< >>) |->
               IF n = 0 THEN <<>>
               ELSE IF n > 1 /\ << >>[n - 1] = << >>[n] THEN f[n - 1]
               ELSE Append(f[n - 1], << >>[n])]
    BY <2>1
  <2>3. Squeezes(<< >>, f)
    BY <2>2 DEF Squeezes
  <2> QED
    BY <2>3
<1>2. ASSUME NEW t \in Seq(S), t \in P, NEW e \in S
      PROVE  Append(t, e) \in P
  <2> DEFINE u == Append(t, e)
             k == Len(t)
  <2>1. u \in Seq(S) /\ Len(u) = k + 1 /\ k \in Nat /\ u[k + 1] = e /\ \A i \in 1..k : u[i] = t[i]
    BY Appended
  <2>2. PICK f : Squeezes(t, f)
    BY <1>2
  <2> HIDE DEF u, k
  <2>3. \A n \in 0..k : f[n] = IF n = 0 THEN <<>>
                               ELSE IF n > 1 /\ t[n - 1] = t[n] THEN f[n - 1]
                               ELSE Append(f[n - 1], t[n])
    BY <2>2 DEF Squeezes, k
  <2> DEFINE last == IF k + 1 > 1 /\ u[k] = u[k + 1] THEN f[k] ELSE Append(f[k], u[k + 1])
             g == [n \in 0..k + 1 |-> IF n = k + 1 THEN last ELSE f[n]]
             h == [n \in 0..k + 1 |->
                     IF n = 0 THEN <<>>
                     ELSE IF n > 1 /\ u[n - 1] = u[n] THEN g[n - 1]
                     ELSE Append(g[n - 1], u[n])]
  <2>4. ASSUME NEW n \in 0..k + 1
        PROVE  g[n] = h[n]
    <3>1. CASE n = k + 1
      <4>1. n - 1 = k /\ k \in 0..k + 1 /\ k # k + 1 /\ n # 0 /\ n \in 0..k + 1
        BY <2>1, <3>1
      <4>2. g[k] = f[k] /\ g[n] = last
        BY <3>1, <4>1
      <4>3. h[n] = IF n > 1 /\ u[n - 1] = u[n] THEN g[n - 1] ELSE Append(g[n - 1], u[n])
        BY <4>1
      <4> HIDE DEF g, h
      <4> QED
        BY <3>1, <4>1, <4>2, <4>3
    <3>2. CASE n # k + 1
      <4>1. n \in 0..k /\ n \in 0..k + 1
        BY <2>1, <3>2
      <4>2. g[n] = f[n]
        BY <3>2, <4>1
      <4>3. CASE n = 0
        BY <2>3, <4>1, <4>2, <4>3
      <4>4. CASE n # 0
        <5>1. n \in 1..k /\ n - 1 \in 0..k + 1 /\ n - 1 # k + 1 /\ (n > 1 => n - 1 \in 1..k)
          BY <2>1, <4>1, <4>4
        <5>2. g[n - 1] = f[n - 1]
          BY <5>1
        <5>3. u[n] = t[n] /\ (n > 1 => u[n - 1] = t[n - 1])
          BY <2>1, <5>1
        <5>4. h[n] = IF n > 1 /\ u[n - 1] = u[n] THEN g[n - 1] ELSE Append(g[n - 1], u[n])
          BY <4>1, <4>4
        <5>5. f[n] = IF n > 1 /\ t[n - 1] = t[n] THEN f[n - 1] ELSE Append(f[n - 1], t[n])
          BY <2>3, <4>1, <4>4
        <5> HIDE DEF g, h
        <5>6. CASE n > 1
          BY <4>2, <5>2, <5>3, <5>4, <5>5, <5>6
        <5>7. CASE ~(n > 1)
          BY <4>2, <5>2, <5>3, <5>4, <5>5, <5>7
        <5> QED
          BY <5>6, <5>7
      <4> QED
        BY <4>3, <4>4
    <3> QED
      BY <3>1, <3>2
  <2>5. g = h
    <3>1. DOMAIN g = 0..k + 1 /\ DOMAIN h = 0..k + 1 /\ g = [n \in DOMAIN g |-> g[n]]
          /\ h = [n \in DOMAIN h |-> h[n]]
      OBVIOUS
    <3> HIDE DEF g, h
    <3> QED
      BY <2>4, <3>1
  <2>6. Squeezes(u, g)
    <3>1. g = [n \in 0..Len(u) |->
                     IF n = 0 THEN <<>>
                     ELSE IF n > 1 /\ u[n - 1] = u[n] THEN g[n - 1]
                     ELSE Append(g[n - 1], u[n])]
      <4> HIDE DEF g
      <4> QED
        BY <2>1, <2>5
    <3> HIDE DEF g
    <3> QED
      BY <3>1 DEF Squeezes
  <2> HIDE DEF g
  <2> QED
    BY <2>1, <2>6 DEF u
<1>3. Seq(S) \subseteq P
  <2> HIDE DEF P
  <2> QED
    BY <1>1, <1>2, SequencesByStep
<1>4. PICK g : Squeezes(s, g)
  BY <1>3
<1> DEFINE upTo[n \in 0..Len(s)] ==
        IF n = 0 THEN <<>>
        ELSE IF n > 1 /\ s[n - 1] = s[n] THEN upTo[n - 1]
        ELSE Append(upTo[n - 1], s[n])
<1>5. Squeezes(s, upTo)
  BY <1>4, Zenon DEF Squeezes
<1>6. Squeeze(s) = upTo[Len(s)]
  BY Zenon DEF Squeeze
<1> HIDE DEF upTo
<1> QED
  BY <1>5, <1>6

LEMMA SqueezeStep ==
  ASSUME NEW S, NEW s \in Seq(S), NEW e \in S
  PROVE  Squeeze(Append(s, e)) =
           IF Len(s) > 0 /\ s[Len(s)] = e THEN Squeeze(s) ELSE Append(Squeeze(s), e)
<1> DEFINE t == Append(s, e)
           k == Len(s)
<1>1. t \in Seq(S) /\ Len(t) = k + 1 /\ k \in Nat /\ t[k + 1] = e /\ \A i \in 1..k : t[i] = s[i]
  BY Appended
<1>2. PICK f : Squeezes(s, f) /\ Squeeze(s) = f[k]
  BY SqueezeExists
<1> HIDE DEF t
<1>3. PICK g : Squeezes(t, g) /\ Squeeze(t) = g[Len(t)]
  BY <1>1, SqueezeExists
<1> HIDE DEF k
<1>4. \A n \in 0..k : f[n] = IF n = 0 THEN <<>>
                             ELSE IF n > 1 /\ s[n - 1] = s[n] THEN f[n - 1]
                             ELSE Append(f[n - 1], s[n])
  BY <1>2 DEF Squeezes, k
<1>5. \A n \in 0..k + 1 : g[n] = IF n = 0 THEN <<>>
                                 ELSE IF n > 1 /\ t[n - 1] = t[n] THEN g[n - 1]
                                 ELSE Append(g[n - 1], t[n])
  BY <1>1, <1>3 DEF Squeezes
<1> DEFINE P == {n \in Nat : n <= k => f[n] = g[n]}
<1>6. 0 \in P
  BY <1>1, <1>4, <1>5
<1>7. ASSUME NEW n \in Nat, n \in P
      PROVE  n + 1 \in P
  <2> SUFFICES ASSUME n + 1 <= k
               PROVE  f[n + 1] = g[n + 1]
    OBVIOUS
  <2>1. n <= k /\ n + 1 \in 0..k /\ n + 1 \in 0..k + 1 /\ n + 1 # 0 /\ n + 1 - 1 = n
        /\ n + 1 \in 1..k /\ (n + 1 > 1 => n \in 1..k)
    BY <1>1
  <2>2. f[n] = g[n]
    BY <1>7, <2>1
  <2>3. f[n + 1] = IF n + 1 > 1 /\ s[n] = s[n + 1] THEN f[n] ELSE Append(f[n], s[n + 1])
    BY <1>4, <2>1
  <2>4. g[n + 1] = IF n + 1 > 1 /\ t[n] = t[n + 1] THEN g[n] ELSE Append(g[n], t[n + 1])
    BY <1>5, <2>1
  <2>5. t[n + 1] = s[n + 1] /\ (n + 1 > 1 => t[n] = s[n])
    BY <1>1, <2>1
  <2> QED
    BY <2>2, <2>3, <2>4, <2>5
<1>8. Nat \subseteq P
  <2> HIDE DEF P
  <2> QED
    BY <1>6, <1>7, NaturalsByStep
<1>9. f[k] = g[k]
  BY <1>1, <1>8
<1>10. g[k + 1] = IF k + 1 > 1 /\ t[k] = t[k + 1] THEN g[k] ELSE Append(g[k], t[k + 1])
  <2>1. PICK m : m = k + 1
    OBVIOUS
  <2>2. m \in 0..k + 1 /\ m # 0 /\ m - 1 = k
    BY <1>1, <2>1
  <2>3. g[m] = IF m > 1 /\ t[m - 1] = t[m] THEN g[m - 1] ELSE Append(g[m - 1], t[m])
    BY <1>5, <2>2
  <2> QED
    BY <2>1, <2>2, <2>3
<1>11. k > 0 <=> k + 1 > 1
  BY <1>1
<1>12. k > 0 => t[k] = s[k]
  <2>1. k > 0 => k \in 1..k
    BY <1>1
  <2> QED
    BY <1>1, <2>1
<1> QED
  BY <1>1, <1>2, <1>3, <1>9, <1>10, <1>11, <1>12 DEF t, k

LEMMA SqueezeEmpty == Squeeze(<< >>) = << >>
<1>1. << >> \in Seq({1}) /\ Len(<< >>) = 0 /\ 0 \in 0..0
  OBVIOUS
<1>2. PICK f : Squeezes(<< >>, f) /\ Squeeze(<< >>) = f[0]
  BY <1>1, SqueezeExists
<1> QED
  BY <1>1, <1>2 DEF Squeezes

(* What Squeeze keeps: the elements, and which of them is the last.        *)
SameEnds(s, t) ==
  /\ Len(s) > 0 <=> Len(t) > 0
  /\ Len(s) > 0 => t[Len(t)] = s[Len(s)]

LEMMA SqueezeKeeps ==
  ASSUME NEW S, NEW s \in Seq(S)
  PROVE  Squeeze(s) \in Seq(S) /\ SameEnds(s, Squeeze(s))
<1> DEFINE P == {t \in Seq(S) : Squeeze(t) \in Seq(S) /\ SameEnds(t, Squeeze(t))}
<1>1. << >> \in P
  <2>1. << >> \in Seq(S) /\ ~(Len(<< >>) > 0)
    OBVIOUS
  <2>2. SameEnds(<< >>, << >>)
    BY <2>1, Zenon DEF SameEnds
  <2> QED
    BY <2>1, <2>2, SqueezeEmpty
<1>2. ASSUME NEW t \in Seq(S), t \in P, NEW e \in S
      PROVE  Append(t, e) \in P
  <2> DEFINE u == Append(t, e)
             q == Squeeze(t)
  <2>1. u \in Seq(S) /\ Len(u) = Len(t) + 1 /\ Len(t) \in Nat /\ u[Len(t) + 1] = e
    BY Appended
  <2>2. Squeeze(u) = IF Len(t) > 0 /\ t[Len(t)] = e THEN q ELSE Append(q, e)
    BY SqueezeStep
  <2>3. q \in Seq(S) /\ (Len(t) > 0 <=> Len(q) > 0) /\ (Len(t) > 0 => q[Len(q)] = t[Len(t)])
    BY <1>2 DEF SameEnds
  <2> HIDE DEF u, q
  <2>4. CASE Len(t) > 0 /\ t[Len(t)] = e
    <3>1. Squeeze(u) = q /\ Len(u) > 0 /\ u[Len(u)] = e
      BY <2>1, <2>2, <2>4
    <3>2. SameEnds(u, q)
      BY <2>3, <2>4, <3>1 DEF SameEnds
    <3>3. u \in P
      BY <2>1, <2>3, <3>1, <3>2
    <3> QED
      BY <3>3 DEF u
  <2>5. CASE ~(Len(t) > 0 /\ t[Len(t)] = e)
    <3>1. Squeeze(u) = Append(q, e) /\ Len(u) > 0 /\ u[Len(u)] = e
      BY <2>1, <2>2, <2>5
    <3>2. Append(q, e) \in Seq(S) /\ Len(Append(q, e)) = Len(q) + 1 /\ Len(q) \in Nat
          /\ Append(q, e)[Len(q) + 1] = e
      BY <2>3, Appended
    <3> DEFINE r == Append(q, e)
    <3>3. r \in Seq(S) /\ Len(r) > 0 /\ r[Len(r)] = e /\ Squeeze(u) = r
      BY <3>1, <3>2
    <3> HIDE DEF r
    <3>4. SameEnds(u, r)
      BY <3>1, <3>3 DEF SameEnds
    <3>5. u \in P
      BY <2>1, <3>3, <3>4
    <3> QED
      BY <3>5 DEF u
  <2> QED
    BY <2>4, <2>5
<1>3. Seq(S) \subseteq P
  <2> HIDE DEF P
  <2> QED
    BY <1>1, <1>2, SequencesByStep
<1> QED
  BY <1>3

LEMMA ConcatAppend ==
  ASSUME NEW S, NEW s \in Seq(S), NEW t \in Seq(S), NEW e \in S
  PROVE  s \o Append(t, e) = Append(s \o t, e)
<1> DEFINE u == Append(t, e)
           v == s \o t
           x == s \o u
           y == Append(v, e)
<1>1. /\ u \in Seq(S) /\ Len(u) = Len(t) + 1 /\ Len(t) \in Nat /\ u[Len(t) + 1] = e
      /\ \A i \in 1..Len(t) : u[i] = t[i]
  BY Appended
<1>2. /\ v \in Seq(S) /\ Len(v) = Len(s) + Len(t) /\ Len(s) \in Nat
      /\ \A i \in 1..Len(s) + Len(t) : v[i] = IF i <= Len(s) THEN s[i] ELSE t[i - Len(s)]
  BY ConcatProperties, LenProperties
<1> HIDE DEF u, v
<1>3. /\ x \in Seq(S) /\ Len(x) = Len(s) + Len(u)
      /\ \A i \in 1..Len(s) + Len(u) : x[i] = IF i <= Len(s) THEN s[i] ELSE u[i - Len(s)]
  BY <1>1, ConcatProperties
<1>4. /\ y \in Seq(S) /\ Len(y) = Len(v) + 1 /\ y[Len(v) + 1] = e
      /\ \A i \in 1..Len(v) : y[i] = v[i]
  BY <1>2, Appended
<1> HIDE DEF x, y
<1>5. Len(x) = Len(s) + Len(t) + 1 /\ Len(y) = Len(s) + Len(t) + 1
  BY <1>1, <1>2, <1>3, <1>4
<1>6. ASSUME NEW i \in 1..Len(x)
      PROVE  x[i] = y[i]
  <2>1. CASE i = Len(v) + 1
    <3>1. ~(i <= Len(s)) /\ i - Len(s) = Len(t) + 1 /\ i \in 1..Len(s) + Len(u)
      BY <1>1, <1>2, <1>5, <2>1
    <3>2. x[i] = u[Len(t) + 1]
      BY <1>3, <3>1
    <3> QED
      BY <1>1, <1>4, <2>1, <3>2
  <2>2. CASE i # Len(v) + 1
    <3>1. i \in 1..Len(v) /\ i \in 1..Len(s) + Len(t) /\ i \in 1..Len(s) + Len(u)
      BY <1>1, <1>2, <1>5, <2>2
    <3>2. y[i] = v[i]
      BY <1>4, <3>1
    <3>3. CASE i <= Len(s)
      BY <1>2, <1>3, <3>1, <3>2, <3>3
    <3>4. CASE ~(i <= Len(s))
      <4>1. i - Len(s) \in 1..Len(t)
        BY <1>1, <1>2, <3>1, <3>4
      <4>2. u[i - Len(s)] = t[i - Len(s)]
        BY <1>1, <4>1
      <4> QED
        BY <1>2, <1>3, <3>1, <3>2, <3>4, <4>2
    <3> QED
      BY <3>3, <3>4
  <2> QED
    BY <2>1, <2>2
<1>7. x = y
  BY <1>3, <1>4, <1>5, <1>6, SeqEqual
<1> QED
  BY <1>7 DEF x, y, u, v

LEMMA SqueezeSame ==
  ASSUME NEW S, NEW s \in Seq(S), NEW t \in Seq(S), Squeeze(s) = Squeeze(t), NEW e \in S
  PROVE  Squeeze(Append(s, e)) = Squeeze(Append(t, e))
<1>1. SameEnds(s, Squeeze(s)) /\ SameEnds(t, Squeeze(t))
  BY SqueezeKeeps
<1>2. /\ Squeeze(Append(s, e)) = IF Len(s) > 0 /\ s[Len(s)] = e THEN Squeeze(s) ELSE Append(Squeeze(s), e)
      /\ Squeeze(Append(t, e)) = IF Len(t) > 0 /\ t[Len(t)] = e THEN Squeeze(t) ELSE Append(Squeeze(t), e)
  BY SqueezeStep
<1>3. (Len(s) > 0 /\ s[Len(s)] = e) <=> (Len(t) > 0 /\ t[Len(t)] = e)
  BY <1>1 DEF SameEnds
<1> QED
  BY <1>2, <1>3

LEMMA SqueezeTwice ==
  ASSUME NEW S, NEW s \in Seq(S), NEW e \in S
  PROVE  Squeeze(Append(Append(s, e), e)) = Squeeze(Append(s, e))
<1> DEFINE t == Append(s, e)
<1>1. t \in Seq(S) /\ Len(t) = Len(s) + 1 /\ Len(s) \in Nat /\ t[Len(s) + 1] = e
  BY Appended
<1> HIDE DEF t
<1>2. Len(t) > 0 /\ t[Len(t)] = e
  BY <1>1
<1>3. Squeeze(Append(t, e)) = Squeeze(t)
  BY <1>1, <1>2, SqueezeStep
<1> QED
  BY <1>3 DEF t

(* Copies of an element count once.                                        *)
LEMMA SqueezeCopies ==
  ASSUME NEW S, NEW s \in Seq(S), NEW e \in S, NEW c \in Seq({e}), c # << >>
  PROVE  Squeeze(s \o c) = Squeeze(Append(s, e))
<1> DEFINE P == {t \in Seq({e}) : t # << >> => Squeeze(s \o t) = Squeeze(Append(s, e))}
<1>1. << >> \in P
  OBVIOUS
<1>2. ASSUME NEW t \in Seq({e}), t \in P
      PROVE  Append(t, e) \in P
  <2>1. t \in Seq(S) /\ Append(t, e) \in Seq({e})
    BY SeqMonotonic, Appended
  <2>2. s \o Append(t, e) = Append(s \o t, e)
    BY <2>1, ConcatAppend
  <2>3. CASE t = << >>
    <3>1. s \o t = s
      BY <2>3, ConcatEmptySeq
    <3> QED
      BY <2>1, <2>2, <3>1
  <2>4. CASE t # << >>
    <3> DEFINE x == s \o t
               y == Append(s, e)
    <3>1. x \in Seq(S) /\ y \in Seq(S)
      BY <2>1, ConcatProperties, Appended
    <3>2. Squeeze(x) = Squeeze(y)
      BY <1>2, <2>4
    <3>3. Squeeze(Append(y, e)) = Squeeze(y)
      BY SqueezeTwice
    <3> HIDE DEF x, y
    <3>4. Squeeze(Append(x, e)) = Squeeze(Append(y, e))
      BY <3>1, <3>2, SqueezeSame
    <3>5. Squeeze(s \o Append(t, e)) = Squeeze(Append(s, e))
      BY <2>2, <3>3, <3>4 DEF x, y
    <3> QED
      BY <2>1, <3>5
  <2> QED
    BY <2>3, <2>4
<1>3. Seq({e}) \subseteq P
  <2>1. \A t \in Seq({e}) : t \in P => \A d \in {e} : Append(t, d) \in P
    BY <1>2
  <2> HIDE DEF P
  <2> QED
    BY <1>1, <2>1, SequencesByStep
<1> QED
  BY <1>3

(* What comes later does not change what is printed already.               *)
LEMMA SqueezePrefix ==
  ASSUME NEW S, NEW r \in Seq(S), NEW s \in Seq(S)
  PROVE  IsPrefix(Squeeze(r), Squeeze(r \o s))
<1> DEFINE q == Squeeze(r)
           P == {t \in Seq(S) : \E u \in Seq(S) : Squeeze(r \o t) = q \o u}
<1>1. q \in Seq(S)
  BY SqueezeKeeps
<1>2. << >> \in P
  <2>1. r \o << >> = r /\ q \o << >> = q /\ << >> \in Seq(S)
    BY <1>1, ConcatEmptySeq, EmptySeq
  <2> QED
    BY <2>1
<1>3. ASSUME NEW t \in Seq(S), t \in P, NEW e \in S
      PROVE  Append(t, e) \in P
  <2>1. PICK u \in Seq(S) : Squeeze(r \o t) = q \o u
    BY <1>3
  <2>2. r \o Append(t, e) = Append(r \o t, e) /\ r \o t \in Seq(S)
    BY ConcatAppend, ConcatProperties
  <2>3. Squeeze(r \o Append(t, e)) \in {q \o u, Append(q \o u, e)}
    BY <2>1, <2>2, SqueezeStep
  <2> HIDE DEF q
  <2>4. q \o Append(u, e) = Append(q \o u, e) /\ Append(u, e) \in Seq(S)
    <3>1. q \o Append(u, e) = Append(q \o u, e)
      BY <1>1, ConcatAppend
    <3>2. Append(u, e) \in Seq(S)
      BY Appended
    <3> QED
      BY <3>1, <3>2
  <2>5. \E v \in Seq(S) : Squeeze(r \o Append(t, e)) = q \o v
    BY <2>3, <2>4
  <2>6. Append(t, e) \in Seq(S)
    BY Appended
  <2> QED
    BY <2>5, <2>6
<1>4. Seq(S) \subseteq P
  <2> HIDE DEF P
  <2> QED
    BY <1>2, <1>3, SequencesByStep
<1>5. PICK u \in Seq(S) : Squeeze(r \o s) = q \o u
  BY <1>4
<1> HIDE DEF q
<1>6. IsPrefix(q, q \o u)
  BY <1>1, PrefixOfConcatenation
<1> QED
  BY <1>5, <1>6 DEF q

-----------------------------------------------------------------------------
(* The table keeps its shape.                                              *)
LEMMA FindFirst ==
  ASSUME NEW ht \in HashTable, NEW k \in Keys
  PROVE  /\ hash(k) \in Buckets /\ ht[hash(k)] \in Seq(KeyNode)
         /\ Has(ht, k) => /\ Find(ht, k) \in 1..Len(ht[hash(k)])
                          /\ Node(ht, k) \in KeyNode /\ Node(ht, k) = ht[hash(k)][Find(ht, k)]
<1> DEFINE I == {i \in 1..Len(ht[hash(k)]) : ht[hash(k)][i].key = k}
<1>1. hash(k) \in Buckets /\ ht[hash(k)] \in Seq(KeyNode)
  BY TableAssumption DEF HashTable
<1>2. Find(ht, k) = IF I # {} THEN Min(I) ELSE 0
  BY DEF Find, SelectInSeq
<1>3. I \in SUBSET Nat
  OBVIOUS
<1>4. I # {} => Min(I) \in I
  BY <1>3, MinimumExists
<1>5. Has(ht, k) => Find(ht, k) \in 1..Len(ht[hash(k)])
  BY <1>2, <1>4 DEF Has
<1> QED
  BY <1>1, <1>5 DEF Node

LEMMA NotifPipesTyped ==
  ASSUME NEW ht \in HashTable, NEW k \in Keys
  PROVE  NotifPipes(ht, k) \in Seq(Pipes)
BY FindFirst DEF NotifPipes, KeyNode

LEMMA UpdateBucket ==
  ASSUME NEW ht \in HashTable, NEW b \in Buckets, NEW chain \in Seq(KeyNode)
  PROVE  [ht EXCEPT ![b] = chain] \in HashTable
BY DEF HashTable

LEMMA UpdateNode ==
  ASSUME NEW ht \in HashTable, NEW b \in Buckets, NEW i \in 1..Len(ht[b]), NEW node \in KeyNode
  PROVE  [ht EXCEPT ![b] = [ht[b] EXCEPT ![i] = node]] \in HashTable
<1>1. ht[b] \in Seq(KeyNode)
  BY DEF HashTable
<1>2. [ht[b] EXCEPT ![i] = node] \in Seq(KeyNode)
  BY <1>1, ExceptSeq
<1> QED
  BY <1>2, UpdateBucket

LEMMA RemoveItem ==
  ASSUME NEW S, NEW s \in Seq(S), NEW i \in 1..Len(s)
  PROVE  RemoveAt(s, i) \in Seq(S)
<1> DEFINE A == SubSeq(s, 1, i - 1)
           B == SubSeq(s, i + 1, Len(s))
<1>1. \A k \in 1..Len(s) : s[k] \in S
  OBVIOUS
<1>2. A \in Seq(S)
  BY <1>1, SubSeqProperties
<1>3. B \in Seq(S)
  BY <1>1, SubSeqProperties
<1> HIDE DEF A, B
<1>4. A \o B \in Seq(S)
  BY <1>2, <1>3, ConcatProperties
<1> QED
  BY <1>4 DEF RemoveAt, A, B

LEMMA ListWithout ==
  ASSUME NEW list \in Seq(Pipes), NEW p
  PROVE  remove_notif_pipe(list, p) \in Seq(Pipes)
<1> DEFINE I == {i \in 1..Len(list) : list[i] = p}
<1>1. CASE \E i \in 1..Len(list) : list[i] = p
  <2>1. I # {} /\ I \in SUBSET Nat
    BY <1>1
  <2>2. Min(I) \in I
    BY <2>1, MinimumExists
  <2>3. RemoveFirst(list, p) = RemoveAt(list, Min(I))
    BY <1>1, <2>1 DEF RemoveFirst, SelectInSeq
  <2>4. Min(I) \in 1..Len(list)
    BY <2>2
  <2> HIDE DEF I
  <2> QED
    BY <2>3, <2>4, RemoveItem DEF remove_notif_pipe
<1>2. CASE ~\E i \in 1..Len(list) : list[i] = p
  BY <1>2 DEF remove_notif_pipe, RemoveFirst
<1> QED
  BY <1>1, <1>2

LEMMA WritePairTyped ==
  ASSUME NEW ht \in HashTable, NEW k \in Keys, NEW v \in Values
  PROVE  write_pair(ht, k, v) \in HashTable
<1> DEFINE b == hash(k)
           i == Find(ht, k)
<1>1. b \in Buckets /\ ht[b] \in Seq(KeyNode)
  BY FindFirst
<1>2. CASE Has(ht, k)
  <2> DEFINE node == [ht[b][i] EXCEPT !.value = v]
  <2>1. i \in 1..Len(ht[b]) /\ ht[b][i] \in KeyNode
    BY <1>2, FindFirst
  <2>2. node \in KeyNode
    BY <2>1 DEF KeyNode
  <2>3. write_pair(ht, k, v) = [ht EXCEPT ![b] = [ht[b] EXCEPT ![i] = node]]
    BY <1>2 DEF write_pair
  <2> HIDE DEF node, b, i
  <2>4. [ht EXCEPT ![b] = [ht[b] EXCEPT ![i] = node]] \in HashTable
    BY <1>1, <2>1, <2>2, UpdateNode
  <2> QED
    BY <2>3, <2>4
<1>3. CASE ~Has(ht, k)
  <2> DEFINE node == NewNode(k, v)
  <2>1. node \in KeyNode
    BY DEF NewNode, KeyNode
  <2>2. write_pair(ht, k, v) = [ht EXCEPT ![b] = Cons(node, ht[b])]
    BY <1>3 DEF write_pair
  <2> DEFINE chain == Cons(node, ht[b])
  <2> HIDE DEF node, b, i
  <2>3. chain \in Seq(KeyNode)
    BY <1>1, <2>1 DEF Cons
  <2> HIDE DEF chain
  <2>4. [ht EXCEPT ![b] = chain] \in HashTable
    BY <1>1, <2>3, UpdateBucket
  <2> QED
    BY <2>2, <2>4 DEF chain
<1> QED
  BY <1>2, <1>3

LEMMA DeletePairTyped ==
  ASSUME NEW ht \in HashTable, NEW k \in Keys
  PROVE  delete_pair(ht, k) \in HashTable
<1> DEFINE b == hash(k)
           i == Find(ht, k)
<1>1. CASE Has(ht, k)
  <2>1. b \in Buckets /\ ht[b] \in Seq(KeyNode) /\ i \in 1..Len(ht[b])
    BY <1>1, FindFirst
  <2>2. delete_pair(ht, k) = [ht EXCEPT ![b] = RemoveAt(ht[b], i)]
    BY <1>1 DEF delete_pair
  <2> DEFINE chain == RemoveAt(ht[b], i)
  <2> HIDE DEF b, i
  <2>3. chain \in Seq(KeyNode)
    BY <2>1, RemoveItem
  <2> HIDE DEF chain
  <2>4. [ht EXCEPT ![b] = chain] \in HashTable
    BY <2>1, <2>3, UpdateBucket
  <2> QED
    BY <2>2, <2>4 DEF chain
<1>2. CASE ~Has(ht, k)
  BY <1>2 DEF delete_pair
<1> QED
  BY <1>1, <1>2

(* The list of a node changes.                                             *)
LEMMA ListChanged ==
  ASSUME NEW ht \in HashTable, NEW k \in Keys, Has(ht, k), NEW list \in Seq(Pipes)
  PROVE  [ht EXCEPT ![hash(k)][Find(ht, k)].notif_pipes = list] \in HashTable
<1> DEFINE b == hash(k)
           i == Find(ht, k)
           node == [ht[b][i] EXCEPT !.notif_pipes = list]
<1>1. b \in Buckets /\ i \in 1..Len(ht[b]) /\ ht[b][i] \in KeyNode
  BY FindFirst
<1>2. node \in KeyNode
  BY <1>1 DEF KeyNode
<1>3. [ht EXCEPT ![b][i].notif_pipes = list] = [ht EXCEPT ![b] = [ht[b] EXCEPT ![i] = node]]
  OBVIOUS
<1> HIDE DEF b, i, node
<1>4. [ht EXCEPT ![b][i].notif_pipes = list] \in HashTable
  BY <1>1, <1>2, <1>3, UpdateNode
<1> QED
  BY <1>4 DEF b, i

LEMMA SubscribeTyped ==
  ASSUME NEW ht \in HashTable, NEW k \in Keys, NEW p \in Pipes
  PROVE  execute_subscribe(ht, k, p).ht \in HashTable
<1>1. CASE Has(ht, k)
  <2> DEFINE list == Cons(p, Node(ht, k).notif_pipes)
  <2>1. Node(ht, k).notif_pipes \in Seq(Pipes)
    BY <1>1, FindFirst DEF KeyNode
  <2>2. list \in Seq(Pipes)
    BY <2>1 DEF Cons
  <2>3. execute_subscribe(ht, k, p).ht = [ht EXCEPT ![hash(k)][Find(ht, k)].notif_pipes = list]
    BY <1>1 DEF execute_subscribe, Returns, Node
  <2> HIDE DEF list
  <2> QED
    BY <1>1, <2>2, <2>3, ListChanged
<1>2. CASE ~Has(ht, k)
  BY <1>2 DEF execute_subscribe, Returns
<1> QED
  BY <1>1, <1>2

LEMMA UnsubscribeTyped ==
  ASSUME NEW ht \in HashTable, NEW k \in Keys, NEW p \in Pipes
  PROVE  execute_unsubscribe(ht, k, p).ht \in HashTable
<1>1. CASE Has(ht, k) /\ Contains(Node(ht, k).notif_pipes, p)
  <2> DEFINE list == remove_notif_pipe(Node(ht, k).notif_pipes, p)
  <2>1. Node(ht, k).notif_pipes \in Seq(Pipes)
    BY <1>1, FindFirst DEF KeyNode
  <2>2. list \in Seq(Pipes)
    BY <2>1, ListWithout
  <2>3. execute_unsubscribe(ht, k, p).ht = [ht EXCEPT ![hash(k)][Find(ht, k)].notif_pipes = list]
    BY <1>1 DEF execute_unsubscribe, Returns, Node
  <2> HIDE DEF list
  <2> QED
    BY <1>1, <2>2, <2>3, ListChanged
<1>2. CASE ~(Has(ht, k) /\ Contains(Node(ht, k).notif_pipes, p))
  BY <1>2 DEF execute_unsubscribe, Returns
<1> QED
  BY <1>1, <1>2

LEMMA DisconnectTyped ==
  ASSUME NEW ht \in HashTable, NEW p \in Pipes
  PROVE  execute_disconnect(ht, p).ht \in HashTable
<1> DEFINE new == execute_disconnect(ht, p).ht
           cut(b) == [ht[b] EXCEPT ![1].notif_pipes = remove_notif_pipe(@, p)]
<1>1. new = [b \in Buckets |-> new[b]]
      /\ \A b \in Buckets : new[b] = ht[b] \/ new[b] = cut(b)
  BY DEF execute_disconnect, Returns
<1>2. ASSUME NEW b \in Buckets
      PROVE  cut(b) \in Seq(KeyNode)
  <2>1. ht[b] \in Seq(KeyNode)
    BY DEF HashTable
  <2>2. CASE ht[b] = << >>
    <3>1. cut(b) = << >>
      BY <2>2
    <3> HIDE DEF cut
    <3> QED
      BY <3>1
  <2>3. CASE ht[b] # << >>
    <3> DEFINE node == [ht[b][1] EXCEPT !.notif_pipes = remove_notif_pipe(@, p)]
    <3>1. 1 \in 1..Len(ht[b]) /\ ht[b][1] \in KeyNode
      BY <2>1, <2>3
    <3>2. remove_notif_pipe(ht[b][1].notif_pipes, p) \in Seq(Pipes)
      BY <3>1, ListWithout DEF KeyNode
    <3>3. node \in KeyNode
      BY <3>1, <3>2 DEF KeyNode
    <3>4. cut(b) = [ht[b] EXCEPT ![1] = node]
      OBVIOUS
    <3> HIDE DEF node
    <3> QED
      BY <2>1, <3>1, <3>3, <3>4, ExceptSeq
  <2> QED
    BY <2>2, <2>3
<1>3. \A b \in Buckets : ht[b] \in Seq(KeyNode)
  BY DEF HashTable
<1> HIDE DEF new, cut
<1>4. new \in HashTable
  BY <1>1, <1>2, <1>3 DEF HashTable
<1> QED
  BY <1>4 DEF new

-----------------------------------------------------------------------------
(* Inputs, line by line.                                                   *)
Character == STRING \cup {Newline}

(* FlattenSeq appends one sequence after the other. *)
FlattensTo(seqs, f, n) ==
  f = [i \in 1 .. n |-> IF i = 1 THEN seqs[i] ELSE f[i - 1] \o seqs[i]]

LEMMA FlattenSteps ==
  ASSUME NEW seqs, Len(seqs) \in Nat \ {0}
  PROVE  \E f : FlattensTo(seqs, f, Len(seqs)) /\ FlattenSeq(seqs) = f[Len(seqs)]
<1> DEFINE n == Len(seqs)
           Holding == {k \in 1 .. n : \E f : FlattensTo(seqs, f, k)}
<1>1. 1 .. n \subseteq Holding
  <2> SUFFICES ASSUME ~(1 .. n \subseteq Holding)
               PROVE  FALSE
    OBVIOUS
  <2>1. PICK k \in 1 .. n : k \notin Holding /\ 1 .. k - 1 \subseteq Holding
    <3> HIDE DEF Holding
    <3> QED
      BY FirstFailure
  <2>2. CASE k = 1
    <3> DEFINE f == [i \in 1 .. 1 |-> seqs[i]]
    <3>1. f = [i \in 1 .. 1 |-> IF i = 1 THEN seqs[i] ELSE f[i - 1] \o seqs[i]]
      OBVIOUS
    <3> QED
      BY <2>1, <2>2, <3>1 DEF FlattensTo
  <2>3. CASE k # 1
    <3>1. k - 1 \in 1 .. k - 1
      BY <2>3
    <3>2. PICK g : FlattensTo(seqs, g, k - 1)
      BY <2>1, <3>1
    <3> DEFINE f == [i \in 1 .. k |-> IF i < k THEN g[i] ELSE g[k - 1] \o seqs[k]]
    <3>3. ASSUME NEW i \in 1 .. k
          PROVE  f[i] = IF i = 1 THEN seqs[i] ELSE f[i - 1] \o seqs[i]
      <4>1. CASE i = k
        <5>1. k - 1 \in 1 .. k /\ k - 1 < k /\ k \in 1 .. k /\ ~(k < k)
          BY <2>3
        <5>2. f[k - 1] = g[k - 1] /\ f[k] = g[k - 1] \o seqs[k]
          BY <5>1
        <5> HIDE DEF f
        <5> QED
          BY <2>3, <4>1, <5>2
      <4>2. CASE i # k
        <5>1. i \in 1 .. k - 1 /\ i < k /\ (i # 1 => i - 1 \in 1 .. k - 1 /\ i - 1 < k)
          BY <4>2
        <5>2. g[i] = IF i = 1 THEN seqs[i] ELSE g[i - 1] \o seqs[i]
          BY <3>2, <5>1 DEF FlattensTo
        <5> QED
          BY <5>1, <5>2
      <4> QED
        BY <4>1, <4>2
    <3>4. f = [i \in 1 .. k |-> IF i = 1 THEN seqs[i] ELSE f[i - 1] \o seqs[i]]
      <4> DEFINE h == [i \in 1 .. k |-> IF i = 1 THEN seqs[i] ELSE f[i - 1] \o seqs[i]]
      <4>1. \A i \in 1 .. k : f[i] = h[i]
        BY <3>3
      <4>2. DOMAIN f = 1 .. k /\ DOMAIN h = 1 .. k
        OBVIOUS
      <4> QED
        BY <4>1
    <3> QED
      BY <2>1, <3>4 DEF FlattensTo
  <2> QED
    BY <2>2, <2>3
<1>2. PICK g : FlattensTo(seqs, g, n)
  <2>1. n \in 1 .. n
    OBVIOUS
  <2> QED
    BY <1>1, <2>1
<1> DEFINE flatten[i \in 1 .. Len(seqs)] == IF i = 1 THEN seqs[i] ELSE flatten[i - 1] \o seqs[i]
<1>3. FlattensTo(seqs, flatten, n)
  BY <1>2, Zenon DEF FlattensTo
<1>4. FlattenSeq(seqs) = flatten[Len(seqs)]
  BY Zenon DEF FlattenSeq
<1> HIDE DEF flatten
<1> QED
  BY <1>3, <1>4

\* A line of characters, none of which is a newline.
IsLine(chars) == chars \in Seq(Character) /\ \A i \in 1..Len(chars) : chars[i] # Newline

\* The line is in the text t from b on, and ends with a newline before e.
Laid(chars, b, e, t) ==
  /\ e = b + Len(chars) + 1 /\ t[e - 1] = Newline
  /\ \A i \in 1..Len(chars) : t[b + i - 1] = chars[i]

\* Line k of the text begins at f[k].
Layout(lines, f, t) ==
  LET n == Len(lines)
  IN  /\ n \in Nat /\ f \in [1..(n + 1) -> Nat \ {0}] /\ f[1] = 1
      /\ t \in Seq(Character) /\ Len(t) = f[n + 1] - 1
      /\ \A k \in 1..n : IsLine(lines[k].chars) /\ Laid(lines[k].chars, f[k], f[k + 1], t)

(* A line with its newline.                                                *)
LEMMA EndedLine ==
  ASSUME NEW chars, IsLine(chars)
  PROVE  /\ Len(chars) \in Nat
         /\ chars \o <<Newline>> \in Seq(Character) /\ Len(chars \o <<Newline>>) = Len(chars) + 1
         /\ \A i \in 1..Len(chars) : (chars \o <<Newline>>)[i] = chars[i]
         /\ (chars \o <<Newline>>)[Len(chars) + 1] = Newline
<1>1. PICK x : x = Newline
  OBVIOUS
<1>2. <<x>> \in Seq(Character) /\ Len(<<x>>) = 1 /\ <<x>>[1] = x
  <2>1. x \in Character
    BY <1>1 DEF Character
  <2> QED
    BY <2>1
<1>3. chars \in Seq(Character) /\ Len(chars) \in Nat
  BY LenProperties DEF IsLine
<1>4. PICK u : u = chars \o <<x>>
  OBVIOUS
<1>5. /\ u \in Seq(Character) /\ Len(u) = Len(chars) + 1
      /\ \A i \in 1..Len(chars) + 1 : u[i] = IF i <= Len(chars) THEN chars[i] ELSE <<x>>[i - Len(chars)]
  BY <1>2, <1>3, <1>4, ConcatProperties
<1>6. \A i \in 1..Len(chars) : i \in 1..Len(chars) + 1 /\ i <= Len(chars)
  BY <1>3
<1>7. Len(chars) + 1 \in 1..Len(chars) + 1 /\ ~(Len(chars) + 1 <= Len(chars)) /\ Len(chars) + 1 - Len(chars) = 1
  BY <1>3
<1>8. u[Len(chars) + 1] = x
  BY <1>2, <1>5, <1>7
<1>9. \A i \in 1..Len(chars) : u[i] = chars[i]
  BY <1>5, <1>6
<1> QED
  BY <1>1, <1>3, <1>4, <1>5, <1>8, <1>9

(* What is laid in a text stays there when a line is added.                *)
LEMMA LaidLonger ==
  ASSUME NEW t \in Seq(Character), NEW u \in Seq(Character), NEW chars, IsLine(chars),
         NEW b \in Nat \ {0}, NEW e \in Nat, e <= Len(t) + 1, Laid(chars, b, e, t)
  PROVE  Laid(chars, b, e, t \o u)
<1>1. Len(t) \in Nat /\ Len(u) \in Nat /\ Len(chars) \in Nat
  BY LenProperties DEF IsLine
<1>2. PICK v : v = t \o u
  OBVIOUS
<1>3. \A i \in 1..Len(t) : v[i] = t[i]
  <2>1. \A i \in 1..Len(t) + Len(u) : v[i] = IF i <= Len(t) THEN t[i] ELSE u[i - Len(t)]
    BY <1>2, ConcatProperties
  <2>2. \A i \in 1..Len(t) : i \in 1..Len(t) + Len(u) /\ i <= Len(t)
    BY <1>1
  <2> QED
    BY <2>1, <2>2
<1>4. e = b + Len(chars) + 1 /\ t[e - 1] = Newline /\ \A i \in 1..Len(chars) : t[b + i - 1] = chars[i]
  BY DEF Laid
<1>5. e - 1 \in 1..Len(t) /\ \A i \in 1..Len(chars) : b + i - 1 \in 1..Len(t)
  BY <1>1, <1>4
<1>6. v[e - 1] = Newline /\ \A i \in 1..Len(chars) : v[b + i - 1] = chars[i]
  BY <1>3, <1>4, <1>5
<1> QED
  BY <1>2, <1>4, <1>6 DEF Laid

(* The line a text ends with is laid in it.                                *)
LEMMA LaidLast ==
  ASSUME NEW t \in Seq(Character), NEW chars, IsLine(chars)
  PROVE  Laid(chars, Len(t) + 1, Len(t) + Len(chars) + 2, t \o (chars \o <<Newline>>))
<1>1. PICK u : u = chars \o <<Newline>>
  OBVIOUS
<1>2. /\ Len(chars) \in Nat /\ u \in Seq(Character) /\ Len(u) = Len(chars) + 1
      /\ \A i \in 1..Len(chars) : u[i] = chars[i]
      /\ u[Len(chars) + 1] = Newline
  BY <1>1, EndedLine
<1>3. PICK v : v = t \o u
  OBVIOUS
<1>4. Len(t) \in Nat /\ \A i \in 1..Len(t) + Len(u) : v[i] = IF i <= Len(t) THEN t[i] ELSE u[i - Len(t)]
  BY <1>2, <1>3, ConcatProperties, LenProperties
<1>5. ASSUME NEW i \in 1..Len(u)
      PROVE  v[Len(t) + i] = u[i]
  <2>1. PICK j : j = Len(t) + i
    OBVIOUS
  <2>2. j \in 1..Len(t) + Len(u) /\ ~(j <= Len(t)) /\ j - Len(t) = i
    BY <1>2, <1>4, <2>1
  <2> QED
    BY <1>4, <2>1, <2>2
<1>6. v[Len(t) + (Len(chars) + 1)] = Newline
  <2>1. Len(chars) + 1 \in 1..Len(u)
    BY <1>2
  <2> QED
    BY <1>2, <1>5, <2>1
<1>7. \A i \in 1..Len(chars) : v[Len(t) + i] = chars[i]
  <2>1. \A i \in 1..Len(chars) : i \in 1..Len(u)
    BY <1>2
  <2> QED
    BY <1>2, <1>5, <2>1
<1>8. /\ Len(t) + Len(chars) + 2 - 1 = Len(t) + (Len(chars) + 1)
      /\ Len(t) + Len(chars) + 2 = Len(t) + 1 + Len(chars) + 1
      /\ \A i \in 1..Len(chars) : Len(t) + 1 + i - 1 = Len(t) + i
  BY <1>2, <1>4
<1>9. /\ v[Len(t) + Len(chars) + 2 - 1] = Newline
      /\ \A i \in 1..Len(chars) : v[Len(t) + 1 + i - 1] = chars[i]
  BY <1>6, <1>7, <1>8
<1> QED
  BY <1>1, <1>3, <1>8, <1>9 DEF Laid

(* Every input has such a layout.                                          *)
LEMMA LayoutExists ==
  ASSUME NEW n \in Nat, NEW lines, DOMAIN lines = 1..n, Len(lines) = n,
         \A k \in 1..n : IsLine(lines[k].chars)
  PROVE  \E f : Layout(lines, f, Ended(lines))
<1> DEFINE seqs == [i \in DOMAIN lines |-> lines[i].chars \o <<Newline>>]
<1>1. \A i \in 1..n : seqs[i] = lines[i].chars \o <<Newline>> /\ seqs[i] \in Seq(Character)
  BY EndedLine
<1>2. Len(seqs) = n /\ Len(seqs) \in Nat
  <2>1. seqs \in [1..n -> Seq(Character)]
    BY <1>1
  <2> HIDE DEF seqs
  <2> QED
    BY <2>1, FunctionIsSeq
<1>3. Ended(lines) = FlattenSeq(seqs)
  BY DEF Ended
<1>4. CASE n = 0
  <2>1. Ended(lines) = seqs
    BY <1>2, <1>3, <1>4 DEF FlattenSeq
  <2>2. seqs = << >>
    <3>1. seqs \in [1..0 -> Seq(Character)]
      BY <1>1, <1>4
    <3> HIDE DEF seqs
    <3>2. seqs \in Seq(Seq(Character)) /\ Len(seqs) = 0
      BY <3>1, FunctionIsSeq
    <3> QED
      BY <3>2
  <2> DEFINE f == [k \in 1..(0 + 1) |-> 1]
  <2>3. f \in [1..(0 + 1) -> Nat \ {0}] /\ f[1] = 1 /\ f[0 + 1] = 1
    OBVIOUS
  <2>4. << >> \in Seq(Character) /\ Len(<< >>) = 1 - 1 /\ 0 \in Nat
    OBVIOUS
  <2> HIDE DEF f, seqs
  <2>5. Layout(lines, f, << >>)
    BY <1>4, <2>3, <2>4 DEF Layout
  <2> QED
    BY <2>1, <2>2, <2>5
<1>5. CASE n # 0
  <2> HIDE DEF seqs
  <2>1. PICK g : FlattensTo(seqs, g, n) /\ FlattenSeq(seqs) = g[n]
    BY <1>2, <1>5, FlattenSteps
  <2>2. \A i \in 1..n : g[i] = IF i = 1 THEN seqs[i] ELSE g[i - 1] \o seqs[i]
    BY <2>1 DEF FlattensTo
  <2> DEFINE f == [k \in 1..(n + 1) |-> IF k = 1 THEN 1 ELSE Len(g[k - 1]) + 1]
             LaidUpTo(k) == /\ g[k] \in Seq(Character)
                            /\ \A j \in 1..k : /\ f[j] \in Nat \ {0} /\ f[j + 1] \in Nat \ {0}
                                               /\ f[j + 1] <= Len(g[k]) + 1
                                               /\ Laid(lines[j].chars, f[j], f[j + 1], g[k])
             Holding == {k \in 1..n : LaidUpTo(k)}
  <2>3. f[1] = 1 /\ \A k \in 1..n : f[k + 1] = Len(g[k]) + 1
    <3>1. 1 \in 1..(n + 1)
      OBVIOUS
    <3>2. ASSUME NEW k \in 1..n
          PROVE  f[k + 1] = Len(g[k]) + 1
      <4>1. k + 1 \in 1..(n + 1) /\ k + 1 # 1 /\ k + 1 - 1 = k
        OBVIOUS
      <4> QED
        BY <4>1
    <3> QED
      BY <3>1, <3>2
  <2> HIDE DEF f
  <2>4. ASSUME NEW k \in 1..n, g[k] \in Seq(Character), Len(g[k]) \in Nat \ {0},
               NEW t \in Seq(Character), f[k] = Len(t) + 1, g[k] = t \o seqs[k]
        PROVE  /\ f[k] \in Nat \ {0} /\ f[k + 1] \in Nat \ {0} /\ f[k + 1] <= Len(g[k]) + 1
               /\ Laid(lines[k].chars, f[k], f[k + 1], g[k])
    <3>1. IsLine(lines[k].chars) /\ Len(lines[k].chars) \in Nat
      BY EndedLine
    <3>2. g[k] = t \o (lines[k].chars \o <<Newline>>)
      BY <1>1, <2>4
    <3>3. Laid(lines[k].chars, Len(t) + 1, Len(t) + Len(lines[k].chars) + 2, g[k])
      BY <3>1, <3>2, LaidLast
    <3>4. Len(seqs[k]) = Len(lines[k].chars) + 1 /\ seqs[k] \in Seq(Character)
      BY <1>1, <3>1, EndedLine
    <3>5. Len(g[k]) = Len(t) + Len(seqs[k]) /\ Len(t) \in Nat
      BY <2>4, <3>4, ConcatProperties, LenProperties
    <3> DEFINE a == Len(t)
               b == Len(lines[k].chars)
               c == Len(g[k])
    <3>8. a \in Nat /\ b \in Nat /\ c = a + (b + 1) /\ f[k + 1] = c + 1 /\ f[k] = a + 1
      BY <2>3, <2>4, <3>1, <3>4, <3>5
    <3>6. f[k + 1] = Len(t) + Len(lines[k].chars) + 2
      <4> HIDE DEF a, b, c
      <4>1. f[k + 1] = a + b + 2
        BY <3>8
      <4> QED
        BY <4>1 DEF a, b
    <3>7. f[k] \in Nat \ {0} /\ f[k + 1] \in Nat \ {0} /\ f[k + 1] <= Len(g[k]) + 1
      <4> HIDE DEF a, b, c
      <4>1. f[k] \in Nat \ {0} /\ f[k + 1] \in Nat \ {0} /\ f[k + 1] <= c + 1
        BY <3>8
      <4> QED
        BY <4>1 DEF c
    <3> QED
      BY <2>4, <3>3, <3>6, <3>7
  <2>5. 1..n \subseteq Holding
    <3> SUFFICES ASSUME ~(1..n \subseteq Holding)
                 PROVE  FALSE
      OBVIOUS
    <3>1. PICK k \in 1..n : k \notin Holding /\ 1..(k - 1) \subseteq Holding
      <4> HIDE DEF Holding
      <4> QED
        BY FirstFailure
    <3>2. CASE k = 1
      <4>1. g[k] = seqs[k] /\ g[k] \in Seq(Character)
        BY <1>1, <2>2, <3>2
      <4>2. << >> \in Seq(Character) /\ << >> \o seqs[k] = seqs[k] /\ Len(<< >>) = 0
        BY <1>1, ConcatEmptySeq
      <4>3. Len(g[k]) \in Nat \ {0}
        <5>1. Len(seqs[k]) = Len(lines[k].chars) + 1 /\ Len(lines[k].chars) \in Nat
          BY <1>1, EndedLine
        <5> QED
          BY <4>1, <5>1
      <4>4. f[k] = Len(<< >>) + 1
        BY <2>3, <3>2, <4>2
      <4>5. /\ f[k] \in Nat \ {0} /\ f[k + 1] \in Nat \ {0} /\ f[k + 1] <= Len(g[k]) + 1
            /\ Laid(lines[k].chars, f[k], f[k + 1], g[k])
        BY <2>4, <4>1, <4>2, <4>3, <4>4
      <4>6. LaidUpTo(k)
        BY <3>2, <4>1, <4>5
      <4> QED
        BY <3>1, <4>6
    <3>3. CASE k # 1
      <4>1. PICK m : m = k - 1
        OBVIOUS
      <4>2. m \in 1..(k - 1) /\ m \in 1..n /\ m + 1 = k
        BY <3>3, <4>1
      <4>3. LaidUpTo(m)
        BY <3>1, <4>2
      <4>4. g[k] = g[m] \o seqs[k] /\ g[m] \in Seq(Character) /\ seqs[k] \in Seq(Character)
        BY <1>1, <2>2, <3>3, <4>1, <4>3
      <4>5. g[k] \in Seq(Character) /\ Len(g[k]) = Len(g[m]) + Len(seqs[k]) /\ Len(g[m]) \in Nat
        BY <4>4, ConcatProperties, LenProperties
      <4>6. Len(g[k]) \in Nat \ {0} /\ Len(g[k]) >= Len(g[m])
        <5>1. Len(seqs[k]) = Len(lines[k].chars) + 1 /\ Len(lines[k].chars) \in Nat
          BY <1>1, EndedLine
        <5> DEFINE a == Len(g[m])
                   b == Len(lines[k].chars)
                   c == Len(g[k])
        <5>2. a \in Nat /\ b \in Nat /\ c = a + (b + 1)
          BY <4>5, <5>1
        <5> HIDE DEF a, b, c
        <5>3. c \in Nat \ {0} /\ c >= a
          BY <5>2
        <5> QED
          BY <5>3 DEF a, c
      <4>7. f[k] = Len(g[m]) + 1
        BY <2>3, <4>2
      <4>8. /\ f[k] \in Nat \ {0} /\ f[k + 1] \in Nat \ {0} /\ f[k + 1] <= Len(g[k]) + 1
            /\ Laid(lines[k].chars, f[k], f[k + 1], g[k])
        BY <2>4, <4>4, <4>5, <4>6, <4>7
      <4>9. ASSUME NEW j \in 1..m
            PROVE  /\ f[j] \in Nat \ {0} /\ f[j + 1] \in Nat \ {0} /\ f[j + 1] <= Len(g[k]) + 1
                   /\ Laid(lines[j].chars, f[j], f[j + 1], g[k])
        <5>1. /\ f[j] \in Nat \ {0} /\ f[j + 1] \in Nat \ {0} /\ f[j + 1] <= Len(g[m]) + 1
              /\ Laid(lines[j].chars, f[j], f[j + 1], g[m])
          BY <4>3
        <5>2. IsLine(lines[j].chars)
          BY <4>2
        <5>3. Laid(lines[j].chars, f[j], f[j + 1], g[m] \o seqs[k])
          BY <4>4, <5>1, <5>2, LaidLonger
        <5>4. f[j + 1] <= Len(g[k]) + 1
          <6> DEFINE a == Len(g[m])
                     c == Len(g[k])
                     e == f[j + 1]
          <6>1. a \in Nat /\ c \in Nat /\ c >= a /\ e \in Nat /\ e <= a + 1
            BY <4>5, <4>6, <5>1
          <6> HIDE DEF a, c, e
          <6>2. e <= c + 1
            BY <6>1
          <6> QED
            BY <6>2 DEF c, e
        <5> QED
          BY <4>4, <5>1, <5>3, <5>4
      <4>10. \A j \in 1..k : j \in 1..m \/ j = k
        BY <4>2
      <4>11. LaidUpTo(k)
        BY <4>5, <4>8, <4>9, <4>10
      <4> QED
        BY <3>1, <4>11
    <3> QED
      BY <3>2, <3>3
  <2>6. n \in 1..n
    BY <1>5
  <2>7. LaidUpTo(n)
    BY <2>5, <2>6
  <2>8. f \in [1..(n + 1) -> Nat \ {0}]
    <3>1. ASSUME NEW k \in 1..(n + 1)
          PROVE  f[k] \in Nat \ {0}
      <4>1. CASE k = n + 1
        BY <2>6, <2>7, <4>1
      <4>2. CASE k # n + 1
        <5>1. k \in 1..n
          BY <4>2
        <5> QED
          BY <2>7, <5>1
      <4> QED
        BY <4>1, <4>2
    <3> QED
      BY <3>1 DEF f
  <2>9. Len(g[n]) = f[n + 1] - 1
    <3>1. Len(g[n]) \in Nat
      BY <2>7, LenProperties
    <3> QED
      BY <2>3, <2>6, <3>1
  <2>10. \A k \in 1..n : IsLine(lines[k].chars) /\ Laid(lines[k].chars, f[k], f[k + 1], g[n])
    BY <2>7
  <2>11. Layout(lines, f, g[n])
    BY <2>3, <2>7, <2>8, <2>9, <2>10 DEF Layout
  <2> QED
    BY <1>3, <2>1, <2>11
<1> QED
  BY <1>4, <1>5

(* What the layout says of line k.                                         *)
LEMMA LayoutFacts ==
  ASSUME NEW lines, NEW f, NEW t, Layout(lines, f, t), NEW k \in 1..Len(lines)
  PROVE  /\ Len(lines) \in Nat /\ k + 1 \in 1..(Len(lines) + 1)
         /\ f[k] \in Nat \ {0} /\ f[k + 1] \in Nat \ {0} /\ Len(lines[k].chars) \in Nat
         /\ f[k + 1] = f[k] + Len(lines[k].chars) + 1
         /\ t[f[k + 1] - 1] = Newline
         /\ \A i \in 1..Len(lines[k].chars) :
              /\ t[f[k] + i - 1] = lines[k].chars[i] /\ lines[k].chars[i] # Newline
              /\ lines[k].chars[i] \in Character
<1> DEFINE n == Len(lines)
<1>1. /\ n \in Nat /\ f \in [1..(n + 1) -> Nat \ {0}]
      /\ IsLine(lines[k].chars) /\ Laid(lines[k].chars, f[k], f[k + 1], t)
  BY DEF Layout
<1>2. k \in 1..(n + 1) /\ k + 1 \in 1..(n + 1)
  BY <1>1
<1>3. Len(lines[k].chars) \in Nat /\ \A i \in 1..Len(lines[k].chars) : lines[k].chars[i] \in Character
  BY <1>1, LenProperties, ElementOfSeq DEF IsLine
<1> QED
  BY <1>1, <1>2, <1>3 DEF Laid, IsLine

(* No newline within a line.                                               *)
LEMMA LaidNotNewline ==
  ASSUME NEW lines, NEW f, NEW t, Layout(lines, f, t), NEW k \in 1..Len(lines)
  PROVE  \A i \in 1..Len(lines[k].chars) : t[f[k] + i - 1] # Newline
<1>1. \A i \in 1..Len(lines[k].chars) :
        /\ t[f[k] + i - 1] = lines[k].chars[i] /\ lines[k].chars[i] # Newline
        /\ lines[k].chars[i] \in Character
  BY LayoutFacts, Zenon
<1> QED
  BY <1>1, Zenon

(* Lines follow each other.                                                *)
LEMMA LayoutOrder ==
  ASSUME NEW lines, NEW f, NEW t, Layout(lines, f, t), NEW j \in 1..(Len(lines) + 1)
  PROVE  /\ Len(lines) \in Nat /\ Len(t) \in Nat /\ f[Len(lines) + 1] = Len(t) + 1
         /\ f[j] \in Nat \ {0} /\ f[j] <= Len(t) + 1
         /\ \A k \in (j + 1)..(Len(lines) + 1) : f[k] \in Nat \ {0} /\ f[j] < f[k]
<1> DEFINE n == Len(lines)
<1>1. /\ n \in Nat /\ f \in [1..(n + 1) -> Nat \ {0}]
      /\ t \in Seq(Character) /\ Len(t) = f[n + 1] - 1
  BY DEF Layout
<1> DEFINE P == {m \in Nat : j + m + 1 <= n + 1 => f[j + m + 1] \in Nat \ {0} /\ f[j] < f[j + m + 1]}
<1>2. f[j] \in Nat \ {0} /\ j \in Nat \ {0}
  BY <1>1
<1>3. ASSUME NEW m \in Nat, NEW q \in 1..n, q = j + m, m = 0 \/ f[j] < f[q]
      PROVE  m \in P
  <2>1. /\ f[q] \in Nat \ {0} /\ f[q + 1] \in Nat \ {0} /\ Len(lines[q].chars) \in Nat
        /\ f[q + 1] = f[q] + Len(lines[q].chars) + 1
    BY LayoutFacts
  <2>2. f[q] < f[q + 1] /\ f[j] <= f[q]
    <3>1. f[q] < f[q + 1]
      <4> DEFINE a == f[q]
                 b == f[q + 1]
                 c == Len(lines[q].chars)
      <4>1. a \in Nat /\ c \in Nat /\ b = a + c + 1
        BY <2>1
      <4> HIDE DEF a, b, c
      <4>2. a < b
        BY <4>1
      <4> QED
        BY <4>2 DEF a, b
    <3>2. m = 0 => q = j
      BY <1>2, <1>3
    <3> QED
      BY <1>2, <1>3, <2>1, <3>1, <3>2
  <2>3. f[j] < f[q + 1]
    BY <1>2, <2>1, <2>2
  <2> QED
    BY <1>3, <2>1, <2>3
<1>4. 0 \in P
  <2>1. CASE j + 0 + 1 <= n + 1
    <3>1. PICK q : q = j + 0
      OBVIOUS
    <3>2. q \in 1..n
      BY <1>1, <1>2, <2>1, <3>1
    <3> QED
      BY <1>3, <3>1, <3>2
  <2> QED
    BY <2>1
<1>5. ASSUME NEW m \in Nat, m \in P
      PROVE  m + 1 \in P
  <2>1. CASE j + (m + 1) + 1 <= n + 1
    <3>1. PICK q : q = j + (m + 1)
      OBVIOUS
    <3>2. q \in 1..n /\ q = j + m + 1 /\ j + m + 1 <= n + 1 /\ m + 1 \in Nat
      BY <1>1, <1>2, <2>1, <3>1
    <3>3. f[j] < f[q]
      BY <1>5, <3>2
    <3> QED
      BY <1>3, <3>1, <3>2, <3>3
  <2> QED
    BY <2>1
<1>6. Nat \subseteq P
  <2> HIDE DEF P
  <2> QED
    BY <1>4, <1>5, NaturalsByStep
<1>7. ASSUME NEW k \in (j + 1)..(n + 1)
      PROVE  f[k] \in Nat \ {0} /\ f[j] < f[k]
  <2>1. PICK m : m = k - j - 1
    OBVIOUS
  <2>2. m \in Nat /\ k = j + m + 1 /\ j + m + 1 <= n + 1
    BY <1>1, <1>2, <2>1
  <2> QED
    BY <1>6, <2>2
<1>8. f[n + 1] = Len(t) + 1
  BY <1>1
<1>9. f[j] <= Len(t) + 1
  <2>1. n + 1 \in (j + 1)..(n + 1) \/ j = n + 1
    BY <1>1, <1>2
  <2>2. f[j] <= f[n + 1]
    BY <1>1, <1>2, <1>7, <2>1
  <2> QED
    BY <1>8, <2>2
<1>10. Len(t) \in Nat
  BY <1>1
<1> QED
  BY <1>1, <1>2, <1>7, <1>8, <1>9, <1>10

(* What is known of a line of the script.                                  *)
LEMMA LinesKnown ==
  ASSUME script \in Scripts, NEW k \in 1..Len(script)
  PROVE  /\ script[k].chars \in Seq(STRING) /\ script[k].chars \in Seq(Character) /\ Len(script[k].chars) \in Nat
         /\ \A i \in 1..Len(script[k].chars) : script[k].chars[i] # Newline
         /\ IsLine(script[k].chars) /\ IsOfClass(script[k])
         /\ script[k].means.args \in Seq(Seq(STRING))
<1>1. script \in Seq(ToSet(script))
  BY LinesAssumption
<1>2. k \in DOMAIN script
  BY <1>1, LenProperties
<1>3. /\ script[k].chars \in Seq(STRING) /\ Newline \notin ToSet(script[k].chars) /\ IsOfClass(script[k])
      /\ script[k].means.args \in Seq(Seq(STRING))
  BY <1>2, LinesAssumption
<1>4. PICK s : s = script[k].chars
  OBVIOUS
<1>5. s \in Seq(STRING) /\ Newline \notin ToSet(s) /\ Len(s) \in Nat /\ DOMAIN s = 1..Len(s)
  BY <1>3, <1>4, LenProperties
<1>6. \A i \in 1..Len(s) : s[i] # Newline
  BY <1>5 DEF ToSet
<1>7. STRING \subseteq Character
  BY DEF Character
<1>8. s \in Seq(Character)
  BY <1>5, <1>7, WiderSeq
<1>9. IsLine(s)
  BY <1>6, <1>8 DEF IsLine
<1> QED
  BY <1>3, <1>4, <1>5, <1>6, <1>8, <1>9

(* The text of a script has a layout.                                      *)
LEMMA ScriptLaid ==
  ASSUME script \in Scripts
  PROVE  Len(script) \in Nat /\ \E f : Layout(script, f, Ended(script))
<1>1. script \in Seq(ToSet(script))
  BY LinesAssumption
<1>2. Len(script) \in Nat /\ DOMAIN script = 1..Len(script)
  BY <1>1, LenProperties
<1>3. PICK n : n = Len(script)
  OBVIOUS
<1>4. \A k \in 1..n : IsLine(script[k].chars)
  BY <1>3, LinesKnown
<1> QED
  BY <1>2, <1>3, <1>4, LayoutExists

-----------------------------------------------------------------------------
(* Where the reads of the parser end.                                      *)
(* The end is a place in the text.                                         *)
LEMMA TextEnd ==
  ASSUME text \in Seq(Character)
  PROVE  Len(text) \in Nat /\ End = Len(text) + 1 /\ End \in 1..End
BY DEF End

(* Seek finds the first of the characters, or the end.                     *)
LEMMA SeekEnds ==
  ASSUME text \in Seq(Character), NEW p \in 1..End, NEW chars
  PROVE  /\ Seek(p, chars) \in p..End
         /\ Seek(p, chars) # End => text[Seek(p, chars)] \in chars
         /\ \A i \in p..Len(text) : text[i] \in chars => Seek(p, chars) <= i
<1> DEFINE I == {i \in p..Len(text) : text[i] \in chars} \cup {End}
<1>1. Len(text) \in Nat /\ End = Len(text) + 1
  BY TextEnd
<1>2. I \in SUBSET Nat /\ I # {} /\ I \subseteq p..End
  BY <1>1
<1>3. Min(I) \in I /\ \A i \in I : Min(I) <= i
  BY <1>2, MinimumExists
<1> QED
  BY <1>2, <1>3 DEF Seek

(* Passed goes on by n, at most to the end.                                *)
LEMMA PassedEnds ==
  ASSUME text \in Seq(Character), NEW p \in 1..End, NEW n \in Nat
  PROVE  /\ Passed(p, n) \in p..End
         /\ p + n <= End => Passed(p, n) = p + n
         /\ p + n > End => Passed(p, n) = End
<1> DEFINE I == {p + n, End}
<1>1. Len(text) \in Nat /\ End = Len(text) + 1
  BY TextEnd
<1>2. I \in SUBSET Nat /\ I # {} /\ End \in I /\ p + n \in I
  BY <1>1
<1>3. Min(I) \in I /\ \A i \in I : Min(I) <= i
  BY <1>2, MinimumExists
<1>4. p + n \in Nat /\ End \in Nat /\ p <= End /\ p <= p + n
  BY <1>1
<1>5. Passed(p, n) = Min(I)
  BY DEF Passed
<1> QED
  BY <1>2, <1>3, <1>4, <1>5

LEMMA CleanupEnds ==
  ASSUME text \in Seq(Character), NEW p \in 1..End
  PROVE  cleanup(p) \in 1..End
<1> DEFINE s == Seek(p, {Newline})
<1>1. Len(text) \in Nat /\ End = Len(text) + 1
  BY TextEnd
<1>2. s \in p..End
  BY SeekEnds
<1> HIDE DEF s
<1>3. s \in 1..End /\ 1 \in Nat
  BY <1>1, <1>2
<1>4. Passed(s, 1) \in s..End
  BY <1>3, PassedEnds
<1> QED
  BY <1>1, <1>3, <1>4 DEF cleanup, s

LEMMA ReadEndEnds ==
  ASSUME text \in Seq(Character), NEW p \in 1..End, NEW n \in Nat
  PROVE  ReadEnd(p, n) \in p..End
<1> DEFINE s == Seek(p, {Newline})
           q == Passed(p, n)
           m == Passed(s, 1)
<1>1. Len(text) \in Nat /\ End = Len(text) + 1
  BY TextEnd
<1>2. s \in p..End /\ q \in p..End
  BY SeekEnds, PassedEnds
<1> HIDE DEF s
<1>3. s \in 1..End /\ 1 \in Nat
  BY <1>1, <1>2
<1>4. m \in s..End
  BY <1>3, PassedEnds
<1> HIDE DEF q, m
<1>5. {q, m} \in SUBSET Nat /\ {q, m} # {}
  BY <1>1, <1>2, <1>4
<1>6. Min({q, m}) \in {q, m}
  BY <1>5, MinimumExists
<1>7. ReadEnd(p, n) \in {q, Min({q, m})}
  BY DEF ReadEnd, q, m, s
<1> QED
  BY <1>1, <1>2, <1>4, <1>6, <1>7

LEMMA ReadUintEnds ==
  ASSUME text \in Seq(Character), NEW p \in 1..End
  PROVE  read_uint(p).stop \in 1..End
<1> DEFINE I == {i \in p..Len(text) : text[i] \notin Digits} \cup {End}
<1>1. Len(text) \in Nat /\ End = Len(text) + 1
  BY TextEnd
<1>2. I \in SUBSET Nat /\ I # {} /\ I \subseteq 1..End
  BY <1>1
<1>3. Min(I) \in I
  BY <1>2, MinimumExists
<1>4. read_uint(p).stop = Min(I)
  BY DEF read_uint
<1> QED
  BY <1>2, <1>3, <1>4

LEMMA NoCommandEnds ==
  ASSUME text \in Seq(Character), NEW p \in 1..Len(text)
  PROVE  NoCommandEnd(p) \in p..End /\ NoCommandEnd(p) \in 1..End
<1>1. Len(text) \in Nat /\ End = Len(text) + 1
  BY TextEnd
<1>2. PICK q : q = p + 1
  OBVIOUS
<1>3. q \in 1..End /\ p <= q /\ 9 \in Nat /\ 11 \in Nat /\ 5 \in Nat /\ 4 \in Nat
  BY <1>1, <1>2
<1>4. ReadEnd(q, 9) \in q..End /\ ReadEnd(q, 11) \in q..End /\ ReadEnd(q, 5) \in q..End
  BY <1>3, ReadEndEnds
<1>5. PICK r : r = ReadEnd(q, 5)
  OBVIOUS
<1>6. r \in 1..End /\ q <= r
  BY <1>1, <1>3, <1>4, <1>5
<1>7. ReadEnd(r, 4) \in r..End
  BY <1>3, <1>6, ReadEndEnds
<1>8. NoCommandEnd(p) \in {ReadEnd(q, 9), ReadEnd(q, 11), ReadEnd(r, 4), q}
  BY <1>2, <1>5 DEF NoCommandEnd
<1>9. \A x \in {ReadEnd(q, 9), ReadEnd(q, 11), ReadEnd(r, 4), q} : x \in p..End /\ x \in 1..End
  BY <1>1, <1>3, <1>4, <1>6, <1>7
<1> QED
  BY <1>8, <1>9

(* The keywords.                                                           *)
LEMMA Keywords ==
  /\ DOMAIN Keyword = {"SUBSCRIBE", "UNSUBSCRIBE", "DELAY", "DISCONNECT"}
  /\ Len(Keyword["SUBSCRIBE"]) = 10 /\ Len(Keyword["UNSUBSCRIBE"]) = 12
  /\ Len(Keyword["DELAY"]) = 6 /\ Len(Keyword["DISCONNECT"]) = 10
  /\ Keyword["SUBSCRIBE"][1] = "S" /\ Keyword["UNSUBSCRIBE"][1] = "U"
  /\ Keyword["DELAY"][1] = "D" /\ Keyword["DISCONNECT"][1] = "D"
  /\ Keyword["DELAY"][2] = "E" /\ Keyword["DISCONNECT"][2] = "I"
BY DEF Keyword

Letters == {"S", "U", "B", "C", "R", "I", "E", " ", "N", "D", "L", "A", "Y", "O", "T"}

LEMMA KeywordTyped ==
  ASSUME NEW c \in DOMAIN Keyword
  PROVE  /\ Keyword[c] \in Seq(Letters) /\ Len(Keyword[c]) \in 6..12
         /\ \A i \in 1..Len(Keyword[c]) : Keyword[c][i] # Newline
<1> DEFINE L == Letters
<1> USE DEF Letters
<1>1. Newline \notin L
  BY DEF Newline
<1>2. c \in {"SUBSCRIBE", "UNSUBSCRIBE", "DELAY", "DISCONNECT"}
  BY Keywords
<1>3. Len(Keyword[c]) \in 6..12
  BY <1>2, Keywords
<1>4. Keyword[c] \in Seq(L)
  <2>1. CASE c = "SUBSCRIBE"
    BY <2>1 DEF Keyword
  <2>2. CASE c = "UNSUBSCRIBE"
    BY <2>2 DEF Keyword
  <2>3. CASE c = "DELAY"
    BY <2>3 DEF Keyword
  <2>4. CASE c = "DISCONNECT"
    BY <2>4 DEF Keyword
  <2> QED
    BY <1>2, <2>1, <2>2, <2>3, <2>4
<1> HIDE DEF L, Letters
<1>5. PICK w : w = Keyword[c]
  OBVIOUS
<1>6. w \in Seq(L)
  BY <1>4, <1>5
<1>7. \A i \in 1..Len(w) : w[i] \in L
  BY <1>6, ElementOfSeq
<1> QED
  BY <1>1, <1>3, <1>5, <1>6, <1>7 DEF L

-----------------------------------------------------------------------------
(* The type invariant.                                                     *)
TypeInv == TypeOK /\ text \in Seq(Character) /\ notifs \in Seq(News)

LEMMA InitTypes ==
  ASSUME Init
  PROVE  TypeInv
<1>1. text \in Seq(Character)
  BY ScriptLaid DEF Init, Layout
<1>2. pos \in 1..End /\ pc = "next"
  BY <1>1, TextEnd DEF Init
<1>3. create_hash_table \in HashTable
  BY DEF create_hash_table, HashTable
<1>4. table \in HashTable
  <2>1. PICK k \in Keys, v \in Values :
          table \in {create_hash_table, write_pair(create_hash_table, k, v)}
    BY DEF Init
  <2> QED
    BY <1>3, <2>1, WritePairTyped
<1>5. notifs \in Seq(News) /\ Len(notifs) <= PipeCapacity
  BY ClientAssumption DEF Init
<1> QED
  BY <1>1, <1>2, <1>4, <1>5 DEF TypeInv, TypeOK

LEMMA MainTypes ==
  ASSUME TypeInv, Main, UNCHANGED <<inputVars, serverVars, notifs, readerVars>>
  PROVE  TypeInv'
<1>1. text' = text /\ table' = table /\ notifs' = notifs /\ served' = served
  BY DEF inputVars, serverVars
<1>2. text \in Seq(Character) /\ pos \in 1..End
  BY DEF TypeInv, TypeOK
<1>3. Len(text) \in Nat /\ End = Len(text) + 1
  BY <1>2, TextEnd
<1>4. SUFFICES /\ pos' \in 1..End /\ pc' \in {"next", "argument", "answer", "ended", "exited"}
               /\ pc' = "answer" => cmd' # "DELAY"
  BY <1>1 DEF TypeInv, TypeOK, End
<1>5. MAX_STRING_SIZE - 1 \in Nat
  BY ClientAssumption
<1>6. CASE EndOfCommands
  BY <1>2, <1>6 DEF EndOfCommands
<1>7. CASE NextCommand
  <2>1. PICK c \in CommandAt(pos) :
          /\ cmd' = c
          /\ pos' = Passed(pos, Len(Keyword[c]) + IF c = "DISCONNECT" THEN 1 ELSE 0)
          /\ pc' \in {"argument", "answer", "exited"}
          /\ c # "DISCONNECT" => pc' = "argument"
    BY <1>7 DEF NextCommand
  <2>2. c \in DOMAIN Keyword
    BY DEF CommandAt
  <2>3. PICK l : l = Len(Keyword[c])
    OBVIOUS
  <2>4. PICK n : n = l + IF c = "DISCONNECT" THEN 1 ELSE 0
    OBVIOUS
  <2>5. n \in Nat
    <3>1. l \in Nat
      BY <2>2, <2>3, KeywordTyped
    <3> QED
      BY <2>4, <3>1
  <2>6. pos' = Passed(pos, n)
    BY <2>1, <2>3, <2>4
  <2>7. Passed(pos, n) \in pos..End
    BY <1>2, <2>5, PassedEnds
  <2>8. pos' \in 1..End
    BY <1>2, <1>3, <2>6, <2>7
  <2> QED
    BY <2>1, <2>8
<1>8. CASE NoCommand
  <2>1. pos # End /\ pc' = pc /\ cmd' = cmd /\ pc = "next"
        /\ pos' \in {pos + 1, cleanup(NoCommandEnd(pos))}
    BY <1>2, <1>3, <1>8 DEF NoCommand, AtEnd
  <2>2. pos + 1 \in 1..End /\ NoCommandEnd(pos) \in 1..End
    <3>1. pos \in 1..Len(text)
      BY <1>2, <1>3, <2>1
    <3> QED
      BY <1>2, <1>3, <3>1, NoCommandEnds
  <2>3. cleanup(NoCommandEnd(pos)) \in 1..End
    BY <1>2, <2>2, CleanupEnds
  <2> QED
    BY <2>1, <2>2, <2>3
<1>9. CASE Subscribe \/ Unsubscribe
  <2>1. /\ pos' = ReadEnd(pos, MAX_STRING_SIZE - 1) /\ pc' \in {"next", "answer"}
        /\ cmd' = cmd /\ cmd # "DELAY"
    BY <1>9 DEF Subscribe, Unsubscribe, Request
  <2>2. ReadEnd(pos, MAX_STRING_SIZE - 1) \in pos..End
    BY <1>2, <1>5, ReadEndEnds
  <2> QED
    BY <1>2, <1>3, <2>1, <2>2
<1>10. CASE Delay
  <2>1. PICK s : s = read_uint(pos).stop
    OBVIOUS
  <2>2. s \in 1..End /\ 1 \in Nat
    BY <1>2, <2>1, ReadUintEnds
  <2>3. PICK q : q = Passed(s, 1)
    OBVIOUS
  <2>4. q \in s..End
    BY <1>2, <2>2, <2>3, PassedEnds
  <2>5. q \in 1..End
    BY <1>3, <2>2, <2>4
  <2>6. cleanup(q) \in 1..End
    BY <1>2, <2>5, CleanupEnds
  <2>7. pos' \in {q, cleanup(q)} /\ pc' = "next"
    BY <1>10, <2>1, <2>3 DEF Delay
  <2> QED
    BY <2>5, <2>6, <2>7
<1> QED
  BY <1>6, <1>7, <1>8, <1>9, <1>10 DEF Main

LEMMA ServerTypes ==
  ASSUME TypeInv, Serve \/ NoAnswer \/ HangUp, UNCHANGED <<inputVars, readerVars>>
  PROVE  TypeInv'
<1>1. text' = text
  BY DEF inputVars
<1>2. /\ pos \in 1..End /\ text \in Seq(Character) /\ table \in HashTable
      /\ notifs \in Seq(News) /\ Len(notifs) <= PipeCapacity
      /\ pc \in {"next", "argument", "answer", "ended", "exited"}
      /\ pc = "answer" /\ served => cmd # "DELAY"
  BY DEF TypeInv, TypeOK
<1>3. F_NOTIF \in Pipes /\ PipeCapacity \in Nat
  BY ClientAssumption
<1>4. execute_disconnect(table, F_NOTIF).ht \in HashTable
  BY <1>2, <1>3, DisconnectTyped
<1>5. SUFFICES /\ pos' = pos /\ table' \in HashTable /\ notifs' \in {notifs, << >>}
               /\ pc' \in {"next", "argument", "answer", "ended", "exited"}
               /\ pc' = "answer" /\ served' => cmd' # "DELAY"
  <2>1. End' = End
    BY <1>1 DEF End
  <2>2. << >> \in Seq(News) /\ Len(<< >>) = 0
    OBVIOUS
  <2>3. notifs' \in Seq(News) /\ Len(notifs') <= PipeCapacity
    <3>1. CASE notifs' = notifs
      BY <1>2, <3>1
    <3>2. CASE notifs' = << >>
      <4>1. 0 <= PipeCapacity
        BY <1>3
      <4> QED
        BY <2>2, <3>2, <4>1
    <3> QED
      BY <1>5, <3>1, <3>2
  <2> QED
    BY <1>1, <1>2, <1>5, <2>1, <2>3 DEF TypeInv, TypeOK
<1>6. CASE Serve
  <2>1. CASE cmd \in {"SUBSCRIBE", "UNSUBSCRIBE"} /\ Answered(FALSE)
    <3>1. PICK o : /\ o = IF key \notin Keys THEN Returns(1, table)
                          ELSE IF cmd = "SUBSCRIBE" THEN execute_subscribe(table, key, F_NOTIF)
                          ELSE execute_unsubscribe(table, key, F_NOTIF)
                   /\ table' = o.ht
      BY <1>6, <2>1 DEF Serve
    <3>2. o.ht \in HashTable
      <4>1. Returns(1, table).ht = table
        BY DEF Returns
      <4>2. key \in Keys => /\ execute_subscribe(table, key, F_NOTIF).ht \in HashTable
                            /\ execute_unsubscribe(table, key, F_NOTIF).ht \in HashTable
        BY <1>2, <1>3, SubscribeTyped, UnsubscribeTyped
      <4> QED
        BY <1>2, <3>1, <4>1, <4>2
    <3>3. pos' = pos /\ cmd' = cmd /\ notifs' = notifs /\ pc' = "next"
      BY <2>1 DEF Answered
    <3> QED
      BY <3>1, <3>2, <3>3
  <2>2. CASE cmd \in {"DISCONNECT", "EOC"} /\ Answered(TRUE)
    <3>1. pos' = pos /\ cmd' = cmd /\ notifs' = << >> /\ pc' \in {"next", "ended"}
      BY <2>2 DEF Answered
    <3>2. table' = execute_disconnect(table, F_NOTIF).ht
      BY <1>6, <2>2 DEF Serve
    <3> QED
      BY <1>4, <3>1, <3>2
  <2> QED
    BY <1>6, <2>1, <2>2 DEF Serve
<1>7. CASE NoAnswer
  <2>1. /\ pos' = pos /\ cmd' = cmd /\ table' = table /\ notifs' = notifs
        /\ pc' \in {"next", "ended"}
    BY <1>7 DEF NoAnswer, Answered, serverVars
  <2> QED
    BY <1>2, <2>1
<1>8. CASE HangUp
  <2>1. pos' = pos /\ cmd' = cmd /\ pc' = pc /\ notifs' = notifs /\ served' = FALSE
    BY <1>8 DEF HangUp, mainVars
  <2>2. table' = execute_disconnect(table, F_NOTIF).ht
    BY <1>8 DEF HangUp
  <2> QED
    BY <1>2, <1>4, <2>1, <2>2
<1> QED
  BY <1>6, <1>7, <1>8

(* The notifications of a change are copies of one.                        *)
LEMMA CopiesOfOne ==
  ASSUME NEW list \in Seq(Pipes), NEW n \in News
  PROVE  /\ [i \in DOMAIN list |-> n] \in Seq({n}) /\ [i \in DOMAIN list |-> n] \in Seq(News)
<1> DEFINE c == [i \in DOMAIN list |-> n]
<1>1. Len(list) \in Nat /\ DOMAIN list = 1..Len(list)
  BY LenProperties
<1>2. c \in [1..Len(list) -> {n}] /\ c \in [1..Len(list) -> News]
  BY <1>1
<1> QED
  BY <1>1, <1>2, SeqDef

LEMMA ChangeTypes ==
  ASSUME TypeInv, UNCHANGED <<inputVars, mainVars, readerVars>>,
         NEW k \in Keys, NEW news, <<k, news>> \in News, NEW ht \in HashTable, Change(k, news, ht)
  PROVE  TypeInv'
<1> DEFINE copies == [i \in DOMAIN NotifPipes(table, k) |-> <<k, news>>]
<1>1. text' = text /\ pos' = pos /\ pc' = pc /\ cmd' = cmd
  BY DEF inputVars, mainVars
<1>2. table' = ht /\ served' = served /\ notifs' \in {notifs, notifs \o copies}
      /\ Len(notifs \o copies) <= PipeCapacity
  BY DEF Change, Room
<1>3. copies \in Seq(News)
  <2>1. NotifPipes(table, k) \in Seq(Pipes)
    BY NotifPipesTyped DEF TypeInv, TypeOK
  <2> QED
    BY <2>1, CopiesOfOne
<1> HIDE DEF copies
<1>4. notifs' \in Seq(News) /\ Len(notifs') <= PipeCapacity
  BY <1>2, <1>3, ConcatProperties DEF TypeInv, TypeOK
<1>5. End' = End
  BY <1>1 DEF End
<1> QED
  BY <1>1, <1>2, <1>4, <1>5 DEF TypeInv, TypeOK

LEMMA NewsOfChanges ==
  ASSUME NEW k \in Keys
  PROVE  /\ <<k, "DELETED">> \in News
         /\ \A v \in Values : <<k, v>> \in News
BY DEF News

LEMMA JobTypes ==
  ASSUME TypeInv, UNCHANGED <<inputVars, mainVars, readerVars>>,
         NEW k \in Keys, DeletePair(k) \/ \E v \in Values : WritePair(k, v)
  PROVE  TypeInv'
<1>1. table \in HashTable
  BY DEF TypeInv, TypeOK
<1>2. CASE DeletePair(k)
  BY <1>1, <1>2, DeletePairTyped, NewsOfChanges, ChangeTypes DEF DeletePair
<1>3. ASSUME NEW v \in Values, WritePair(k, v)
      PROVE  TypeInv'
  BY <1>1, <1>3, WritePairTyped, NewsOfChanges, ChangeTypes DEF WritePair
<1> QED
  BY <1>2, <1>3

LEMMA ReaderTypes ==
  ASSUME TypeInv, ReadNotification \/ ReadNothing, UNCHANGED <<inputVars, mainVars, serverVars>>
  PROVE  TypeInv'
<1>1. text' = text /\ pos' = pos /\ pc' = pc /\ cmd' = cmd /\ table' = table /\ served' = served
  BY DEF inputVars, mainVars, serverVars
<1>2. notifs \in Seq(News) /\ Len(notifs) <= PipeCapacity /\ PipeCapacity \in Nat
  BY ClientAssumption DEF TypeInv, TypeOK
<1>3. notifs' \in Seq(News) /\ Len(notifs') <= PipeCapacity
  <2>1. CASE ReadNotification
    <3>1. notifs # << >> /\ notifs' = Tail(notifs)
      BY <2>1 DEF ReadNotification
    <3>2. Tail(notifs) \in Seq(News) /\ Len(Tail(notifs)) = Len(notifs) - 1 /\ Len(notifs) \in Nat
      BY <1>2, <3>1, HeadTailProperties, LenProperties
    <3> QED
      BY <1>2, <3>1, <3>2
  <2>2. CASE ReadNothing
    BY <1>2, <2>2 DEF ReadNothing
  <2> QED
    BY <2>1, <2>2
<1>4. End' = End
  BY <1>1 DEF End
<1> QED
  BY <1>1, <1>3, <1>4 DEF TypeInv, TypeOK

LEMMA StepTypes ==
  ASSUME TypeInv, [Next]_vars
  PROVE  TypeInv'
<1>1. CASE Next
  <2>1. CASE Main /\ UNCHANGED <<inputVars, serverVars, notifs, readerVars>>
    BY <2>1, MainTypes
  <2>2. CASE (Serve \/ NoAnswer \/ HangUp) /\ UNCHANGED <<inputVars, readerVars>>
    BY <2>2, ServerTypes
  <2>3. CASE /\ \E k \in Keys : DeletePair(k) \/ \E v \in Values : WritePair(k, v)
             /\ UNCHANGED <<inputVars, mainVars, readerVars>>
    BY <2>3, JobTypes
  <2>4. CASE (ReadNotification \/ ReadNothing) /\ UNCHANGED <<inputVars, mainVars, serverVars>>
    BY <2>4, ReaderTypes
  <2>5. CASE (OtherFails \/ OtherReturns) /\ UNCHANGED <<inputVars, mainVars, notifs, readerVars>>
    <3>1. table' = table /\ served' = served
      BY <2>5 DEF OtherFails, OtherReturns
    <3> QED
      BY <2>5, <3>1 DEF inputVars, mainVars, readerVars, TypeInv, TypeOK, End
  <2> QED
    BY <1>1, <2>1, <2>2, <2>3, <2>4, <2>5 DEF Next
<1>2. CASE UNCHANGED vars
  BY <1>2 DEF vars, inputVars, mainVars, serverVars, TypeInv, TypeOK, End
<1> QED
  BY <1>1, <1>2

LEMMA TypesKept == Spec => []TypeInv
<1>1. Init => TypeInv
  BY InitTypes
<1>2. TypeInv /\ [Next]_vars => TypeInv'
  BY StepTypes
<1> QED
  BY <1>1, <1>2, PTL DEF Spec

(* Whatever the input holds, however it is cut into reads and whatever the *)
(* client is sent, the parser stays within the input, the table keeps its  *)
(* shape, the notification pipe holds no more than it can, and main awaits *)
(* no answer for a DELAY.                                                  *)
THEOREM TypeCorrect == Spec => []TypeOK
<1>1. TypeInv => TypeOK
  BY DEF TypeInv
<1> QED
  BY <1>1, TypesKept, PTL

-----------------------------------------------------------------------------
(* What is printed.                                                        *)

\* read_Thread has read r; rest are the changes that it has yet to read, or
\* that were closed with the pipe.
ReadSoFar(r, rest) ==
  /\ printed = Squeeze(r)
  /\ IF r = << >> THEN notification = Unset /\ last_notification = Nothing
                  ELSE notification = r[Len(r)] /\ last_notification = r[Len(r)]
  /\ Squeeze(r \o rest) = Squeeze(told)
  /\ served \/ notifs # << >> => rest = notifs

\* At the end of the session it may print the buffer it has never written to.
GarbageOnly ==
  /\ ~served /\ notifs = << >>
  /\ notification = Unset /\ printed = <<Garbage>> /\ last_notification = Garbage

ReaderInv ==
  /\ told \in Seq(News)
  /\ GarbageOnly \/ \E r, rest \in Seq(News) : ReadSoFar(r, rest)

LEMMA ConcatAssociates ==
  ASSUME NEW S, NEW s \in Seq(S), NEW t \in Seq(S), NEW u \in Seq(S)
  PROVE  s \o (t \o u) = (s \o t) \o u
<1> DEFINE P == {w \in Seq(S) : s \o (t \o w) = (s \o t) \o w}
<1>1. << >> \in P
  <2>1. t \o << >> = t /\ s \o t \in Seq(S) /\ << >> \in Seq(S)
    BY ConcatEmptySeq, ConcatProperties
  <2>2. (s \o t) \o << >> = s \o t
    BY <2>1, ConcatEmptySeq
  <2> QED
    BY <2>1, <2>2
<1>2. ASSUME NEW w \in Seq(S), w \in P, NEW e \in S
      PROVE  Append(w, e) \in P
  <2>1. PICK tw : tw = t \o w
    OBVIOUS
  <2>2. PICK st : st = s \o t
    OBVIOUS
  <2>3. tw \in Seq(S) /\ st \in Seq(S) /\ Append(w, e) \in Seq(S)
    BY <2>1, <2>2, ConcatProperties, Appended
  <2>4. t \o Append(w, e) = Append(tw, e)
    BY <2>1, ConcatAppend
  <2>5. s \o Append(tw, e) = Append(s \o tw, e)
    BY <2>3, ConcatAppend
  <2>6. st \o Append(w, e) = Append(st \o w, e)
    BY <2>3, ConcatAppend
  <2>7. s \o tw = st \o w
    BY <1>2, <2>1, <2>2
  <2> QED
    BY <2>2, <2>3, <2>4, <2>5, <2>6, <2>7
<1>3. Seq(S) \subseteq P
  <2> HIDE DEF P
  <2> QED
    BY <1>1, <1>2, SequencesByStep
<1> QED
  BY <1>3

LEMMA HeadMoved ==
  ASSUME NEW S, NEW s \in Seq(S), NEW t \in Seq(S), t # << >>
  PROVE  /\ Head(t) \in S /\ Tail(t) \in Seq(S)
         /\ s \o t = Append(s, Head(t)) \o Tail(t)
<1>1. PICK h, w : h = Head(t) /\ w = Tail(t)
  OBVIOUS
<1>2. /\ h \in S /\ w \in Seq(S) /\ Len(t) \in Nat \ {0} /\ h = t[1]
      /\ Len(w) = Len(t) - 1 /\ \A i \in 1..Len(w) : w[i] = t[i + 1]
  BY <1>1, HeadTailProperties, LenProperties
<1>3. PICK u : u = Append(s, h)
  OBVIOUS
<1>4. /\ u \in Seq(S) /\ Len(u) = Len(s) + 1 /\ Len(s) \in Nat /\ u[Len(s) + 1] = h
      /\ \A i \in 1..Len(s) : u[i] = s[i]
  BY <1>2, <1>3, Appended
<1> DEFINE x == s \o t
           y == u \o w
<1>5. /\ x \in Seq(S) /\ Len(x) = Len(s) + Len(t)
      /\ \A i \in 1..Len(s) + Len(t) : x[i] = IF i <= Len(s) THEN s[i] ELSE t[i - Len(s)]
  BY ConcatProperties
<1>6. /\ y \in Seq(S) /\ Len(y) = Len(u) + Len(w)
      /\ \A i \in 1..Len(u) + Len(w) : y[i] = IF i <= Len(u) THEN u[i] ELSE w[i - Len(u)]
  BY <1>2, <1>4, ConcatProperties
<1> HIDE DEF x, y
<1>7. Len(u) + Len(w) = Len(s) + Len(t) /\ Len(s) + Len(t) \in Nat
  BY <1>2, <1>4
<1>8. ASSUME NEW i \in 1..Len(x)
      PROVE  x[i] = y[i]
  <2>1. i \in Nat /\ 1 <= i /\ i <= Len(s) + Len(t) /\ i \in 1..Len(s) + Len(t)
        /\ i \in 1..Len(u) + Len(w)
    BY <1>5, <1>7
  <2>2. CASE i <= Len(s)
    <3>1. i \in 1..Len(s) /\ i <= Len(u)
      BY <1>4, <2>1, <2>2
    <3> QED
      BY <1>4, <1>5, <1>6, <2>1, <2>2, <3>1
  <2>3. CASE i = Len(s) + 1
    <3>1. ~(i <= Len(s)) /\ i <= Len(u) /\ i - Len(s) = 1
      BY <1>4, <2>3
    <3>2. x[i] = t[1] /\ y[i] = u[i]
      BY <1>5, <1>6, <2>1, <3>1
    <3> QED
      BY <1>2, <1>4, <2>3, <3>2
  <2>4. CASE i > Len(s) + 1
    <3>1. ~(i <= Len(s)) /\ ~(i <= Len(u))
      BY <1>4, <2>1, <2>4
    <3>2. PICK j : j = i - Len(u)
      OBVIOUS
    <3>3. j \in 1..Len(w) /\ j + 1 = i - Len(s)
      BY <1>2, <1>4, <2>1, <2>4, <3>2
    <3>4. w[j] = t[j + 1]
      BY <1>2, <3>3
    <3>5. x[i] = t[i - Len(s)] /\ y[i] = w[i - Len(u)]
      BY <1>5, <1>6, <2>1, <3>1
    <3> QED
      BY <3>2, <3>3, <3>4, <3>5
  <2> QED
    BY <1>4, <2>1, <2>2, <2>3, <2>4
<1>9. x = y
  <2>1. Len(x) = Len(y)
    BY <1>5, <1>6, <1>7
  <2> QED
    BY <1>5, <1>6, <1>8, <2>1, SeqEqual
<1> QED
  BY <1>1, <1>2, <1>3, <1>9 DEF x, y

LEMMA InitRead ==
  ASSUME Init
  PROVE  ReaderInv
<1>1. << >> \in Seq(News) /\ << >> \o << >> = << >>
  BY ConcatEmptySeq
<1>2. ReadSoFar(<< >>, << >>)
  BY <1>1, SqueezeEmpty DEF Init, ReadSoFar
<1> QED
  BY <1>1, <1>2 DEF Init, ReaderInv

(* Main takes no part in it; when the session ends, what is in the pipe    *)
(* may be lost.                                                            *)
LEMMA OthersRead ==
  ASSUME ReaderInv, told' = told, UNCHANGED readerVars, notifs' \in {notifs, << >>},
         served' => served, served' => notifs' = notifs
  PROVE  ReaderInv'
<1>1. /\ notification' = notification /\ last_notification' = last_notification
      /\ printed' = printed
  BY DEF readerVars
<1>2. CASE GarbageOnly
  <2>1. GarbageOnly'
    BY <1>1, <1>2 DEF GarbageOnly
  <2> QED
    BY <2>1 DEF ReaderInv
<1>3. ASSUME NEW r \in Seq(News), NEW rest \in Seq(News), ReadSoFar(r, rest)
      PROVE  ReaderInv'
  <2>1. ReadSoFar(r, rest)'
    BY <1>1, <1>3 DEF ReadSoFar
  <2> QED
    BY <2>1 DEF ReaderInv
<1> QED
  BY <1>2, <1>3 DEF ReaderInv

LEMMA ChangeRead ==
  ASSUME TypeInv, ReaderInv, UNCHANGED <<inputVars, mainVars, readerVars>>,
         NEW k \in Keys, NEW news, <<k, news>> \in News, NEW ht, Change(k, news, ht)
  PROVE  ReaderInv'
<1> DEFINE n == <<k, news>>
           copies == [i \in DOMAIN NotifPipes(table, k) |-> n]
           heard == served /\ ~Gone /\ copies # << >>
<1>1. /\ notification' = notification /\ last_notification' = last_notification
      /\ printed' = printed
  BY DEF readerVars
<1>2. /\ notifs' = IF heard THEN notifs \o copies ELSE notifs
      /\ told' = IF heard THEN Append(told, n) ELSE told
      /\ served' = served
  BY DEF Change
<1>3. NotifPipes(table, k) \in Seq(Pipes)
  BY NotifPipesTyped DEF TypeInv, TypeOK
<1>4. n \in News /\ notifs \in Seq(News) /\ told \in Seq(News)
  BY DEF TypeInv, ReaderInv
<1> HIDE DEF n
<1>5. copies \in Seq({n}) /\ copies \in Seq(News)
  BY <1>3, <1>4, CopiesOfOne
<1>6. CASE ~heard
  <2>1. told' = told /\ notifs' = notifs /\ UNCHANGED readerVars /\ served' = served
    BY <1>2, <1>6 DEF readerVars
  <2> QED
    BY <2>1, OthersRead
<1>7. CASE heard
  <2>1. PICK c : c = copies
    OBVIOUS
  <2>2. c \in Seq({n}) /\ c \in Seq(News) /\ c # << >> /\ served
    BY <1>5, <1>7, <2>1
  <2>3. notifs' = notifs \o c /\ told' = Append(told, n)
    BY <1>2, <1>7, <2>1
  <2>4. PICK r \in Seq(News), rest \in Seq(News) : ReadSoFar(r, rest)
    BY <2>2 DEF ReaderInv, GarbageOnly
  <2>5. rest = notifs /\ Squeeze(r \o notifs) = Squeeze(told)
    BY <2>2, <2>4 DEF ReadSoFar
  <2>6. PICK q, t : q = r \o notifs /\ t = notifs \o c
    OBVIOUS
  <2>7. q \in Seq(News) /\ t \in Seq(News)
    BY <1>4, <2>2, <2>6, ConcatProperties
  <2>8. r \o t = q \o c
    <3>1. r \o (notifs \o c) = (r \o notifs) \o c
      BY <1>4, <2>2, ConcatAssociates
    <3> QED
      BY <2>6, <3>1
  <2>9. Squeeze(q \o c) = Squeeze(Append(q, n))
    BY <1>4, <2>2, <2>7, SqueezeCopies
  <2>10. Squeeze(Append(q, n)) = Squeeze(Append(told, n))
    BY <1>4, <2>5, <2>6, <2>7, SqueezeSame
  <2>11. Squeeze(r \o t) = Squeeze(told')
    BY <2>3, <2>8, <2>9, <2>10
  <2>12. ReadSoFar(r, t)'
    <3>1. /\ printed = Squeeze(r)
          /\ IF r = << >> THEN notification = Unset /\ last_notification = Nothing
                          ELSE notification = r[Len(r)] /\ last_notification = r[Len(r)]
      BY <2>4 DEF ReadSoFar
    <3>2. t = notifs'
      BY <2>3, <2>6
    <3> QED
      BY <1>1, <2>11, <3>1, <3>2 DEF ReadSoFar
  <2>13. told' \in Seq(News)
    BY <1>4, <2>3, Appended
  <2> QED
    BY <2>7, <2>12, <2>13 DEF ReaderInv
<1> QED
  BY <1>6, <1>7

LEMMA NotificationRead ==
  ASSUME TypeInv, ReaderInv, ReadNotification, UNCHANGED <<inputVars, mainVars, serverVars>>
  PROVE  ReaderInv'
<1>1. told' = told /\ served' = served /\ told \in Seq(News) /\ notifs \in Seq(News)
  BY DEF serverVars, TypeInv, ReaderInv
<1>2. notifs # << >>
  BY DEF ReadNotification
<1>3. PICK n, t : n = Head(notifs) /\ t = Tail(notifs)
  OBVIOUS
<1>4. notification' = n /\ notifs' = t
  BY <1>3 DEF ReadNotification
<1>5. PICK r \in Seq(News), rest \in Seq(News) : ReadSoFar(r, rest)
  BY <1>2 DEF ReaderInv, GarbageOnly
<1>6. rest = notifs /\ Squeeze(r \o notifs) = Squeeze(told) /\ printed = Squeeze(r)
  BY <1>2, <1>5 DEF ReadSoFar
<1>7. PICK q : q = Append(r, n)
  OBVIOUS
<1>8. n \in News /\ t \in Seq(News) /\ r \o notifs = q \o t
  BY <1>1, <1>2, <1>3, <1>7, HeadMoved
<1>9. q \in Seq(News) /\ Len(q) = Len(r) + 1 /\ Len(r) \in Nat /\ q[Len(q)] = n /\ q # << >>
  <2>1. q \in Seq(News) /\ Len(q) = Len(r) + 1 /\ Len(r) \in Nat /\ q[Len(r) + 1] = n
    BY <1>7, <1>8, Appended
  <2>2. Len(q) # 0 /\ Len(<< >>) = 0
    BY <2>1
  <2> QED
    BY <2>1, <2>2
<1>10. last_notification = n <=> (Len(r) > 0 /\ r[Len(r)] = n)
  <2>1. r = << >> <=> Len(r) = 0
    OBVIOUS
  <2>2. n # Nothing
    BY <1>8, BuffersAssumption
  <2>3. IF r = << >> THEN last_notification = Nothing ELSE last_notification = r[Len(r)]
    BY <1>5 DEF ReadSoFar
  <2> QED
    BY <1>9, <2>1, <2>2, <2>3
<1>11. Squeeze(q) = IF Len(r) > 0 /\ r[Len(r)] = n THEN Squeeze(r) ELSE Append(Squeeze(r), n)
  BY <1>7, <1>8, SqueezeStep
<1>12. printed' = Squeeze(q) /\ last_notification' = n
  <2>1. IF n # last_notification
          THEN printed' = Append(printed, n) /\ last_notification' = n
          ELSE printed' = printed /\ last_notification' = last_notification
    BY <1>4 DEF ReadNotification, Show
  <2> QED
    BY <1>6, <1>10, <1>11, <2>1
<1>13. ReadSoFar(q, t)'
  BY <1>1, <1>4, <1>6, <1>8, <1>9, <1>12 DEF ReadSoFar
<1> QED
  BY <1>1, <1>8, <1>9, <1>13 DEF ReaderInv

LEMMA NothingRead ==
  ASSUME TypeInv, ReaderInv, ReadNothing, UNCHANGED <<inputVars, mainVars, serverVars>>
  PROVE  ReaderInv'
<1>1. told' = told /\ served' = served /\ told \in Seq(News)
      /\ notification' = notification /\ notifs' = notifs /\ notifs = << >> /\ ~served
  BY DEF serverVars, ReaderInv, ReadNothing
<1>2. CASE UNCHANGED <<printed, last_notification>>
  <2>1. UNCHANGED readerVars
    BY <1>1, <1>2 DEF readerVars
  <2> QED
    BY <1>1, <2>1, OthersRead
<1>3. CASE notification # Unset /\ Show(notification)
  <2>1. ~GarbageOnly
    BY <1>3 DEF GarbageOnly
  <2>2. PICK r \in Seq(News), rest \in Seq(News) : ReadSoFar(r, rest)
    BY <2>1 DEF ReaderInv
  <2>3. notification = last_notification
    BY <1>3, <2>2 DEF ReadSoFar
  <2>4. UNCHANGED <<printed, last_notification>>
    BY <1>3, <2>3 DEF Show
  <2> QED
    BY <1>2, <2>4
<1>4. CASE notification = Unset /\ Show(Garbage)
  <2>1. CASE GarbageOnly
    <3>1. UNCHANGED <<printed, last_notification>>
      BY <1>4, <2>1 DEF Show, GarbageOnly
    <3> QED
      BY <1>2, <3>1
  <2>2. ASSUME NEW r \in Seq(News), NEW rest \in Seq(News), ReadSoFar(r, rest)
        PROVE  ReaderInv'
    <3>1. r = << >>
      <4>1. ASSUME r # << >>
            PROVE  FALSE
        <5>1. Len(r) \in 1..Len(r)
          BY <4>1
        <5>2. r[Len(r)] \in News
          BY <5>1, ElementOfSeq
        <5>3. r[Len(r)] = Unset
          BY <1>4, <2>2, <4>1 DEF ReadSoFar
        <5> QED
          BY <5>2, <5>3, BuffersAssumption
      <4> QED
        BY <4>1
    <3>2. printed = << >> /\ last_notification = Nothing
      BY <2>2, <3>1, SqueezeEmpty DEF ReadSoFar
    <3>3. Garbage # Nothing
      BY BuffersAssumption
    <3>4. printed' = <<Garbage>> /\ last_notification' = Garbage
      <4>1. printed' = Append(printed, Garbage) /\ last_notification' = Garbage
        BY <1>4, <3>2, <3>3 DEF Show
      <4>2. \A g : Append(<< >>, g) = <<g>>
        OBVIOUS
      <4> QED
        BY <3>2, <4>1, <4>2
    <3>5. GarbageOnly'
      BY <1>1, <1>4, <3>4 DEF GarbageOnly
    <3> QED
      BY <1>1, <3>5 DEF ReaderInv
  <2> QED
    BY <2>1, <2>2 DEF ReaderInv
<1> QED
  BY <1>2, <1>3, <1>4 DEF ReadNothing

LEMMA StepRead ==
  ASSUME TypeInv, ReaderInv, [Next]_vars
  PROVE  ReaderInv'
<1>1. CASE Main /\ UNCHANGED <<inputVars, serverVars, notifs, readerVars>>
  BY <1>1, OthersRead DEF serverVars
<1>2. CASE (Serve \/ NoAnswer \/ HangUp) /\ UNCHANGED <<inputVars, readerVars>>
  <2>1. told' = told /\ notifs' \in {notifs, << >>}
    BY <1>2 DEF Serve, NoAnswer, HangUp, Answered, serverVars
  <2>2. (served' => served) /\ (served' => notifs' = notifs)
    <3>1. CASE Serve
      <4>1. CASE Answered(FALSE) /\ served' = served
        BY <4>1 DEF Answered
      <4>2. CASE served' = FALSE
        BY <4>2
      <4> QED
        BY <3>1, <4>1, <4>2 DEF Serve
    <3>2. CASE NoAnswer
      BY <3>2 DEF NoAnswer, serverVars
    <3>3. CASE HangUp
      BY <3>3 DEF HangUp
    <3> QED
      BY <1>2, <3>1, <3>2, <3>3
  <2> QED
    BY <1>2, <2>1, <2>2, OthersRead
<1>3. CASE /\ \E k \in Keys : DeletePair(k) \/ \E v \in Values : WritePair(k, v)
           /\ UNCHANGED <<inputVars, mainVars, readerVars>>
  <2>1. ASSUME NEW k \in Keys, DeletePair(k)
        PROVE  ReaderInv'
    BY <1>3, <2>1, NewsOfChanges, ChangeRead DEF DeletePair
  <2>2. ASSUME NEW k \in Keys, NEW v \in Values, WritePair(k, v)
        PROVE  ReaderInv'
    BY <1>3, <2>2, NewsOfChanges, ChangeRead DEF WritePair
  <2> QED
    BY <1>3, <2>1, <2>2
<1>4. CASE (ReadNotification \/ ReadNothing) /\ UNCHANGED <<inputVars, mainVars, serverVars>>
  BY <1>4, NotificationRead, NothingRead
<1>5. CASE UNCHANGED vars
  BY <1>5, OthersRead DEF vars, serverVars
<1>6. CASE (OtherFails \/ OtherReturns) /\ UNCHANGED <<inputVars, mainVars, notifs, readerVars>>
  <2>1. told' = told /\ served' = served
    BY <1>6 DEF OtherFails, OtherReturns
  <2> QED
    BY <1>6, <2>1, OthersRead
<1> QED
  BY <1>1, <1>2, <1>3, <1>4, <1>5, <1>6 DEF Next

LEMMA PrintedFollows ==
  ASSUME ReaderInv
  PROVE  PrintedAreChanges
<1>1. CASE GarbageOnly
  BY <1>1 DEF GarbageOnly, PrintedAreChanges
<1>2. ASSUME NEW r \in Seq(News), NEW rest \in Seq(News), ReadSoFar(r, rest)
      PROVE  PrintedAreChanges
  <2>1. printed = Squeeze(r) /\ printed \in Seq(News)
    BY <1>2, SqueezeKeeps DEF ReadSoFar
  <2>2. printed # <<Garbage>>
    <3>1. ASSUME <<Garbage>> \in Seq(News)
          PROVE  FALSE
      <4>1. 1 \in 1..Len(<<Garbage>>) /\ <<Garbage>>[1] = Garbage
        OBVIOUS
      <4>2. Garbage \in News
        BY <3>1, <4>1, ElementOfSeq
      <4> QED
        BY <4>2, BuffersAssumption
    <3> QED
      BY <2>1, <3>1
  <2>3. IsPrefix(Squeeze(r), Squeeze(r \o rest))
    BY SqueezePrefix
  <2>4. IsPrefix(printed, Squeeze(told))
    BY <1>2, <2>1, <2>3 DEF ReadSoFar
  <2> QED
    BY <2>2, <2>4, Zenon DEF PrintedAreChanges
<1> QED
  BY <1>1, <1>2 DEF ReaderInv

(* Whatever the client is subscribed to, however often, and whenever its   *)
(* session ends: read_Thread prints the changes to those keys in their     *)
(* order, none that did not happen and none left out before a later one,   *)
(* equal ones in a row once.                                               *)
THEOREM PrintedCorrect == Spec => []PrintedAreChanges
<1>1. Init => ReaderInv
  BY InitRead
<1>2. TypeInv /\ ReaderInv /\ [Next]_vars => ReaderInv'
  BY StepRead
<1>3. ReaderInv => PrintedAreChanges
  BY PrintedFollows
<1> QED
  BY <1>1, <1>2, <1>3, TypesKept, PTL DEF Spec

-----------------------------------------------------------------------------
(* Lines in the text.                                                      *)
(* Lines are in the text in their order.                                   *)
LEMMA LineOrder ==
  ASSUME NEW f, Layout(script, f, text), NEW j \in 1..(Len(script) + 1), NEW k \in 1..(Len(script) + 1)
  PROVE  /\ f[j] \in Nat /\ f[k] \in Nat /\ Len(script) \in Nat
         /\ f[j] < f[k] <=> j < k
         /\ f[j] = f[k] <=> j = k
<1>1. /\ Len(script) \in Nat /\ f[j] \in Nat
      /\ \A i \in (j + 1)..(Len(script) + 1) : f[i] \in Nat \ {0} /\ f[j] < f[i]
  BY LayoutOrder
<1>2. /\ f[k] \in Nat
      /\ \A i \in (k + 1)..(Len(script) + 1) : f[i] \in Nat \ {0} /\ f[k] < f[i]
  BY LayoutOrder
<1>3. j < k => f[j] < f[k]
  <2>1. j < k => k \in (j + 1)..(Len(script) + 1)
    BY <1>1
  <2> QED
    BY <1>1, <2>1
<1>4. k < j => f[k] < f[j]
  <2>1. k < j => j \in (k + 1)..(Len(script) + 1)
    BY <1>1
  <2> QED
    BY <1>2, <2>1
<1>5. j \in Nat /\ k \in Nat
  BY <1>1
<1> DEFINE a == f[j]
           b == f[k]
<1>6. a \in Nat /\ b \in Nat /\ (j < k => a < b) /\ (k < j => b < a) /\ (j = k => a = b)
  BY <1>1, <1>2, <1>3, <1>4
<1> HIDE DEF a, b
<1>7. (a < b <=> j < k) /\ (a = b <=> j = k)
  BY <1>5, <1>6
<1> QED
  BY <1>1, <1>2, <1>7 DEF a, b

(* A line's end is no other line's beginning.                              *)
LEMMA OnlyLineAt ==
  ASSUME NEW f, Layout(script, f, text), NEW n \in 1..Len(script), NEW j \in 1..(Len(script) + 1),
         f[j] \in f[n]..(f[n + 1] - 1)
  PROVE  j = n
<1>1. n \in 1..(Len(script) + 1) /\ n + 1 \in 1..(Len(script) + 1) /\ n \in Nat /\ j \in Nat
  <2>1. Len(script) \in Nat
    BY LayoutFacts
  <2> QED
    BY <2>1
<1>2. f[j] \in Nat /\ f[n] \in Nat /\ (f[j] < f[n] <=> j < n)
  BY <1>1, LineOrder
<1>3. f[n + 1] \in Nat /\ (f[j] < f[n + 1] <=> j < n + 1)
  BY <1>1, LineOrder
<1>4. f[n] <= f[j] /\ f[j] < f[n + 1]
  BY <1>2, <1>3
<1>5. ~(j < n) /\ j < n + 1
  BY <1>2, <1>3, <1>4
<1> QED
  BY <1>1, <1>5

(* Where a line is in the text, which ends with one.                       *)
LEMMA LinePlace ==
  ASSUME NEW f, Layout(script, f, text), NEW k \in 1..Len(script)
  PROVE  /\ text \in Seq(Character) /\ Len(text) \in Nat /\ End = Len(text) + 1
         /\ f[k] \in 1..Len(text) /\ f[k + 1] \in 1..End /\ f[k] < f[k + 1]
         /\ k + 1 \in 1..(Len(script) + 1)
<1>1. text \in Seq(Character)
  BY DEF Layout
<1>2. Len(text) \in Nat /\ End = Len(text) + 1
  BY <1>1, TextEnd
<1>3. /\ Len(script) \in Nat /\ k + 1 \in 1..(Len(script) + 1)
      /\ f[k] \in Nat \ {0} /\ f[k + 1] \in Nat \ {0} /\ Len(script[k].chars) \in Nat
      /\ f[k + 1] = f[k] + Len(script[k].chars) + 1
  BY LayoutFacts
<1>4. PICK m : m = k + 1
  OBVIOUS
<1>5. m \in 1..(Len(script) + 1)
  BY <1>3, <1>4
<1>6. f[m] <= Len(text) + 1
  BY <1>5, LayoutOrder
<1> DEFINE a == f[k]
           b == f[k + 1]
           l == Len(script[k].chars)
           e == Len(text)
<1>7. a \in Nat \ {0} /\ l \in Nat /\ b = a + l + 1 /\ e \in Nat /\ b <= e + 1 /\ End = e + 1
  BY <1>2, <1>3, <1>4, <1>6
<1> HIDE DEF a, b, l, e
<1>8. a \in 1..e /\ b \in 1..End /\ a < b
  BY <1>7
<1> QED
  BY <1>1, <1>2, <1>3, <1>8 DEF a, b, e

(* The next newline, seen from a line.                                     *)
LEMMA NewlineOfLine ==
  ASSUME NEW f, Layout(script, f, text), NEW k \in 1..Len(script), NEW p \in f[k]..(f[k + 1] - 1)
  PROVE  /\ p \in 1..Len(text) /\ f[k + 1] \in Nat /\ f[k] \in Nat
         /\ Seek(p, {Newline}) = f[k + 1] - 1
         /\ Passed(Seek(p, {Newline}), 1) = f[k + 1] /\ cleanup(p) = f[k + 1]
<1>1. /\ text \in Seq(Character) /\ Len(text) \in Nat /\ End = Len(text) + 1
      /\ f[k] \in 1..Len(text) /\ f[k + 1] \in 1..End
  BY LinePlace
<1>2. /\ Len(script[k].chars) \in Nat /\ f[k + 1] = f[k] + Len(script[k].chars) + 1
      /\ text[f[k + 1] - 1] = Newline
  BY LayoutFacts
<1>3. \A i \in 1..Len(script[k].chars) : text[f[k] + i - 1] # Newline
  BY LaidNotNewline
<1> DEFINE a == f[k]
           b == f[k + 1]
           l == Len(script[k].chars)
           e == Len(text)
<1>4. /\ e \in Nat /\ End = e + 1 /\ a \in 1..e /\ b \in 1..End /\ l \in Nat /\ b = a + l + 1
      /\ text[b - 1] = Newline /\ p \in a..(b - 1)
      /\ \A i \in 1..l : text[a + i - 1] # Newline
  BY <1>1, <1>2, <1>3
<1> HIDE DEF a, b, l
<1>5. p \in 1..e /\ p \in 1..End /\ b - 1 \in p..e
  BY <1>4
<1>6. PICK q : q = Seek(p, {Newline})
  OBVIOUS
<1>7. q \in p..End /\ (q # End => text[q] = Newline) /\ q <= b - 1
  <2>1. /\ Seek(p, {Newline}) \in p..End
        /\ Seek(p, {Newline}) # End => text[Seek(p, {Newline})] \in {Newline}
        /\ \A i \in p..Len(text) : text[i] \in {Newline} => Seek(p, {Newline}) <= i
    BY <1>1, <1>5, SeekEnds
  <2> QED
    BY <1>4, <1>5, <1>6, <2>1
<1>8. q = b - 1
  <2>1. SUFFICES ASSUME q < b - 1
                 PROVE  FALSE
    BY <1>4, <1>7
  <2>2. PICK i : i = q - a + 1
    OBVIOUS
  <2>3. i \in 1..l /\ a + i - 1 = q /\ q # End
    BY <1>4, <1>7, <2>1, <2>2
  <2> QED
    BY <1>4, <1>7, <2>3
<1>9. Passed(q, 1) = b
  <2>1. q \in 1..End /\ q + 1 <= End /\ 1 \in Nat
    BY <1>4, <1>8
  <2>2. Passed(q, 1) = q + 1
    BY <1>1, <2>1, PassedEnds
  <2> QED
    BY <1>4, <1>8, <2>2
<1>10. cleanup(p) = Passed(q, 1)
  BY <1>6 DEF cleanup
<1>11. a \in Nat /\ b \in Nat
  BY <1>4
<1> QED
  BY <1>5, <1>6, <1>8, <1>9, <1>10, <1>11 DEF a, b

(* What a terminal answers ends with the line.                             *)
LEMMA ReadInLine ==
  ASSUME NEW f, Layout(script, f, text), terminal, NEW k \in 1..Len(script),
         NEW p \in f[k]..(f[k + 1] - 1), NEW n \in Nat
  PROVE  /\ p + n <= f[k + 1] => ReadEnd(p, n) = p + n
         /\ p + n > f[k + 1] => ReadEnd(p, n) = f[k + 1]
         /\ ReadEnd(p, n) \in p..f[k + 1]
<1>1. /\ text \in Seq(Character) /\ Len(text) \in Nat /\ End = Len(text) + 1
      /\ f[k] \in 1..Len(text) /\ f[k + 1] \in 1..End
  BY LinePlace
<1>2. p \in 1..Len(text) /\ Passed(Seek(p, {Newline}), 1) = f[k + 1]
  BY NewlineOfLine
<1>3. ReadEnd(p, n) = Min({Passed(p, n), f[k + 1]})
  BY <1>2 DEF ReadEnd
<1>4. p \in 1..End
  BY <1>1, <1>2
<1>5. /\ Passed(p, n) \in p..End
      /\ p + n <= End => Passed(p, n) = p + n
      /\ p + n > End => Passed(p, n) = End
  BY <1>1, <1>4, PassedEnds
<1> DEFINE b == f[k + 1]
           q == Passed(p, n)
<1>6. b \in 1..End /\ p < b
  BY <1>1
<1>7. /\ q \in p..End /\ (p + n <= End => q = p + n) /\ (p + n > End => q = End)
      /\ ReadEnd(p, n) = Min({q, b}) /\ End \in Nat
  BY <1>1, <1>3, <1>5
<1> HIDE DEF b, q
<1>8. Min({q, b}) \in {q, b} /\ \A i \in {q, b} : Min({q, b}) <= i
  <2>1. {q, b} \in SUBSET Nat /\ {q, b} # {}
    BY <1>4, <1>6, <1>7
  <2> QED
    BY <2>1, MinimumExists
<1>9. PICK m : m = Min({q, b})
  OBVIOUS
<1>10. m \in {q, b} /\ m <= q /\ m <= b
  BY <1>8, <1>9
<1>11. /\ p + n <= b => m = p + n
       /\ p + n > b => m = b
       /\ m \in p..b
  BY <1>4, <1>6, <1>7, <1>10
<1> QED
  BY <1>7, <1>9, <1>11 DEF b

(* Every position before the end is on a line.                             *)
LEMMA LineAround ==
  ASSUME NEW f, Layout(script, f, text), NEW p \in 1..Len(text)
  PROVE  \E k \in 1..Len(script) : p \in f[k]..(f[k + 1] - 1)
<1> DEFINE n == Len(script)
           I == {k \in 1..n : p < f[k + 1]}
<1>1. /\ n \in Nat /\ f \in [1..(n + 1) -> Nat \ {0}] /\ f[1] = 1
      /\ Len(text) = f[n + 1] - 1 /\ Len(text) \in Nat
  BY LenProperties DEF Layout
<1>2. p < f[n + 1] /\ n # 0
  <2>1. f[n + 1] \in Nat \ {0}
    BY <1>1
  <2> QED
    BY <1>1, <2>1
<1>3. I # {} /\ I \in SUBSET Nat
  <2>1. n \in 1..n
    BY <1>1, <1>2
  <2>2. n \in I
    BY <1>2, <2>1
  <2>3. 1..n \subseteq Nat
    BY <1>1
  <2> QED
    BY <2>2, <2>3
<1>4. PICK k : k \in I /\ \A i \in I : k <= i
  BY <1>3, MinimumExists
<1>5. k \in 1..n /\ p < f[k + 1] /\ f[k + 1] \in Nat /\ f[k] \in Nat
  BY <1>1, <1>4
<1>6. f[k] <= p
  <2>1. CASE k = 1
    BY <1>1, <2>1
  <2>2. CASE k # 1
    <3>1. PICK m : m = k - 1
      OBVIOUS
    <3>2. m \in 1..n /\ m + 1 = k /\ ~(k <= m)
      BY <1>1, <1>5, <2>2, <3>1
    <3>3. m \notin I
      BY <1>4, <3>2
    <3> QED
      BY <1>5, <3>2, <3>3
  <2> QED
    BY <2>1, <2>2
<1> QED
  BY <1>5, <1>6

(* cleanup ends where a line begins.                                       *)
LEMMA CleanupPlace ==
  ASSUME NEW f, Layout(script, f, text), NEW p \in 1..End
  PROVE  /\ \E j \in 1..(Len(script) + 1) : cleanup(p) = f[j]
         /\ cleanup(p) \in p..End
<1>1. text \in Seq(Character) /\ Len(script) \in Nat /\ f[Len(script) + 1] = Len(text) + 1
  <2>1. /\ text \in Seq(Character) /\ Len(script) \in Nat /\ Len(text) = f[Len(script) + 1] - 1
        /\ f \in [1..(Len(script) + 1) -> Nat \ {0}]
    BY DEF Layout
  <2>2. f[Len(script) + 1] \in Nat
    BY <2>1
  <2> QED
    BY <2>1, <2>2
<1>2. Len(text) \in Nat /\ End = Len(text) + 1 /\ End \in 1..End
  BY <1>1, TextEnd
<1>3. CASE p = End
  <2>1. Seek(End, {Newline}) \in End..End
    BY <1>1, <1>2, SeekEnds
  <2>2. Seek(End, {Newline}) = End
    BY <1>2, <2>1
  <2>3. Passed(End, 1) \in End..End
    BY <1>1, <1>2, PassedEnds
  <2>4. cleanup(p) = End
    BY <1>2, <1>3, <2>2, <2>3 DEF cleanup
  <2>5. Len(script) + 1 \in 1..(Len(script) + 1)
    BY <1>1
  <2> QED
    BY <1>1, <1>2, <1>3, <2>4, <2>5
<1>4. CASE p # End
  <2>1. p \in 1..Len(text)
    BY <1>2, <1>4
  <2>2. PICK k \in 1..Len(script) : p \in f[k]..(f[k + 1] - 1)
    BY <2>1, LineAround
  <2>3. cleanup(p) = f[k + 1] /\ f[k + 1] \in Nat /\ f[k] \in Nat
    BY <2>2, NewlineOfLine
  <2>4. f[k + 1] \in 1..End /\ k + 1 \in 1..(Len(script) + 1)
    BY <2>2, LinePlace
  <2> DEFINE a == f[k]
             b == f[k + 1]
  <2>5. a \in Nat /\ b \in 1..End /\ p \in a..(b - 1) /\ p \in 1..End
    BY <2>2, <2>3, <2>4
  <2> HIDE DEF a, b
  <2>6. b \in p..End
    BY <1>2, <2>5
  <2> QED
    BY <2>3, <2>4, <2>6 DEF b
<1> QED
  BY <1>3, <1>4

(* cleanup at the end of a line takes the next one.                        *)
LEMMA CleanupNext ==
  ASSUME NEW f, Layout(script, f, text), NEW n \in 1..Len(script)
  PROVE  cleanup(f[n + 1]) = f[IF n < Len(script) THEN n + 2 ELSE n + 1]
<1> DEFINE N == Len(script)
<1>1. N \in Nat /\ n \in Nat /\ n <= N
  <2>1. N \in Nat
    BY DEF Layout
  <2> QED
    BY <2>1
<1>2. PICK m : m = n + 1
  OBVIOUS
<1>3. CASE n < N
  <2>1. m \in 1..N /\ m + 1 = n + 2
    BY <1>1, <1>2, <1>3
  <2>2. f[m] \in 1..Len(text) /\ f[m + 1] \in 1..End /\ f[m] < f[m + 1] /\ Len(text) \in Nat /\ End = Len(text) + 1
    BY <2>1, LinePlace
  <2>3. f[m] \in f[m]..(f[m + 1] - 1)
    <3> DEFINE a == f[m]
               b == f[m + 1]
    <3>1. a \in Nat /\ b \in Nat /\ a < b
      BY <2>2
    <3> HIDE DEF a, b
    <3>2. a \in a..(b - 1)
      BY <3>1
    <3> QED
      BY <3>2 DEF a, b
  <2>4. cleanup(f[m]) = f[m + 1]
    BY <2>1, <2>3, NewlineOfLine
  <2> QED
    BY <1>2, <1>3, <2>1, <2>4
<1>4. CASE ~(n < N)
  <2>1. m = N + 1 /\ m \in 1..(N + 1)
    BY <1>1, <1>2, <1>4
  <2>2. text \in Seq(Character) /\ Len(text) = f[N + 1] - 1 /\ f \in [1..(N + 1) -> Nat \ {0}]
    BY DEF Layout
  <2>3. Len(text) \in Nat /\ End = Len(text) + 1 /\ End \in 1..End
    BY <2>2, TextEnd
  <2>4. f[m] \in Nat /\ f[m] = End
    BY <2>1, <2>2, <2>3
  <2>5. cleanup(End) \in End..End
    BY <2>3, CleanupPlace
  <2>6. cleanup(f[m]) = f[m]
    BY <2>3, <2>4, <2>5
  <2> QED
    BY <1>2, <1>4, <2>6
<1> QED
  BY <1>3, <1>4

(* Before line k there are k - 1 newlines.                                 *)
NewlinesIn(t, p) == {i \in 1..(p - 1) : t[i] = Newline}

LEMMA NewlinesBefore ==
  ASSUME NEW lines, NEW f, NEW t, Layout(lines, f, t), NEW k \in 1..(Len(lines) + 1)
  PROVE  IsFiniteSet(NewlinesIn(t, f[k])) /\ Cardinality(NewlinesIn(t, f[k])) = k - 1
<1> DEFINE n == Len(lines)
           L(j) == NewlinesIn(t, f[j])
           P == {m \in Nat : m + 1 <= n + 1 => IsFiniteSet(L(m + 1)) /\ Cardinality(L(m + 1)) = m}
<1>1. n \in Nat /\ f[1] = 1
  BY DEF Layout
<1>2. 0 \in P
  <2>1. L(1) = {}
    BY <1>1 DEF NewlinesIn
  <2>2. 0 + 1 = 1 /\ IsFiniteSet({}) /\ Cardinality({}) = 0
    BY FS_EmptySet
  <2> HIDE DEF L
  <2> QED
    BY <2>1, <2>2
<1>3. ASSUME NEW m \in Nat, m \in P
      PROVE  m + 1 \in P
  <2>1. CASE m + 1 + 1 <= n + 1
    <3>1. PICK q : q = m + 1
      OBVIOUS
    <3>2. q \in 1..n /\ q <= n + 1
      BY <1>1, <2>1, <3>1
    <3>3. /\ f[q] \in Nat \ {0} /\ f[q + 1] \in Nat \ {0} /\ Len(lines[q].chars) \in Nat
          /\ f[q + 1] = f[q] + Len(lines[q].chars) + 1 /\ t[f[q + 1] - 1] = Newline
          /\ \A i \in 1..Len(lines[q].chars) : t[f[q] + i - 1] # Newline
      <4>1. q \in 1..Len(lines)
        BY <3>2
      <4> HIDE DEF P, L, n
      <4>2. /\ f[q] \in Nat \ {0} /\ f[q + 1] \in Nat \ {0} /\ Len(lines[q].chars) \in Nat
            /\ f[q + 1] = f[q] + Len(lines[q].chars) + 1 /\ t[f[q + 1] - 1] = Newline
        BY <4>1, LayoutFacts
      <4>3. \A i \in 1..Len(lines[q].chars) : t[f[q] + i - 1] # Newline
        BY <4>1, LaidNotNewline
      <4> QED
        BY <4>2, <4>3
    <3> DEFINE a == f[q]
               b == f[q + 1]
               l == Len(lines[q].chars)
    <3>4. a \in Nat \ {0} /\ l \in Nat /\ b = a + l + 1 /\ t[b - 1] = Newline
          /\ \A i \in 1..l : t[a + i - 1] # Newline
      BY <3>3
    <3>5. L(q) = {i \in 1..(a - 1) : t[i] = Newline} /\ L(q + 1) = {i \in 1..(b - 1) : t[i] = Newline}
      BY DEF NewlinesIn
    <3> HIDE DEF a, b, l, L
    <3>6. L(q + 1) = L(q) \cup {b - 1} /\ b - 1 \notin L(q)
      <4>1. ASSUME NEW i \in 1..(b - 1), t[i] = Newline
            PROVE  i \in 1..(a - 1) \/ i = b - 1
        <5>1. SUFFICES ASSUME i >= a, i # b - 1
                       PROVE  FALSE
          BY <3>4
        <5>2. PICK x : x = i - a + 1
          OBVIOUS
        <5>3. x \in 1..l /\ a + x - 1 = i
          BY <3>4, <5>1, <5>2
        <5> QED
          BY <3>4, <4>1, <5>3
      <4>2. 1..(a - 1) \subseteq 1..(b - 1) /\ b - 1 \in 1..(b - 1) /\ b - 1 \notin 1..(a - 1)
        BY <3>4
      <4> QED
        BY <3>4, <3>5, <4>1, <4>2
    <3>7. IsFiniteSet(L(q)) /\ Cardinality(L(q)) = m
      BY <1>3, <3>1, <3>2
    <3>8. IsFiniteSet(L(q + 1)) /\ Cardinality(L(q + 1)) = m + 1
      BY <3>6, <3>7, FS_AddElement
    <3> QED
      BY <3>1, <3>8
  <2> QED
    BY <2>1
<1>4. Nat \subseteq P
  <2> HIDE DEF P
  <2> QED
    BY <1>2, <1>3, NaturalsByStep
<1>5. PICK m : m = k - 1
  OBVIOUS
<1>6. m \in Nat /\ m + 1 = k /\ m + 1 <= n + 1
  BY <1>1, <1>5
<1> HIDE DEF L
<1>7. IsFiniteSet(L(k)) /\ Cardinality(L(k)) = m
  BY <1>4, <1>6
<1> QED
  BY <1>5, <1>7 DEF L

(* LineOf numbers the lines.                                                *)
LEMMA LineOfLaid ==
  ASSUME NEW lines, NEW f, NEW t, Layout(lines, f, t), NEW k \in 1..Len(lines),
         NEW p \in f[k]..(f[k + 1] - 1), \A i \in 1..(p - 1) : text[i] = t[i]
  PROVE  LineOf(p) = k
<1>1. /\ Len(lines) \in Nat /\ f[k] \in Nat \ {0} /\ Len(lines[k].chars) \in Nat
      /\ f[k + 1] = f[k] + Len(lines[k].chars) + 1
  BY LayoutFacts
<1>2. \A i \in 1..Len(lines[k].chars) : t[f[k] + i - 1] # Newline
  BY LaidNotNewline
<1>3. k \in 1..(Len(lines) + 1) /\ k \in Nat
  BY <1>1
<1>4. Cardinality(NewlinesIn(t, f[k])) = k - 1
  BY <1>3, NewlinesBefore
<1>5. LineOf(p) = 1 + Cardinality(NewlinesIn(text, p))
  BY DEF LineOf, NewlinesIn
<1> DEFINE a == f[k]
           b == f[k + 1]
           l == Len(lines[k].chars)
           A == NewlinesIn(t, a)
           B == NewlinesIn(text, p)
<1>6. /\ a \in Nat \ {0} /\ l \in Nat /\ b = a + l + 1 /\ p \in a..(b - 1)
      /\ \A i \in 1..l : t[a + i - 1] # Newline
  BY <1>1, <1>2
<1>7. Cardinality(A) = k - 1 /\ LineOf(p) = 1 + Cardinality(B)
  BY <1>4, <1>5
<1> HIDE DEF a, b, l
<1>8. A = B
  <2>0. A = {i \in 1..(a - 1) : t[i] = Newline} /\ B = {i \in 1..(p - 1) : text[i] = Newline}
    BY DEF NewlinesIn
  <2>1. 1..(a - 1) \subseteq 1..(p - 1)
    BY <1>6
  <2>2. ASSUME NEW i \in 1..(p - 1), t[i] = Newline
        PROVE  i \in 1..(a - 1)
    <3>1. SUFFICES ASSUME i >= a
                   PROVE  FALSE
      BY <1>6
    <3>2. PICK x : x = i - a + 1
      OBVIOUS
    <3>3. x \in 1..l /\ a + x - 1 = i
      BY <1>6, <3>1, <3>2
    <3> QED
      BY <1>6, <2>2, <3>3
  <2> HIDE DEF A, B
  <2>3. \A i \in A : i \in B
    BY <2>0, <2>1
  <2>4. \A i \in B : i \in A
    BY <2>0, <2>2
  <2> QED
    BY <2>3, <2>4
<1> HIDE DEF A, B
<1> QED
  BY <1>3, <1>7, <1>8

(* The characters s are in the text from a on.                             *)
TextAt(s, a) == \A i \in 1..Len(s) : text[a + i - 1] = s[i]

LEMMA LaidChars ==
  ASSUME NEW f, Layout(script, f, text), NEW k \in 1..Len(script), NEW s, s = script[k].chars
  PROVE  TextAt(s, f[k])
<1>1. \A i \in 1..Len(script[k].chars) :
        /\ text[f[k] + i - 1] = script[k].chars[i] /\ script[k].chars[i] # Newline
        /\ script[k].chars[i] \in Character
  BY LayoutFacts, Zenon
<1> QED
  BY <1>1, Zenon DEF TextAt

-----------------------------------------------------------------------------
(* Commands and their lines.                                               *)
\* A word, element by element.
LEMMA MatchesIs ==
  ASSUME text \in Seq(Character), NEW p \in 1..End, NEW S, NEW w \in Seq(S), Len(w) # 0
  PROVE  Matches(p, w) <=> /\ p + Len(w) <= End
                           /\ \A i \in 1..Len(w) : text[p + i - 1] = w[i]
<1>1. Len(text) \in Nat /\ End = Len(text) + 1 /\ Len(w) \in Nat
  BY TextEnd, LenProperties
<1>2. CASE ~(p + Len(w) <= End)
  BY <1>2 DEF Matches
<1>3. CASE p + Len(w) <= End
  <2> DEFINE m == p + Len(w) - 1
             u == SubSeq(text, p, m)
  <2>1. m \in Nat /\ p \in Nat \ {0} /\ p <= m /\ m <= Len(text) /\ m - p + 1 = Len(w)
    BY <1>1, <1>3
  <2>2. \A i \in p..m : text[i] \in Character
    BY <1>1, <2>1, ElementOfSeq
  <2> HIDE DEF m
  <2>3. u \in Seq(Character) /\ Len(u) = m - p + 1 /\ \A i \in 1..(m - p + 1) : u[i] = text[p + i - 1]
    BY <2>1, <2>2, SubSeqProperties
  <2>4. Len(u) = Len(w) /\ \A i \in 1..Len(w) : u[i] = text[p + i - 1]
    BY <2>1, <2>3
  <2>5. u = w <=> \A i \in 1..Len(w) : u[i] = w[i]
    <3>1. ASSUME \A i \in 1..Len(w) : u[i] = w[i]
          PROVE  u = w
      <4>1. u \in Seq(Character \cup S) /\ w \in Seq(Character \cup S)
        BY <2>3
      <4> QED
        BY <2>4, <3>1, <4>1, SeqEqual
    <3> QED
      BY <3>1
  <2>6. Matches(p, w) <=> u = w
    BY <1>3 DEF Matches, m
  <2> HIDE DEF u
  <2> QED
    BY <1>3, <2>4, <2>5, <2>6
<1> QED
  BY <1>2, <1>3

(* No command reaches over the end of its line.                            *)
LEMMA MatchInLine ==
  ASSUME NEW f, Layout(script, f, text), NEW k \in 1..Len(script), NEW p \in f[k]..(f[k + 1] - 1),
         NEW c \in DOMAIN Keyword, Matches(p, Keyword[c])
  PROVE  p + Len(Keyword[c]) <= f[k + 1] - 1
<1>1. PICK w : w = Keyword[c]
  OBVIOUS
<1>2. w \in Seq(Letters) /\ Len(w) \in 6..12 /\ \A i \in 1..Len(w) : w[i] # Newline
  BY <1>1, KeywordTyped
<1>3. text \in Seq(Character) /\ p \in 1..End /\ p \in Nat /\ f[k] \in Nat /\ f[k + 1] \in Nat
  <2>1. text \in Seq(Character) /\ Len(text) \in Nat /\ End = Len(text) + 1
    BY LinePlace
  <2>2. p \in 1..Len(text) /\ f[k] \in Nat /\ f[k + 1] \in Nat
    BY NewlineOfLine
  <2> QED
    BY <2>1, <2>2
<1>4. p + Len(w) <= End /\ \A i \in 1..Len(w) : text[p + i - 1] = w[i]
  <2>1. Len(w) # 0
    BY <1>2
  <2> QED
    BY <1>1, <1>2, <1>3, <2>1, MatchesIs
<1>5. text[f[k + 1] - 1] = Newline
  BY LayoutFacts
<1> DEFINE a == f[k]
           b == f[k + 1]
           l == Len(w)
<1>6. a \in Nat /\ b \in Nat /\ p \in a..(b - 1) /\ text[b - 1] = Newline /\ l \in 6..12
      /\ \A i \in 1..l : text[p + i - 1] # Newline
  BY <1>2, <1>3, <1>4, <1>5
<1> HIDE DEF a, b, l
<1>7. p + l <= b - 1
  <2>1. SUFFICES ASSUME p + l > b - 1
                 PROVE  FALSE
    BY <1>3, <1>6
  <2>2. PICK i : i = b - p
    OBVIOUS
  <2>3. i \in 1..l /\ p + i - 1 = b - 1
    BY <1>3, <1>6, <2>1, <2>2
  <2> QED
    BY <1>6, <2>3
<1> QED
  BY <1>1, <1>7 DEF b, l

(* At most one command stands at a place.                                  *)
LEMMA OneCommand ==
  ASSUME text \in Seq(Character), NEW p \in 1..End, NEW c \in CommandAt(p), NEW d \in CommandAt(p)
  PROVE  c = d
<1>1. ASSUME NEW e \in CommandAt(p)
      PROVE  /\ e \in {"SUBSCRIBE", "UNSUBSCRIBE", "DELAY", "DISCONNECT"}
             /\ text[p] = Keyword[e][1] /\ text[p + 1] = Keyword[e][2]
  <2>1. e \in DOMAIN Keyword /\ Matches(p, Keyword[e])
    BY DEF CommandAt
  <2>2. PICK w : w = Keyword[e]
    OBVIOUS
  <2>a. e \in DOMAIN Keyword
    BY <2>1
  <2>b. w \in Seq(Letters) /\ Len(w) \in 6..12
    BY <2>a, <2>2, KeywordTyped
  <2>c. Len(w) # 0
    <3>1. PICK n : n = Len(w)
      OBVIOUS
    <3>2. n \in 6..12
      BY <2>b, <3>1
    <3>3. n # 0
      BY <3>2
    <3> QED
      BY <3>1, <3>3
  <2>3. w \in Seq(Letters) /\ Len(w) \in 6..12 /\ Len(w) # 0
    BY <2>b, <2>c
  <2>4. \A i \in 1..Len(w) : text[p + i - 1] = w[i]
    BY <2>1, <2>2, <2>3, MatchesIs
  <2>5. 1 \in 1..Len(w) /\ 2 \in 1..Len(w) /\ p + 1 - 1 = p /\ p + 2 - 1 = p + 1
    <3>1. PICK n : n = Len(w)
      OBVIOUS
    <3>a. Len(text) \in Nat /\ End = Len(text) + 1
      BY TextEnd
    <3>b. p \in Nat
      BY <3>a
    <3>2. n \in 6..12 /\ p \in Nat
      BY <2>3, <3>1, <3>b
    <3>3. 1 \in 1..n /\ 2 \in 1..n /\ p + 1 - 1 = p /\ p + 2 - 1 = p + 1
      BY <3>2
    <3> QED
      BY <3>1, <3>3
  <2>6. text[p] = w[1] /\ text[p + 1] = w[2]
    BY <2>4, <2>5
  <2> QED
    BY <2>1, <2>2, <2>6, Keywords
<1>2. text[p] = Keyword[c][1] /\ text[p] = Keyword[d][1] /\ text[p + 1] = Keyword[c][2] /\ text[p + 1] = Keyword[d][2]
  BY <1>1
<1>3. c \in {"SUBSCRIBE", "UNSUBSCRIBE", "DELAY", "DISCONNECT"} /\ d \in {"SUBSCRIBE", "UNSUBSCRIBE", "DELAY", "DISCONNECT"}
  BY <1>1
<1> QED
  BY <1>2, <1>3, Keywords

(* The command on a line.                                                  *)
LEMMA CommandsOfLine ==
  ASSUME script \in Scripts, NEW f, Layout(script, f, text), NEW k \in 1..Len(script)
  PROVE  CommandAt(f[k]) = CommandsOf(script[k].chars)
<1> DEFINE s == script[k].chars
<1>1. s \in Seq(Character) /\ Len(s) \in Nat /\ \A i \in 1..Len(s) : s[i] # Newline
  BY LinesKnown
<1>2. /\ text \in Seq(Character) /\ Len(text) \in Nat /\ End = Len(text) + 1
      /\ f[k] \in 1..Len(text) /\ f[k + 1] \in 1..End /\ f[k] < f[k + 1]
  BY LinePlace
<1>3. f[k + 1] = f[k] + Len(s) + 1 /\ text[f[k + 1] - 1] = Newline
  BY LayoutFacts
<1>4. \A i \in 1..Len(s) : text[f[k] + i - 1] = s[i]
  BY LayoutFacts
<1> DEFINE a == f[k]
           b == f[k + 1]
           l == Len(s)
<1>5. ASSUME NEW c \in DOMAIN Keyword
      PROVE  Matches(a, Keyword[c]) <=> IsPrefix(Keyword[c], s)
  <2>1. PICK w : w = Keyword[c]
    OBVIOUS
  <2>2. w \in Seq(Letters) /\ Len(w) \in 6..12 /\ Len(w) # 0
    BY <2>1, KeywordTyped
  <2>3. f[k] \in 1..End
    BY <1>2
  <2>4. Matches(f[k], w) <=> f[k] + Len(w) <= End /\ \A i \in 1..Len(w) : text[f[k] + i - 1] = w[i]
    BY <1>2, <2>2, <2>3, MatchesIs
  <2>5. IsPrefix(w, s) <=> Len(w) <= Len(s) /\ \A i \in 1..Len(w) : s[i] = w[i]
    <3> HIDE DEF s
    <3> QED
      BY <1>1, <2>2, IsPrefixIs
  <2>6. ASSUME Matches(f[k], w)
        PROVE  Len(w) <= Len(s)
    <3>1. f[k] \in f[k]..(f[k + 1] - 1)
      BY <1>2
    <3>2. f[k] + Len(w) <= f[k + 1] - 1
      BY <2>1, <2>6, <3>1, MatchInLine
    <3>3. PICK n : n = Len(w)
      OBVIOUS
    <3>4. l \in Nat /\ n \in Nat /\ a \in Nat /\ b = a + l + 1 /\ a + n <= b - 1
      BY <1>1, <1>2, <1>3, <2>2, <3>2, <3>3
    <3> HIDE DEF a, b, l
    <3>5. n <= l
      BY <3>4
    <3> QED
      BY <3>3, <3>5 DEF l
  <2>7. ASSUME Len(w) <= Len(s)
        PROVE  f[k] + Len(w) <= End /\ 1..Len(w) \subseteq 1..Len(s)
    <3>1. PICK n : n = Len(w)
      OBVIOUS
    <3>2. l \in Nat /\ n \in Nat /\ n <= l /\ a \in Nat /\ b = a + l + 1 /\ b <= End /\ End \in Nat
      BY <1>1, <1>2, <1>3, <2>2, <2>7, <3>1
    <3> HIDE DEF a, b, l
    <3>3. a + n <= End /\ 1..n \subseteq 1..l
      BY <3>2
    <3> QED
      BY <3>1, <3>3 DEF a, l
  <2>8. ASSUME Len(w) <= Len(s), NEW i \in 1..Len(w)
        PROVE  text[f[k] + i - 1] = s[i]
    BY <1>4, <2>7, <2>8
  <2>9. Matches(f[k], w) <=> IsPrefix(w, s)
    BY <2>4, <2>5, <2>6, <2>7, <2>8
  <2> QED
    BY <2>1, <2>9
<1>6. ASSUME Matches(a, Keyword["DISCONNECT"])
      PROVE  (AtEnd(a + Len(Keyword["DISCONNECT"])) \/ text[a + Len(Keyword["DISCONNECT"])] = Newline)
               <=> s = Keyword["DISCONNECT"]
  <2>1. PICK w : w = Keyword["DISCONNECT"]
    OBVIOUS
  <2>2. w \in Seq(Letters) /\ Len(w) \in 6..12
    BY <2>1, KeywordTyped, Keywords
  <2>3. Len(w) <= Len(s) /\ \A i \in 1..Len(w) : s[i] = w[i]
    <3>1. IsPrefix(w, s)
      BY <1>5, <1>6, <2>1, Keywords
    <3> HIDE DEF s
    <3> QED
      BY <1>1, <2>2, <3>1, IsPrefixIs
  <2>4. PICK n : n = Len(w)
    OBVIOUS
  <2>5. n \in Nat /\ n <= l /\ l \in Nat /\ a \in Nat \ {0} /\ b = a + l + 1 /\ b <= End /\ End \in Nat
    BY <1>1, <1>2, <1>3, <2>2, <2>3, <2>4
  <2>6. text[b - 1] = Newline /\ \A i \in 1..l : text[a + i - 1] # Newline
    BY <1>1, <1>3, <1>4
  <2>7. (AtEnd(a + n) \/ text[a + n] = Newline) <=> n = l
    <3> HIDE DEF a, b, l
    <3>1. ~AtEnd(a + n)
      BY <2>5 DEF AtEnd
    <3>2. n = l => a + n = b - 1
      BY <2>5
    <3>3. ASSUME n # l
          PROVE  text[a + n] # Newline
      <4>1. PICK i : i = n + 1
        OBVIOUS
      <4>2. i \in 1..l /\ a + i - 1 = a + n
        BY <2>5, <3>3, <4>1
      <4> QED
        BY <2>6, <4>2
    <3> QED
      BY <2>6, <3>1, <3>2, <3>3
  <2>8. n = l <=> s = w
    <3>1. ASSUME n = l
          PROVE  s = w
      <4>1. s \in Seq(Character \cup Letters) /\ w \in Seq(Character \cup Letters) /\ Len(s) = Len(w)
        BY <1>1, <2>2, <2>4, <3>1
      <4>2. \A i \in 1..Len(s) : s[i] = w[i]
        BY <2>3, <4>1
      <4> HIDE DEF s
      <4> QED
        BY <4>1, <4>2, SeqEqual
    <3> QED
      BY <2>4, <3>1
  <2> QED
    BY <2>1, <2>4, <2>7, <2>8
<1> HIDE DEF s, a, b, l
<1>7. CommandAt(a) = CommandsOf(s)
  <2>1. ASSUME NEW c \in DOMAIN Keyword
        PROVE  c \in CommandAt(a) <=> c \in CommandsOf(s)
    BY <1>5, <1>6 DEF CommandAt, CommandsOf
  <2>2. \A c \in CommandAt(a) : c \in DOMAIN Keyword
    BY DEF CommandAt
  <2>3. \A c \in CommandsOf(s) : c \in DOMAIN Keyword
    BY DEF CommandsOf
  <2> QED
    BY <2>1, <2>2, <2>3
<1> QED
  BY <1>7 DEF a, s

(* A line begins with one command.                                         *)
LEMMA OneOfLine ==
  ASSUME script \in Scripts, NEW f, Layout(script, f, text), NEW n \in 1..Len(script),
         NEW s, s = script[n].chars, NEW c \in CommandsOf(s), NEW d \in CommandsOf(s)
  PROVE  c = d
<1>1. CommandAt(f[n]) = CommandsOf(s)
  BY CommandsOfLine
<1>2. text \in Seq(Character) /\ f[n] \in 1..End
  BY LinePlace
<1> QED
  BY <1>1, <1>2, OneCommand

LEMMA CommandsFit ==
  ASSUME NEW s \in Seq(Character), NEW c \in CommandsOf(s)
  PROVE  c \in DOMAIN Keyword /\ Len(Keyword[c]) <= Len(s) /\ IsPrefix(Keyword[c], s)
BY DEF CommandsOf, IsPrefix

(* What a good line is.                                                    *)
LEMMA GoodIs ==
  ASSUME NEW s, NEW means, means.args \in Seq(Seq(STRING)), Good(s, means)
  PROVE  \/ (s = << >> \/ s[1] = "#") /\ means = Skipped
         \/ s = Keyword["DISCONNECT"] /\ means = Command("DISCONNECT", << >>) /\ "DISCONNECT" \in CommandsOf(s)
         \/ \E k \in Seq(STRING) :
              /\ s = Keyword["DELAY"] \o k /\ means = Command("DELAY", <<k>>) /\ "DELAY" \in CommandsOf(s)
              /\ ToSet(k) \subseteq Digits /\ ~TooLarge(k, Len(k)) /\ k = Decimal(Number(k))
         \/ \E k \in Seq(STRING), c \in {"SUBSCRIBE", "UNSUBSCRIBE"} :
              /\ s = Keyword[c] \o (<<"[">> \o k \o <<"]">>) /\ means = Command(c, <<k>>) /\ c \in CommandsOf(s)
              /\ {"[", "]"} \cap ToSet(k) = {} /\ FitsRead(Rest(c, s)) /\ k # Overlong
<1>1. ASSUME NEW k \in ToSet(means.args)
      PROVE  k \in Seq(STRING)
  BY <1>1, LenProperties, ElementOfSeq DEF ToSet
<1>2. CASE s = Keyword["DISCONNECT"] /\ means = Command("DISCONNECT", << >>)
  <2>1. "DISCONNECT" \in DOMAIN Keyword
    BY Keywords
  <2>2. Keyword["DISCONNECT"] \in Seq(Letters)
    BY <2>1, KeywordTyped
  <2>3. IsPrefix(Keyword["DISCONNECT"], s)
    BY <1>2, <2>2, PrefixOfItself
  <2>4. "DISCONNECT" \in CommandsOf(s)
    BY <1>2, <2>1, <2>3 DEF CommandsOf
  <2> QED
    BY <1>2, <2>4
<1>3. ASSUME NEW k \in Seq(STRING), NEW c \in {"SUBSCRIBE", "UNSUBSCRIBE", "DELAY"}, NEW r, s = Keyword[c] \o r,
             r = k \/ r = <<"[">> \o k \o <<"]">>
      PROVE  c \in CommandsOf(s)
  <2>1. c \in DOMAIN Keyword /\ c # "DISCONNECT"
    BY Keywords
  <2>2. Keyword[c] \in Seq(Letters)
    BY <2>1, KeywordTyped
  <2>3. r \in Seq(STRING \cup {"[", "]"})
    <3>1. k \in Seq(STRING \cup {"[", "]"})
      BY WiderSeq
    <3>2. <<"[">> \in Seq(STRING \cup {"[", "]"}) /\ <<"]">> \in Seq(STRING \cup {"[", "]"})
      OBVIOUS
    <3>3. <<"[">> \o k \o <<"]">> \in Seq(STRING \cup {"[", "]"})
      BY <3>1, <3>2, ConcatProperties
    <3> QED
      BY <1>3, <3>1, <3>3
  <2>4. IsPrefix(Keyword[c], s)
    BY <1>3, <2>2, <2>3, PrefixOfConcatenation
  <2> QED
    BY <2>1, <2>4 DEF CommandsOf
<1>4. ASSUME NEW k \in ToSet(means.args),
             s = Keyword["DELAY"] \o k, means = Command("DELAY", <<k>>),
             ToSet(k) \subseteq Digits, ~TooLarge(k, Len(k)), k = Decimal(Number(k))
      PROVE  \E j \in Seq(STRING) :
              /\ s = Keyword["DELAY"] \o j /\ means = Command("DELAY", <<j>>) /\ "DELAY" \in CommandsOf(s)
              /\ ToSet(j) \subseteq Digits /\ ~TooLarge(j, Len(j)) /\ j = Decimal(Number(j))
  <2>1. k \in Seq(STRING)
    BY <1>1
  <2>2. "DELAY" \in CommandsOf(s)
    BY <1>3, <1>4, <2>1
  <2> QED
    BY <1>4, <2>1, <2>2
<1>5. ASSUME NEW k \in ToSet(means.args), NEW c \in {"SUBSCRIBE", "UNSUBSCRIBE"},
             s = Keyword[c] \o (<<"[">> \o k \o <<"]">>), means = Command(c, <<k>>),
             {"[", "]"} \cap ToSet(k) = {}, FitsRead(Rest(c, s)), k # Overlong
      PROVE  \E j \in Seq(STRING), d \in {"SUBSCRIBE", "UNSUBSCRIBE"} :
              /\ s = Keyword[d] \o (<<"[">> \o j \o <<"]">>) /\ means = Command(d, <<j>>) /\ d \in CommandsOf(s)
              /\ {"[", "]"} \cap ToSet(j) = {} /\ FitsRead(Rest(d, s)) /\ j # Overlong
  <2>1. k \in Seq(STRING)
    BY <1>1
  <2>2. c \in CommandsOf(s)
    BY <1>3, <1>5, <2>1
  <2> QED
    BY <1>5, <2>1, <2>2
<1> QED
  BY <1>2, <1>4, <1>5, Zenon DEF Good

-----------------------------------------------------------------------------
(* What a terminal's user typed, line by line.                             *)
BegunIn(lg) == {lg[i][1] : i \in DOMAIN lg}

\* Where main may be between two commands.
Places(f, s) ==
  {f[j] : j \in 1..(Len(s) + 1)}
    \cup UNION {f[j]..(f[j + 1] - 1) : j \in {i \in 1..Len(s) : s[i].class = "other"}}

\* Main is on line n, where it should be.
On(f, s, p, c, k, n) ==
  /\ n \in 1..Len(s) /\ p \in f[n]..(f[n + 1] - 1)
  /\ s[n].class # "other" =>
       IF c = "argument" THEN /\ k \in DOMAIN Keyword /\ IsPrefix(Keyword[k], s[n].chars)
                              /\ p = f[n] + Len(Keyword[k])
                         ELSE p = f[n]

\* An entry of the log is what its line means.
Meant(s, e) ==
  /\ e[1] \in 1..Len(s)
  /\ s[e[1]].class \in {"good", "bad", "greedy"} => Same(e[2], s[e[1]].means)

\* What begins on line n may end at q.
Stops(f, s, n, q) ==
  CASE s[n].class = "other"  -> q \in Places(f, s)
    [] s[n].class = "greedy" -> q = f[IF n < Len(s) THEN n + 2 ELSE n + 1]
    [] OTHER                 -> q = f[n + 1]

\* After line m comes the next line, or after a greedy one the next but one.
Followed(f, s, p, c, l, lg, m) ==
  IF m # 0 /\ s[m].class = "greedy"
    THEN m + 1 \notin BegunIn(lg) /\ (m < Len(s) => f[m + 2] <= p)
    ELSE m + 1 \in BegunIn(lg) \/ IF c = "argument" THEN l = m + 1 ELSE p = f[m + 1]

InOrder(f, s, p, c, l, lg) ==
  \A m \in 0..Len(s) :
    m = 0 \/ (m \in BegunIn(lg) /\ s[m].class # "other") => Followed(f, s, p, c, l, lg, m)

TypedIn(f, s, t, p, c, k, l, lg) ==
  /\ Layout(s, f, t)
  /\ IF c = "argument" THEN On(f, s, p, c, k, l) /\ k \in {"SUBSCRIBE", "UNSUBSCRIBE", "DELAY"}
                       ELSE p \in Places(f, s)
  /\ \E S : lg \in Seq(S)
  /\ \A i \in DOMAIN lg : Meant(s, lg[i]) /\ f[lg[i][1]] <= p
  /\ k = "EOC" => p = f[Len(s) + 1] /\ c # "argument"
  /\ (c = "exited" /\ k = "DISCONNECT") \/ InOrder(f, s, p, c, l, lg)

(* One more entry in the log.                                              *)
LEMMA AppendAny ==
  ASSUME NEW S, NEW lg \in Seq(S), NEW e
  PROVE  /\ \E T : Append(lg, e) \in Seq(T)
         /\ DOMAIN Append(lg, e) = DOMAIN lg \cup {Len(lg) + 1}
         /\ Append(lg, e)[Len(lg) + 1] = e
         /\ \A i \in DOMAIN lg : Append(lg, e)[i] = lg[i]
         /\ BegunIn(Append(lg, e)) = BegunIn(lg) \cup {e[1]}
<1> DEFINE T == S \cup {e}
           u == Append(lg, e)
           n == Len(lg)
<1>1. lg \in Seq(T) /\ e \in T
  BY WiderSeq
<1>2. /\ u \in Seq(T) /\ Len(u) = n + 1 /\ n \in Nat /\ DOMAIN lg = 1..n /\ DOMAIN u = 1..Len(u)
      /\ u[n + 1] = e /\ \A i \in 1..n : u[i] = lg[i]
  <2> HIDE DEF T
  <2> QED
    BY <1>1, AppendProperties, LenProperties
<1> HIDE DEF u, n, T
<1>3. DOMAIN u = DOMAIN lg \cup {n + 1}
  BY <1>2
<1>4. BegunIn(u) = BegunIn(lg) \cup {e[1]}
  <2>1. BegunIn(u) = {u[i][1] : i \in DOMAIN lg \cup {n + 1}} /\ BegunIn(lg) = {lg[i][1] : i \in DOMAIN lg}
    BY <1>3 DEF BegunIn
  <2>2. \A i \in DOMAIN lg : u[i] = lg[i]
    BY <1>2
  <2> QED
    BY <1>2, <2>1, <2>2
<1> QED
  BY <1>2, <1>3, <1>4 DEF u, n

(* A line is carried out: the log gets its entry, and main goes on.        *)
LEMMA LineLogged ==
  ASSUME NEW f, TypedIn(f, script, text, pos, pc, cmd, line, log),
         NEW n, On(f, script, pos, pc, cmd, n), pc \in {"next", "argument"}, pc = "argument" => n = line,
         NEW w, Meant(script, <<n, w>>),
         NEW q, Stops(f, script, n, q), q >= pos, q \in Nat,
         NEW c, c # "argument", NEW k, k # "EOC", NEW l
  PROVE  TypedIn(f, script, text, q, c, k, l, Append(log, <<n, w>>))
<1> DEFINE N == Len(script)
           lg == Append(log, <<n, w>>)
           B == BegunIn(log)
<1>1. /\ Layout(script, f, text) /\ (pc = "argument" \/ pos \in Places(f, script))
      /\ \A i \in DOMAIN log : Meant(script, log[i]) /\ f[log[i][1]] <= pos
      /\ InOrder(f, script, pos, pc, line, log)
  BY DEF TypedIn
<1>2. PICK S : log \in Seq(S)
  BY DEF TypedIn
<1>3. /\ n \in 1..N /\ pos \in f[n]..(f[n + 1] - 1)
      /\ script[n].class # "other" /\ pc # "argument" => pos = f[n]
  BY DEF On
<1>4. N \in Nat /\ n + 1 \in 1..(N + 1) /\ n \in 1..(N + 1) /\ n \in Nat /\ f[n] \in Nat /\ f[n + 1] \in Nat /\ pos \in Nat
  <2>1. N \in Nat
    BY <1>1 DEF Layout
  <2>2. n + 1 \in 1..(N + 1) /\ n \in 1..(N + 1) /\ n \in Nat
    BY <1>3, <2>1
  <2>3. f[n] \in Nat /\ f[n + 1] \in Nat
    BY <1>1, <1>3, NewlineOfLine
  <2>4. pos \in Nat
    BY <1>3, <2>3
  <2> QED
    BY <2>1, <2>2, <2>3, <2>4
<1>5. /\ \E T : lg \in Seq(T)
      /\ DOMAIN lg = DOMAIN log \cup {Len(log) + 1}
      /\ lg[Len(log) + 1] = <<n, w>>
      /\ \A i \in DOMAIN log : lg[i] = log[i]
      /\ BegunIn(lg) = B \cup {n}
  <2>1. <<n, w>>[1] = n
    OBVIOUS
  <2> QED
    BY <1>2, <2>1, AppendAny
<1>6. q \in Places(f, script)
  <2>1. CASE script[n].class = "other"
    BY <2>1 DEF Stops
  <2>2. CASE script[n].class # "other"
    <3>1. PICK m : m = IF script[n].class = "greedy" /\ n < N THEN n + 2 ELSE n + 1
      OBVIOUS
    <3>2. m \in 1..(N + 1)
      BY <1>4, <3>1
    <3>3. q = f[m]
      BY <2>2, <3>1 DEF Stops
    <3> QED
      BY <3>2, <3>3 DEF Places
  <2> QED
    BY <2>1, <2>2
<1>7. \A i \in DOMAIN lg : Meant(script, lg[i]) /\ f[lg[i][1]] <= q
  <2>1. ASSUME NEW i \in DOMAIN log
        PROVE  Meant(script, log[i]) /\ f[log[i][1]] <= q
    <3>1. Meant(script, log[i]) /\ f[log[i][1]] <= pos
      BY <1>1
    <3>2. log[i][1] \in 1..N
      BY <3>1 DEF Meant
    <3>3. PICK j : j = log[i][1]
      OBVIOUS
    <3>4. j \in 1..(N + 1)
      BY <1>4, <3>2, <3>3
    <3>5. f[j] \in Nat
      BY <1>1, <3>4, LineOrder
    <3>6. f[j] <= q
      BY <1>4, <3>1, <3>3, <3>5
    <3> QED
      BY <3>1, <3>3, <3>6
  <2>2. f[n] <= q /\ <<n, w>>[1] = n
    BY <1>3, <1>4
  <2> HIDE DEF lg
  <2> QED
    BY <1>5, <2>1, <2>2
<1>8. ASSUME NEW b \in B
      PROVE  b \in 1..N /\ b <= n
  <2>1. PICK i \in DOMAIN log : b = log[i][1]
    BY DEF BegunIn
  <2>2. b \in 1..N /\ f[b] <= pos
    BY <1>1, <2>1 DEF Meant
  <2>3. b \in 1..(N + 1)
    BY <1>4, <2>2
  <2>4. f[b] \in Nat /\ (f[b] < f[n + 1] <=> b < n + 1)
    BY <1>1, <1>4, <2>3, LineOrder
  <2>5. f[b] < f[n + 1]
    BY <1>3, <1>4, <2>2, <2>4
  <2> QED
    BY <1>4, <2>2, <2>4, <2>5
<1>9. InOrder(f, script, q, c, l, lg)
  <2>1. ASSUME NEW m \in 0..N, m = 0 \/ (m \in BegunIn(lg) /\ script[m].class # "other")
        PROVE  Followed(f, script, q, c, l, lg, m)
    <3>1. m \in Nat /\ m <= N
      BY <1>4
    <3>2. CASE m = n
      <4>1. m # 0 /\ script[n].class # "other"
        BY <1>3, <1>4, <2>1, <3>2
      <4>2. CASE script[n].class = "greedy"
        <5>1. n + 1 \notin BegunIn(lg)
          <6>1. n + 1 \notin B
            <7>1. ~(n + 1 <= n)
              BY <1>4
            <7> QED
              BY <1>8, <7>1
          <6>2. n + 1 # n
            BY <1>4
          <6> QED
            BY <1>5, <6>1, <6>2
        <5>2. n < N => f[n + 2] <= q
          <6>1. n < N => q = f[n + 2]
            BY <4>2 DEF Stops
          <6> QED
            BY <6>1
        <5> QED
          BY <3>2, <4>1, <4>2, <5>1, <5>2 DEF Followed
      <4>3. CASE script[n].class # "greedy"
        <5>1. q = f[n + 1]
          BY <4>1, <4>3 DEF Stops
        <5> QED
          BY <3>2, <4>3, <5>1 DEF Followed
      <4> QED
        BY <4>2, <4>3
    <3>3. CASE m # n
      <4>1. m = 0 \/ (m \in B /\ script[m].class # "other")
        BY <1>5, <2>1, <3>3
      <4>2. Followed(f, script, pos, pc, line, log, m)
        BY <1>1, <4>1 DEF InOrder
      <4>3. CASE m # 0 /\ script[m].class = "greedy"
        <5>1. m + 1 \notin B /\ (m < N => f[m + 2] <= pos)
          BY <4>2, <4>3 DEF Followed
        <5>2. m + 1 # n
          <6>1. SUFFICES ASSUME m + 1 = n
                         PROVE  FALSE
            OBVIOUS
          <6>2. m < N /\ m + 2 = n + 1
            BY <1>3, <1>4, <3>1, <6>1
          <6>3. f[n + 1] <= pos
            BY <5>1, <6>2
          <6> QED
            BY <1>3, <1>4, <6>3
        <5>3. ASSUME m < N
              PROVE  f[m + 2] <= q
          <6>1. PICK j : j = m + 2
            OBVIOUS
          <6>2. j \in 1..(N + 1)
            BY <1>4, <3>1, <5>3, <6>1
          <6>3. f[j] \in Nat
            BY <1>1, <6>2, LineOrder
          <6>4. f[j] <= pos
            BY <5>1, <5>3, <6>1
          <6>5. f[j] <= q
            BY <1>4, <6>3, <6>4
          <6> QED
            BY <6>1, <6>5
        <5> QED
          BY <1>5, <4>3, <5>1, <5>2, <5>3 DEF Followed
      <4>4. CASE ~(m # 0 /\ script[m].class = "greedy")
        <5>1. m + 1 \in B \/ IF pc = "argument" THEN line = m + 1 ELSE pos = f[m + 1]
          BY <4>2, <4>4 DEF Followed
        <5>2. m + 1 \in B \cup {n}
          <6>1. CASE m + 1 \in B
            BY <6>1
          <6>2. CASE pc = "argument" /\ line = m + 1
            BY <6>2
          <6>3. CASE pc # "argument" /\ pos = f[m + 1]
            <7>1. PICK j : j = m + 1
              OBVIOUS
            <7>2. j \in 1..(N + 1) /\ j \in Nat
              BY <1>4, <3>1, <7>1
            <7>3. f[j] \in Nat /\ (f[j] < f[n + 1] <=> j < n + 1)
              BY <1>1, <1>4, <7>2, LineOrder
            <7>4. f[n] \in Nat /\ (f[j] < f[n] <=> j < n)
              BY <1>1, <1>4, <7>2, LineOrder
            <7>5. f[n] <= f[j] /\ f[j] < f[n + 1]
              BY <1>3, <1>4, <6>3, <7>1
            <7>6. ~(j < n) /\ j < n + 1
              BY <7>3, <7>4, <7>5
            <7>7. j = n
              BY <1>4, <7>2, <7>6
            <7> QED
              BY <7>1, <7>7
          <6> QED
            BY <5>1, <6>1, <6>2, <6>3
        <5> QED
          BY <1>5, <4>4, <5>2 DEF Followed
      <4> QED
        BY <4>3, <4>4
    <3> QED
      BY <3>2, <3>3
  <2> QED
    BY <2>1 DEF InOrder
<1> QED
  BY <1>1, <1>5, <1>6, <1>7, <1>9 DEF TypedIn

(* Main's places are in the text.                                          *)
LEMMA PlacesInText ==
  ASSUME NEW f, Layout(script, f, text), NEW p \in Places(f, script)
  PROVE  p \in 1..End /\ text \in Seq(Character) /\ Len(text) \in Nat /\ End = Len(text) + 1
<1>1. text \in Seq(Character) /\ Len(text) \in Nat /\ End = Len(text) + 1
  BY TextEnd DEF Layout
<1>2. CASE \E j \in 1..(Len(script) + 1) : p = f[j]
  <2>1. PICK j \in 1..(Len(script) + 1) : p = f[j]
    BY <1>2
  <2>2. f[j] \in Nat \ {0} /\ f[j] <= Len(text) + 1
    BY <2>1, LayoutOrder
  <2>3. p \in Nat \ {0} /\ p <= Len(text) + 1
    BY <2>1, <2>2
  <2> QED
    BY <1>1, <2>3
<1>3. CASE \E j \in 1..Len(script) : p \in f[j]..(f[j + 1] - 1)
  <2>1. PICK j \in 1..Len(script) : p \in f[j]..(f[j + 1] - 1)
    BY <1>3
  <2>2. p \in 1..Len(text)
    BY <2>1, NewlineOfLine
  <2> QED
    BY <1>1, <2>2
<1> QED
  BY <1>1, <1>2, <1>3 DEF Places

(* Between two commands, main is on a line, where it should be.            *)
LEMMA PlaceOnLine ==
  ASSUME NEW f, Layout(script, f, text), pos \in Places(f, script), ~AtEnd(pos), pc # "argument"
  PROVE  On(f, script, pos, pc, cmd, LineOf(pos)) /\ pos \in 1..Len(text)
<1>1. pos \in 1..Len(text)
  <2>1. pos \in 1..End /\ Len(text) \in Nat /\ End = Len(text) + 1 /\ ~(pos >= End)
    BY PlacesInText DEF AtEnd
  <2> QED
    BY <2>1
<1>2. PICK k \in 1..Len(script) : pos \in f[k]..(f[k + 1] - 1)
  BY <1>1, LineAround
<1>3. LineOf(pos) = k
  BY <1>2, LineOfLaid
<1>4. ASSUME script[k].class # "other"
      PROVE  pos = f[k]
  <2>1. CASE \E j \in 1..(Len(script) + 1) : pos = f[j]
    <3>1. PICK j \in 1..(Len(script) + 1) : pos = f[j]
      BY <2>1
    <3>2. j = k
      BY <1>2, <3>1, OnlyLineAt
    <3> QED
      BY <3>1, <3>2
  <2>2. CASE \E j \in 1..Len(script) : script[j].class = "other" /\ pos \in f[j]..(f[j + 1] - 1)
    <3>1. PICK j \in 1..Len(script) : script[j].class = "other" /\ pos \in f[j]..(f[j + 1] - 1)
      BY <2>2
    <3>2. LineOf(pos) = j
      BY <3>1, LineOfLaid
    <3> QED
      BY <1>3, <1>4, <3>1, <3>2
  <2> QED
    BY <2>1, <2>2 DEF Places
<1>5. On(f, script, pos, pc, cmd, k)
  BY <1>2, <1>4 DEF On
<1> QED
  BY <1>1, <1>3, <1>5

(* Main waits, goes on or ends where it is.                                *)
LEMMA TypedMoved ==
  ASSUME NEW f, TypedIn(f, script, text, pos, pc, cmd, line, log),
         pc # "argument", ~(pc = "exited" /\ cmd = "DISCONNECT"),
         NEW c, c # "argument", NEW k, k = "EOC" => pos = f[Len(script) + 1], NEW l
  PROVE  TypedIn(f, script, text, pos, c, k, l, log)
<1>1. /\ Layout(script, f, text) /\ pos \in Places(f, script) /\ \E S : log \in Seq(S)
      /\ \A i \in DOMAIN log : Meant(script, log[i]) /\ f[log[i][1]] <= pos
      /\ InOrder(f, script, pos, pc, line, log)
  BY DEF TypedIn
<1>2. ASSUME NEW m, Followed(f, script, pos, pc, line, log, m)
      PROVE  Followed(f, script, pos, c, l, log, m)
  BY <1>2 DEF Followed
<1>3. InOrder(f, script, pos, c, l, log)
  BY <1>1, <1>2 DEF InOrder
<1> QED
  BY <1>1, <1>3 DEF TypedIn

(* A command with an argument begins.                                      *)
LEMMA CommandBegun ==
  ASSUME script \in Scripts, NEW f, TypedIn(f, script, text, pos, pc, cmd, line, log), pc = "next",
         NEW c \in CommandAt(pos), c # "DISCONNECT", ~AtEnd(pos)
  PROVE  TypedIn(f, script, text, Passed(pos, Len(Keyword[c])), "argument", c, LineOf(pos), log)
<1> DEFINE N == Len(script)
<1>1. /\ Layout(script, f, text) /\ pos \in Places(f, script) /\ \E S : log \in Seq(S)
      /\ \A i \in DOMAIN log : Meant(script, log[i]) /\ f[log[i][1]] <= pos
      /\ InOrder(f, script, pos, pc, line, log)
  BY DEF TypedIn
<1>2. PICK n : n = LineOf(pos)
  OBVIOUS
<1>3. On(f, script, pos, pc, cmd, n) /\ pos \in 1..Len(text)
  BY <1>1, <1>2, PlaceOnLine
<1>4. n \in 1..N /\ pos \in f[n]..(f[n + 1] - 1) /\ (script[n].class # "other" => pos = f[n])
  BY <1>3 DEF On
<1>5. c \in DOMAIN Keyword /\ Matches(pos, Keyword[c])
  BY DEF CommandAt
<1>6. PICK k : k = Len(Keyword[c])
  OBVIOUS
<1>7. k \in 6..12
  BY <1>5, <1>6, KeywordTyped
<1>8. pos + k <= f[n + 1] - 1
  BY <1>1, <1>4, <1>5, <1>6, MatchInLine
<1>9. /\ text \in Seq(Character) /\ Len(text) \in Nat /\ End = Len(text) + 1
      /\ f[n] \in 1..Len(text) /\ f[n + 1] \in 1..End /\ N \in Nat /\ n \in 1..(N + 1)
  <2>1. N \in Nat
    BY <1>1 DEF Layout
  <2> QED
    BY <1>1, <1>4, <2>1, LinePlace
<1>10. PICK q : q = pos + k
  OBVIOUS
<1>11. q \in f[n]..(f[n + 1] - 1) /\ pos \in Nat /\ q \in Nat /\ pos <= q /\ Passed(pos, k) = q
  <2>1. PICK a, b : a = f[n] /\ b = f[n + 1]
    OBVIOUS
  <2>2. /\ a \in Nat /\ b \in Nat /\ b <= End /\ End \in Nat /\ pos \in a..(b - 1) /\ pos \in 1..End /\ k \in Nat
        /\ pos + k <= b - 1
    BY <1>3, <1>4, <1>7, <1>8, <1>9, <2>1
  <2>3. q \in a..(b - 1) /\ pos \in Nat /\ q \in Nat /\ pos <= q /\ pos + k <= End
    BY <1>10, <2>2
  <2>4. Passed(pos, k) = q
    BY <1>9, <1>10, <2>2, <2>3, PassedEnds
  <2> QED
    BY <2>1, <2>3, <2>4
<1>12. On(f, script, q, "argument", c, n)
  <2>1. ASSUME script[n].class # "other"
        PROVE  IsPrefix(Keyword[c], script[n].chars) /\ q = f[n] + Len(Keyword[c])
    <3>1. pos = f[n]
      BY <1>4, <2>1
    <3>2. c \in CommandsOf(script[n].chars)
      BY <1>1, <1>4, <3>1, CommandsOfLine
    <3> QED
      BY <1>6, <1>10, <3>1, <3>2 DEF CommandsOf
  <2> QED
    BY <1>4, <1>5, <1>11, <2>1 DEF On
<1>13. c \in {"SUBSCRIBE", "UNSUBSCRIBE", "DELAY"}
  BY <1>5, Keywords
<1>14. \A i \in DOMAIN log : Meant(script, log[i]) /\ f[log[i][1]] <= q
  <2> SUFFICES ASSUME NEW i \in DOMAIN log
               PROVE  Meant(script, log[i]) /\ f[log[i][1]] <= q
    OBVIOUS
  <2>1. Meant(script, log[i]) /\ f[log[i][1]] <= pos
    BY <1>1
  <2>2. PICK j : j = log[i][1]
    OBVIOUS
  <2>3. j \in 1..N
    BY <2>1, <2>2 DEF Meant
  <2>4. j \in 1..(N + 1)
    BY <1>9, <2>3
  <2>5. f[j] \in Nat
    BY <1>1, <2>4, LineOrder
  <2>6. f[j] <= q
    BY <1>11, <2>1, <2>2, <2>5
  <2> QED
    BY <2>1, <2>2, <2>6
<1>15. InOrder(f, script, q, "argument", n, log)
  <2>1. ASSUME NEW m \in 0..N, m = 0 \/ (m \in BegunIn(log) /\ script[m].class # "other")
        PROVE  Followed(f, script, q, "argument", n, log, m)
    <3>1. Followed(f, script, pos, pc, line, log, m)
      BY <1>1, <2>1 DEF InOrder
    <3>2. m \in Nat /\ m <= N /\ m + 1 \in 1..(N + 1)
      BY <1>9
    <3>3. CASE m # 0 /\ script[m].class = "greedy"
      <4>1. m + 1 \notin BegunIn(log) /\ (m < N => f[m + 2] <= pos)
        BY <3>1, <3>3 DEF Followed
      <4>2. ASSUME m < N
            PROVE  f[m + 2] <= q
        <5>1. PICK j : j = m + 2
          OBVIOUS
        <5>2. j \in 1..(N + 1)
          BY <1>9, <3>2, <4>2, <5>1
        <5>3. f[j] \in Nat
          BY <1>1, <5>2, LineOrder
        <5>4. f[j] <= pos
          BY <4>1, <4>2, <5>1
        <5>5. f[j] <= q
          BY <1>11, <5>3, <5>4
        <5> QED
          BY <5>1, <5>5
      <4> QED
        BY <3>3, <4>1, <4>2 DEF Followed
    <3>4. CASE ~(m # 0 /\ script[m].class = "greedy")
      <4>1. m + 1 \in BegunIn(log) \/ pos = f[m + 1]
        BY <3>1, <3>4 DEF Followed
      <4>2. ASSUME pos = f[m + 1]
            PROVE  n = m + 1
        BY <1>1, <1>4, <3>2, <4>2, OnlyLineAt
      <4> QED
        BY <3>4, <4>1, <4>2 DEF Followed
    <3> QED
      BY <3>3, <3>4
  <2> QED
    BY <2>1 DEF InOrder
<1>16. TypedIn(f, script, text, q, "argument", c, n, log)
  BY <1>1, <1>12, <1>13, <1>14, <1>15 DEF TypedIn
<1> QED
  BY <1>2, <1>6, <1>11, <1>16

-----------------------------------------------------------------------------
(* Lines that begin with no command.                                       *)
(* How get_next's reads end on a line without a command.                   *)
LEMMA ReadsOfLine ==
  ASSUME NEW f, Layout(script, f, text), terminal, NEW n \in 1..Len(script),
         NEW l, l = Len(script[n].chars), l # 0, pos = f[n], text[pos] = script[n].chars[1]
  PROVE  /\ text[pos] = "S" => /\ l >= 10 => cleanup(NoCommandEnd(pos)) = f[n + 1]
                               /\ l < 10 => cleanup(NoCommandEnd(pos)) = cleanup(f[n + 1])
         /\ text[pos] = "U" => /\ l >= 12 => cleanup(NoCommandEnd(pos)) = f[n + 1]
                               /\ l < 12 => cleanup(NoCommandEnd(pos)) = cleanup(f[n + 1])
         /\ text[pos] = "D" => /\ l >= 10 => cleanup(NoCommandEnd(pos)) = f[n + 1]
                               /\ l \in 6..9 => cleanup(NoCommandEnd(pos)) = cleanup(f[n + 1])
         /\ text[pos] \notin {"S", "U", "D"} => cleanup(NoCommandEnd(pos)) = f[n + 1]
<1>1. f[n + 1] = f[n] + l + 1 /\ l \in Nat /\ f[n] \in Nat
  BY LayoutFacts
<1>2. PICK a, b : a = f[n] /\ b = f[n + 1]
  OBVIOUS
<1>3. a \in Nat /\ l \in Nat /\ b = a + l + 1 /\ pos = a
  BY <1>1, <1>2
<1>4. PICK p : p = a + 1
  OBVIOUS
<1>5. p \in a..(b - 1)
  BY <1>3, <1>4
<1>6. ASSUME NEW q \in a..(b - 1)
      PROVE  cleanup(q) = b
  <2>1. q \in f[n]..(f[n + 1] - 1)
    BY <1>2
  <2> QED
    BY <1>2, <2>1, NewlineOfLine
<1>7. ASSUME NEW q \in a..(b - 1), NEW m \in Nat
      PROVE  (q + m <= b => ReadEnd(q, m) = q + m) /\ (q + m > b => ReadEnd(q, m) = b)
  <2>1. q \in f[n]..(f[n + 1] - 1)
    BY <1>2
  <2> QED
    BY <1>2, <2>1, ReadInLine
<1>8. CASE text[pos] = "S"
  <2>1. NoCommandEnd(pos) = ReadEnd(p, 9)
    BY <1>3, <1>4, <1>8 DEF NoCommandEnd
  <2>2. (p + 9 <= b => ReadEnd(p, 9) = p + 9) /\ (p + 9 > b => ReadEnd(p, 9) = b)
    BY <1>5, <1>7
  <2>3. l >= 10 => p + 9 <= b /\ p + 9 \in a..(b - 1)
    BY <1>3, <1>4
  <2>4. l < 10 => p + 9 > b \/ p + 9 = b
    BY <1>3, <1>4
  <2>5. l >= 10 => cleanup(NoCommandEnd(pos)) = b
    BY <1>6, <2>1, <2>2, <2>3
  <2>6. b <= b
    BY <1>3
  <2>7. l < 10 => NoCommandEnd(pos) = b
    BY <2>1, <2>2, <2>4, <2>6
  <2> QED
    BY <1>2, <1>8, <2>5, <2>7
<1>9. CASE text[pos] = "U"
  <2>1. NoCommandEnd(pos) = ReadEnd(p, 11)
    BY <1>3, <1>4, <1>9 DEF NoCommandEnd
  <2>2. (p + 11 <= b => ReadEnd(p, 11) = p + 11) /\ (p + 11 > b => ReadEnd(p, 11) = b)
    BY <1>5, <1>7
  <2>3. l >= 12 => p + 11 <= b /\ p + 11 \in a..(b - 1)
    BY <1>3, <1>4
  <2>4. l < 12 => p + 11 > b \/ p + 11 = b
    BY <1>3, <1>4
  <2>5. l >= 12 => cleanup(NoCommandEnd(pos)) = b
    BY <1>6, <2>1, <2>2, <2>3
  <2>6. b <= b
    BY <1>3
  <2>7. l < 12 => NoCommandEnd(pos) = b
    BY <2>1, <2>2, <2>4, <2>6
  <2> QED
    BY <1>2, <1>9, <2>5, <2>7
<1>10. CASE text[pos] = "D"
  <2>1. NoCommandEnd(pos) = ReadEnd(ReadEnd(p, 5), 4)
    BY <1>3, <1>4, <1>10 DEF NoCommandEnd
  <2>2. (p + 5 <= b => ReadEnd(p, 5) = p + 5)
    BY <1>5, <1>7
  <2>3. PICK r : r = p + 5
    OBVIOUS
  <2>4. l >= 6 => p + 5 <= b /\ r \in a..(b - 1)
    BY <1>3, <1>4, <2>3
  <2>5. l >= 6 => NoCommandEnd(pos) = ReadEnd(r, 4)
    BY <2>1, <2>2, <2>3, <2>4
  <2>6. l >= 6 => (r + 4 <= b => ReadEnd(r, 4) = r + 4) /\ (r + 4 > b => ReadEnd(r, 4) = b)
    BY <1>7, <2>4
  <2>7. ASSUME l >= 10
        PROVE  cleanup(NoCommandEnd(pos)) = b
    <3>1. l >= 6 /\ r + 4 <= b /\ r + 4 \in a..(b - 1)
      BY <1>3, <1>4, <2>3, <2>7
    <3>2. NoCommandEnd(pos) = r + 4
      BY <2>5, <2>6, <3>1
    <3> QED
      BY <1>6, <3>1, <3>2
  <2>8. ASSUME l \in 6..9
        PROVE  NoCommandEnd(pos) = b
    <3>a. l >= 6 /\ l <= 9
      <4>1. \A m \in 6..9 : m >= 6 /\ m <= 9
        OBVIOUS
      <4> QED
        BY <2>8, <4>1, Zenon
    <3>b. r = a + 6 /\ b = a + l + 1
      BY <1>3, <1>4, <2>3
    <3>1. l >= 6 /\ (r + 4 > b \/ r + 4 = b) /\ b <= b
      BY <1>3, <3>a, <3>b
    <3> QED
      BY <2>5, <2>6, <3>1
  <2> QED
    BY <1>2, <1>10, <2>7, <2>8
<1>11. CASE text[pos] \notin {"S", "U", "D"}
  <2>1. NoCommandEnd(pos) = p
    BY <1>3, <1>4, <1>11 DEF NoCommandEnd
  <2>2. cleanup(p) = b
    BY <1>5, <1>6
  <2> QED
    BY <1>2, <1>11, <2>1, <2>2
<1> QED
  BY <1>8, <1>9, <1>10, <1>11

(* A line that begins with no command: what is done, and where it ends.    *)
LEMMA LineWithoutCommand ==
  ASSUME script \in Scripts, NEW f, Layout(script, f, text), terminal, pc = "next", CommandAt(pos) = {},
         NEW n, On(f, script, pos, pc, cmd, n),
         NEW q, q = IF text[pos] = Newline THEN pos + 1 ELSE cleanup(NoCommandEnd(pos)),
         NEW w, w = Command(IF text[pos] \in {"#", Newline} THEN "skipped" ELSE "rejected", << >>)
  PROVE  Meant(script, <<n, w>>) /\ Stops(f, script, n, q) /\ q >= pos /\ q \in Nat
<1> DEFINE s == script[n].chars
           N == Len(script)
<1>1. /\ n \in 1..N /\ pos \in f[n]..(f[n + 1] - 1)
      /\ script[n].class # "other" => pos = f[n]
  BY DEF On
<1>2. /\ s \in Seq(STRING) /\ s \in Seq(Character) /\ Len(s) \in Nat
      /\ \A i \in 1..Len(s) : s[i] # Newline
      /\ IsOfClass(script[n]) /\ script[n].means.args \in Seq(Seq(STRING))
  BY <1>1, LinesKnown
<1>3. /\ f[n] \in Nat /\ f[n + 1] = f[n] + Len(s) + 1 /\ text[f[n + 1] - 1] = Newline
  BY <1>1, LayoutFacts
<1>4. \A i \in 1..Len(s) : text[f[n] + i - 1] = s[i]
  BY <1>1, LaidChars DEF TextAt
<1>5. text \in Seq(Character) /\ Len(text) \in Nat /\ End = Len(text) + 1 /\ n + 1 \in 1..(N + 1)
  BY <1>1, LinePlace
<1>6. pos \in 1..Len(text)
  BY <1>1, NewlineOfLine
<1>7. q \in Nat /\ q >= pos /\ \E j \in 1..(N + 1) : q = f[j]
  <2>1. CASE text[pos] = Newline
    <3>1. \A i \in 1..Len(s) : text[f[n] + i - 1] # Newline
      BY <1>2, <1>4
    <3>2. PICK a, b, l : a = f[n] /\ b = f[n + 1] /\ l = Len(s)
      OBVIOUS
    <3>3. a \in Nat /\ l \in Nat /\ b = a + l + 1 /\ pos \in a..(b - 1) /\ \A i \in 1..l : text[a + i - 1] # Newline
      BY <1>1, <1>2, <1>3, <3>1, <3>2
    <3>4. pos = b - 1
      <4>1. SUFFICES ASSUME pos # b - 1
                     PROVE  FALSE
        OBVIOUS
      <4>2. PICK i : i = pos - a + 1
        OBVIOUS
      <4>3. i \in 1..l /\ a + i - 1 = pos
        BY <3>3, <4>1, <4>2
      <4> QED
        BY <2>1, <3>3, <4>3
    <3>5. q = pos + 1
      BY <2>1
    <3>6. q = b /\ q \in Nat /\ q >= pos
      BY <3>3, <3>4, <3>5
    <3> QED
      BY <1>5, <3>2, <3>6
  <2>2. CASE text[pos] # Newline
    <3>1. PICK e : e = NoCommandEnd(pos)
      OBVIOUS
    <3>2. e \in pos..End /\ e \in 1..End
      BY <1>5, <1>6, <3>1, NoCommandEnds
    <3>3. q = cleanup(e)
      BY <2>2, <3>1
    <3>4. (\E j \in 1..(N + 1) : cleanup(e) = f[j]) /\ cleanup(e) \in e..End
      BY <3>2, CleanupPlace
    <3>5. q \in Nat /\ q >= pos
      BY <1>5, <1>6, <3>2, <3>3, <3>4
    <3> QED
      BY <3>3, <3>4, <3>5
  <2> QED
    BY <2>1, <2>2
<1>8. CASE script[n].class = "other"
  <2>1. Meant(script, <<n, w>>)
    BY <1>1, <1>8 DEF Meant
  <2>2. q \in Places(f, script)
    BY <1>7 DEF Places
  <2>3. Stops(f, script, n, q)
    BY <1>8, <2>2 DEF Stops
  <2> QED
    BY <1>7, <2>1, <2>3
<1>9. CASE script[n].class # "other"
  <2>1. pos = f[n] /\ CommandsOf(s) = {}
    <3>1. pos = f[n]
      BY <1>1, <1>9
    <3>2. CommandAt(f[n]) = CommandsOf(s)
      BY <1>1, CommandsOfLine
    <3> QED
      BY <3>1, <3>2
  <2>2. s = << >> => text[pos] = Newline /\ q = f[n + 1]
    <3>1. ASSUME s = << >>
          PROVE  text[pos] = Newline /\ q = f[n + 1]
      <4>1. Len(s) = 0
        BY <3>1
      <4>2. PICK a, b : a = f[n] /\ b = f[n + 1]
        OBVIOUS
      <4>3. a \in Nat /\ b = a + 0 + 1 /\ pos = a
        BY <1>3, <2>1, <4>1, <4>2
      <4>4. b - 1 = pos /\ pos + 1 = b
        BY <4>3
      <4> QED
        BY <1>3, <4>2, <4>4
    <3> QED
      BY <3>1
  <2>3. s # << >> => Len(s) # 0 /\ text[pos] = s[1] /\ text[pos] # Newline
    <3>1. ASSUME s # << >>
          PROVE  Len(s) # 0 /\ text[pos] = s[1] /\ text[pos] # Newline
      <4>1. Len(s) # 0
        <5> HIDE DEF s
        <5> QED
          BY <1>2, <3>1, EmptySeq
      <4>2. 1 \in 1..Len(s)
        BY <1>2, <4>1
      <4>3. text[f[n] + 1 - 1] = s[1] /\ s[1] # Newline
        BY <1>2, <1>4, <4>2
      <4>4. f[n] + 1 - 1 = pos
        BY <1>3, <2>1
      <4> QED
        BY <4>1, <4>3, <4>4
    <3> QED
      BY <3>1
  <2>4. s # << >> => q = cleanup(NoCommandEnd(pos))
    BY <2>3
  <2>5. PICK l : l = Len(s)
    OBVIOUS
  <2>6. l \in Nat
    BY <1>2, <2>5
  <2>7. s # << >> =>
          /\ s[1] = "S" => (l >= 10 => q = f[n + 1]) /\ (l < 10 => q = cleanup(f[n + 1]))
          /\ s[1] = "U" => (l >= 12 => q = f[n + 1]) /\ (l < 12 => q = cleanup(f[n + 1]))
          /\ s[1] = "D" => (l >= 10 => q = f[n + 1]) /\ (l \in 6..9 => q = cleanup(f[n + 1]))
          /\ s[1] \notin {"S", "U", "D"} => q = f[n + 1]
    <3>1. ASSUME s # << >>
          PROVE  /\ s[1] = "S" => (l >= 10 => q = f[n + 1]) /\ (l < 10 => q = cleanup(f[n + 1]))
                 /\ s[1] = "U" => (l >= 12 => q = f[n + 1]) /\ (l < 12 => q = cleanup(f[n + 1]))
                 /\ s[1] = "D" => (l >= 10 => q = f[n + 1]) /\ (l \in 6..9 => q = cleanup(f[n + 1]))
                 /\ s[1] \notin {"S", "U", "D"} => q = f[n + 1]
      <4>1. l = Len(script[n].chars) /\ l # 0 /\ pos = f[n] /\ text[pos] = script[n].chars[1]
        BY <2>1, <2>3, <2>5, <3>1
      <4>2. text[pos] = s[1] /\ q = cleanup(NoCommandEnd(pos))
        BY <2>3, <2>4, <3>1
      <4> QED
        BY <1>1, <4>1, <4>2, ReadsOfLine
    <3> QED
      BY <3>1
  <2>8. CASE script[n].class = "good"
    <3>1. Good(s, script[n].means)
      BY <1>2, <2>8 DEF IsOfClass
    <3>2. (s = << >> \/ s[1] = "#") /\ script[n].means = Skipped
      <4> HIDE DEF s
      <4> QED
        BY <1>2, <2>1, <3>1, GoodIs
    <3>3. q = f[n + 1]
      BY <2>2, <2>7, <3>2
    <3>4. w = Skipped
      BY <2>2, <2>3, <3>2 DEF Skipped
    <3>5. Meant(script, <<n, w>>)
      BY <1>1, <3>2, <3>4 DEF Meant, Same
    <3> QED
      BY <1>7, <2>8, <3>3, <3>5 DEF Stops
  <2>9. CASE script[n].class = "bad"
    <3>1. Bad(s) /\ script[n].means = Rejected
      BY <1>2, <2>9 DEF IsOfClass
    <3>2. s # << >> /\ s[1] # "#" /\ l >= CASE s[1] \in {"S", "D"} -> 10 [] s[1] = "U" -> 12 [] OTHER -> 1
      BY <2>1, <2>5, <3>1 DEF Bad
    <3>3. q = f[n + 1]
      <4>1. CASE s[1] = "S"
        BY <2>7, <3>2, <4>1
      <4>2. CASE s[1] = "U"
        BY <2>7, <3>2, <4>2
      <4>3. CASE s[1] = "D"
        BY <2>7, <3>2, <4>3
      <4>4. CASE s[1] \notin {"S", "U", "D"}
        BY <2>7, <3>2, <4>4
      <4> QED
        BY <4>1, <4>2, <4>3, <4>4
    <3>4. w = Rejected
      BY <2>3, <3>2 DEF Rejected
    <3>5. Meant(script, <<n, w>>)
      BY <1>1, <3>1, <3>4 DEF Meant, Same
    <3> QED
      BY <1>7, <2>9, <3>3, <3>5 DEF Stops
  <2>10. CASE script[n].class = "greedy"
    <3>1. Greedy(s) /\ script[n].means = Rejected
      BY <1>2, <2>10 DEF IsOfClass
    <3>2. /\ s # << >>
          /\ (s[1] = "S" /\ l < 10) \/ (s[1] = "U" /\ l < 12) \/ (s[1] = "D" /\ l \in 6..9)
      BY <2>1, <2>5, <3>1 DEF Greedy
    <3>3. q = cleanup(f[n + 1])
      BY <2>7, <3>2
    <3>4. q = f[IF n < N THEN n + 2 ELSE n + 1]
      BY <1>1, <3>3, CleanupNext
    <3>5. w = Rejected
      BY <2>3, <3>2 DEF Rejected
    <3>6. Meant(script, <<n, w>>)
      BY <1>1, <3>1, <3>5 DEF Meant, Same
    <3> QED
      BY <1>7, <2>10, <3>4, <3>6 DEF Stops
  <2>11. CASE script[n].class = "stale"
    BY <1>2, <2>1, <2>11 DEF IsOfClass, Stale
  <2> QED
    BY <1>2, <1>9, <2>8, <2>9, <2>10, <2>11 DEF IsOfClass
<1> QED
  BY <1>8, <1>9

-----------------------------------------------------------------------------
(* Lines with a key.                                                       *)
(* The rest of a line, character by character.                             *)
LEMMA RestIs ==
  ASSUME NEW s \in Seq(Character), NEW c \in DOMAIN Keyword, Len(Keyword[c]) <= Len(s)
  PROVE  /\ Rest(c, s) \in Seq(Character) /\ Len(Rest(c, s)) = Len(s) - Len(Keyword[c])
         /\ Len(Rest(c, s)) \in Nat
         /\ \A i \in 1..Len(Rest(c, s)) : Rest(c, s)[i] = s[Len(Keyword[c]) + i]
<1>1. PICK a, n : a = Len(Keyword[c]) /\ n = Len(s)
  OBVIOUS
<1>2. a \in 6..12
  BY <1>1, KeywordTyped
<1>3. n \in Nat /\ a \in Nat /\ a <= n
  BY <1>1, <1>2, LenProperties
<1>4. \A i \in (a + 1)..n : s[i] \in Character
  <2>1. \A i \in (a + 1)..n : i \in 1..n
    BY <1>3
  <2> QED
    BY <1>1, <2>1, ElementOfSeq
<1>5. PICK r : r = SubSeq(s, a + 1, n)
  OBVIOUS
<1>6. PICK b : b = a + 1
  OBVIOUS
<1>7. b \in Int /\ n \in Int /\ n - b + 1 = n - a /\ (b <= n \/ n - a = 0)
  BY <1>3, <1>6
<1>8. /\ r \in Seq(Character) /\ Len(r) = (IF b <= n THEN n - b + 1 ELSE 0)
      /\ \A i \in 1..(n - b + 1) : r[i] = s[b + i - 1]
  <2>1. \A i \in b..n : s[i] \in Character
    BY <1>4, <1>6
  <2> QED
    BY <1>5, <1>6, <1>7, <2>1, SubSeqProperties
<1>9. Len(r) = n - a /\ n - a \in Nat
  <2>1. b <= n \/ n - a = 0
    BY <1>7
  <2>2. n - a = 0 => ~(b <= n)
    BY <1>3, <1>6
  <2> QED
    BY <1>3, <1>7, <1>8, <2>1, <2>2
<1>10. \A i \in 1..(n - a) : r[i] = s[a + i]
  <2>1. \A i \in 1..(n - a) : b + i - 1 = a + i
    BY <1>3, <1>6
  <2> QED
    BY <1>7, <1>8, <2>1
<1>11. r = Rest(c, s)
  BY <1>1, <1>5 DEF Rest
<1> QED
  BY <1>1, <1>8, <1>9, <1>10, <1>11

(* What follows a command is its rest.                                     *)
LEMMA RestOfConcatenation ==
  ASSUME NEW c \in DOMAIN Keyword, NEW S, NEW r \in Seq(S), NEW s \in Seq(Character), s = Keyword[c] \o r
  PROVE  Rest(c, s) = r /\ Len(Keyword[c]) <= Len(s)
<1>1. PICK w, a : w = Keyword[c] /\ a = Len(w)
  OBVIOUS
<1>2. w \in Seq(Letters) /\ a \in 6..12
  BY <1>1, KeywordTyped
<1>3. w \in Seq(Letters \cup S) /\ r \in Seq(Letters \cup S)
  BY <1>2, WiderSeq
<1>4. PICK l : l = Len(r)
  OBVIOUS
<1>5. /\ Len(s) = a + l /\ a \in Nat /\ l \in Nat
      /\ \A i \in 1..(a + l) : s[i] = IF i <= a THEN w[i] ELSE r[i - a]
  BY <1>1, <1>3, <1>4, ConcatProperties, LenProperties
<1>6. a <= Len(s)
  BY <1>5
<1>7. PICK x : x = Rest(c, s)
  OBVIOUS
<1>8. x \in Seq(Character) /\ Len(x) = l /\ \A i \in 1..l : x[i] = s[a + i]
  <2>1. x \in Seq(Character) /\ Len(x) = Len(s) - a /\ \A i \in 1..Len(x) : x[i] = s[a + i]
    BY <1>1, <1>6, <1>7, RestIs
  <2>2. Len(s) - a = l
    BY <1>5
  <2> QED
    BY <2>1, <2>2
<1>9. \A i \in 1..l : x[i] = r[i]
  <2>1. ASSUME NEW i \in 1..l
        PROVE  x[i] = r[i]
    <3>1. PICK j : j = a + i
      OBVIOUS
    <3>2. j \in 1..(a + l) /\ ~(j <= a) /\ j - a = i
      BY <1>5, <3>1
    <3>3. s[j] = r[i]
      BY <1>5, <3>2
    <3> QED
      BY <1>8, <3>1, <3>3
  <2> QED
    BY <2>1
<1>10. x \in Seq(Character \cup S) /\ r \in Seq(Character \cup S)
  BY <1>8, WiderSeq
<1>11. x = r
  BY <1>4, <1>8, <1>9, <1>10, SeqEqual
<1> QED
  BY <1>1, <1>6, <1>7, <1>11

(* Main at the argument of a command.                                      *)
LEMMA AtArgument ==
  ASSUME script \in Scripts, NEW f, Layout(script, f, text), NEW n, On(f, script, pos, pc, cmd, n),
         pc = "argument", cmd \in {"SUBSCRIBE", "UNSUBSCRIBE", "DELAY"}
  PROVE  /\ n \in 1..Len(script) /\ pos \in f[n]..(f[n + 1] - 1) /\ pos \in Nat /\ f[n + 1] \in Nat
         /\ n + 1 \in 1..(Len(script) + 1)
         /\ script[n].class # "other" =>
              /\ cmd \in DOMAIN Keyword /\ cmd \in CommandsOf(script[n].chars)
              /\ Len(Keyword[cmd]) <= Len(script[n].chars)
              /\ pos = f[n] + Len(Keyword[cmd])
<1>1. /\ n \in 1..Len(script) /\ pos \in f[n]..(f[n + 1] - 1)
      /\ script[n].class # "other" =>
           /\ cmd \in DOMAIN Keyword /\ IsPrefix(Keyword[cmd], script[n].chars)
           /\ pos = f[n] + Len(Keyword[cmd])
  BY DEF On
<1>2. f[n] \in Nat /\ f[n + 1] \in Nat
  BY <1>1, NewlineOfLine
<1>3. pos \in Nat
  <2>1. PICK a, b : a = f[n] /\ b = f[n + 1]
    OBVIOUS
  <2>2. a \in Nat /\ b \in Nat /\ pos \in a..(b - 1)
    BY <1>1, <1>2, <2>1
  <2> QED
    BY <2>2
<1>4. n + 1 \in 1..(Len(script) + 1)
  BY <1>1, LinePlace
<1>5. cmd # "DISCONNECT"
  OBVIOUS
<1>6. script[n].class # "other" => cmd \in CommandsOf(script[n].chars) /\ Len(Keyword[cmd]) <= Len(script[n].chars)
  BY <1>1, <1>5 DEF CommandsOf, IsPrefix
<1> QED
  BY <1>1, <1>2, <1>3, <1>4, <1>6

(* Where a character stands first.                                         *)
LEMMA FirstIs ==
  ASSUME NEW S, NEW u \in Seq(S), NEW c
  PROVE  /\ Len(u) \in Nat /\ First(u, c) \in 0..Len(u)
         /\ First(u, c) # 0 => u[First(u, c)] = c /\ First(u, c) \in 1..Len(u)
         /\ \A i \in 1..Len(u) : u[i] = c => First(u, c) # 0 /\ First(u, c) <= i
<1> DEFINE I == {i \in 1..Len(u) : u[i] = c}
<1>1. Len(u) \in Nat /\ I \in SUBSET Nat /\ 0 \notin I
  BY LenProperties
<1>2. First(u, c) = IF I = {} THEN 0 ELSE Min(I)
  BY DEF First, SelectInSeq
<1>3. I # {} => Min(I) \in I /\ \A i \in I : Min(I) <= i
  BY <1>1, MinimumExists
<1>4. PICK g : g = First(u, c)
  OBVIOUS
<1>5. CASE I = {}
  <2>1. g = 0
    BY <1>2, <1>4, <1>5
  <2> QED
    BY <1>1, <1>4, <1>5, <2>1
<1>6. CASE I # {}
  <2>1. g \in I /\ \A i \in I : g <= i
    BY <1>2, <1>3, <1>4, <1>6
  <2>2. g # 0 /\ g \in 1..Len(u) /\ u[g] = c
    BY <1>1, <2>1
  <2>3. \A i \in 1..Len(u) : u[i] = c => g <= i
    BY <2>1
  <2> QED
    BY <1>1, <1>4, <2>2, <2>3
<1> QED
  BY <1>5, <1>6

(* One more character at the end changes nothing.                          *)
LEMMA FirstLast ==
  ASSUME NEW S, NEW u \in Seq(S), NEW v \in Seq(S), Len(v) = Len(u) + 1,
         \A i \in 1..Len(u) : v[i] = u[i], NEW c, v[Len(v)] # c
  PROVE  First(v, c) = First(u, c)
<1>1. PICK a, b, m, n : a = First(u, c) /\ b = First(v, c) /\ m = Len(u) /\ n = Len(v)
  OBVIOUS
<1>2. /\ m \in Nat /\ a \in 0..m /\ (a # 0 => u[a] = c /\ a \in 1..m)
      /\ \A i \in 1..m : u[i] = c => a # 0 /\ a <= i
  BY <1>1, FirstIs
<1>3. /\ n \in Nat /\ b \in 0..n /\ (b # 0 => v[b] = c /\ b \in 1..n)
      /\ \A i \in 1..n : v[i] = c => b # 0 /\ b <= i
  BY <1>1, FirstIs
<1>4. n = m + 1 /\ (\A i \in 1..m : v[i] = u[i]) /\ v[n] # c
  BY <1>1
<1>5. a # 0 => b # 0 /\ b <= a
  <2>1. a # 0 => a \in 1..n /\ v[a] = c
    BY <1>2, <1>4
  <2> QED
    BY <1>3, <2>1
<1>6. b # 0 => a # 0 /\ a <= b
  <2>1. b # 0 => b # n
    BY <1>3, <1>4
  <2>2. b # 0 => b \in 1..m
    BY <1>2, <1>3, <1>4, <2>1
  <2>3. b # 0 => u[b] = c
    BY <1>3, <1>4, <2>2
  <2> QED
    BY <1>2, <2>2, <2>3
<1>7. a \in Nat /\ b \in Nat
  BY <1>2, <1>3
<1>8. a = b
  BY <1>5, <1>6, <1>7
<1> QED
  BY <1>1, <1>8

(* What parse_key reads of a line that fits: its rest, with the newline.   *)
LEMMA ChunkIs ==
  ASSUME script \in Scripts, NEW f, Layout(script, f, text), terminal,
         NEW n \in 1..Len(script), NEW c \in DOMAIN Keyword,
         NEW s, s = script[n].chars, Len(Keyword[c]) <= Len(s), pos = f[n] + Len(Keyword[c]),
         FitsRead(Rest(c, s))
  PROVE  /\ ReadEnd(pos, MAX_STRING_SIZE - 1) = f[n + 1]
         /\ KeyChunk(pos) \in Seq(Character) /\ Len(KeyChunk(pos)) = Len(Rest(c, s)) + 1
         /\ \A i \in 1..Len(Rest(c, s)) : KeyChunk(pos)[i] = Rest(c, s)[i]
         /\ KeyChunk(pos)[Len(Rest(c, s)) + 1] = Newline
<1>1. s \in Seq(Character) /\ Len(s) \in Nat
  BY LinesKnown
<1>2. PICK r, k : r = Rest(c, s) /\ k = Len(Keyword[c])
  OBVIOUS
<1>3. /\ r \in Seq(Character) /\ Len(r) = Len(s) - k /\ Len(r) \in Nat
      /\ \A i \in 1..Len(r) : r[i] = s[k + i]
  BY <1>1, <1>2, RestIs
<1>4. k \in 6..12
  BY <1>2, KeywordTyped
<1>5. f[n + 1] = f[n] + Len(s) + 1 /\ f[n] \in Nat /\ text[f[n + 1] - 1] = Newline
  BY LayoutFacts
<1>6. \A i \in 1..Len(s) : text[f[n] + i - 1] = s[i]
  <2>1. TextAt(s, f[n])
    BY LaidChars
  <2> QED
    BY <2>1 DEF TextAt
<1>7. text \in Seq(Character) /\ Len(text) \in Nat /\ End = Len(text) + 1 /\ f[n + 1] \in 1..End /\ f[n] \in 1..Len(text)
  BY LinePlace
<1>8. PICK a, b, l, m : a = f[n] /\ b = f[n + 1] /\ l = Len(s) /\ m = Len(r)
  OBVIOUS
<1>9. /\ a \in Nat /\ l \in Nat /\ m \in Nat /\ k \in Nat /\ m = l - k /\ b = a + l + 1 /\ pos = a + k
      /\ text[b - 1] = Newline /\ a \in 1..Len(text) /\ b \in 1..End
  BY <1>1, <1>2, <1>3, <1>4, <1>5, <1>7, <1>8
<1>10. MAX_STRING_SIZE - 1 \in Nat /\ m + 2 <= MAX_STRING_SIZE
  <2>1. MAX_STRING_SIZE \in Nat \ {0}
    BY ClientAssumption
  <2>2. m + 2 <= MAX_STRING_SIZE
    BY <1>2, <1>8 DEF FitsRead
  <2> QED
    BY <2>1, <2>2
<1>11. PICK z : z = MAX_STRING_SIZE - 1
  OBVIOUS
<1>12. ReadEnd(pos, z) = b
  <2>a. pos \in a..(b - 1)
    BY <1>9
  <2>1. pos \in f[n]..(f[n + 1] - 1) /\ z \in Nat
    BY <1>8, <1>10, <1>11, <2>a
  <2>2. (pos + z <= f[n + 1] => ReadEnd(pos, z) = pos + z) /\ (pos + z > f[n + 1] => ReadEnd(pos, z) = f[n + 1])
    BY <2>1, ReadInLine
  <2>3. pos + z >= b
    <3>1. MAX_STRING_SIZE \in Nat
      BY ClientAssumption
    <3> QED
      BY <1>9, <1>10, <1>11, <3>1
  <2>4. pos + z = b \/ pos + z > b
    <3>1. pos \in Nat /\ z \in Nat /\ b \in Nat
      BY <1>9, <2>1
    <3> QED
      BY <2>3, <3>1
  <2>5. b <= b
    BY <1>9
  <2> QED
    BY <1>8, <2>2, <2>4, <2>5
<1>13. PICK e, u : e = b - 1 /\ u = SubSeq(text, pos, e)
  OBVIOUS
<1>14. u = KeyChunk(pos)
  BY <1>11, <1>12, <1>13 DEF KeyChunk
<1>15. pos \in Int /\ e \in Int /\ pos <= e /\ e - pos + 1 = m + 1 /\ \A i \in pos..e : i \in 1..Len(text)
  <2>1. pos \in Nat /\ e = a + l /\ pos = a + k /\ k + m = l
    BY <1>9, <1>13
  <2>2. e \in Nat /\ pos <= e /\ e - pos + 1 = m + 1
    BY <1>9, <2>1
  <2>3. e <= Len(text) /\ 1 <= pos
    BY <1>7, <1>9, <1>13, <2>1
  <2>4. ASSUME NEW i \in pos..e
        PROVE  i \in 1..Len(text)
    BY <1>7, <2>1, <2>2, <2>3
  <2> QED
    BY <2>1, <2>2, <2>4
<1>16. /\ u \in Seq(Character) /\ Len(u) = m + 1
       /\ \A i \in 1..(m + 1) : u[i] = text[pos + i - 1]
  <2>1. \A i \in pos..e : text[i] \in Character
    BY <1>7, <1>15, ElementOfSeq
  <2>2. /\ u \in Seq(Character) /\ Len(u) = (IF pos <= e THEN e - pos + 1 ELSE 0)
        /\ \A i \in 1..(e - pos + 1) : u[i] = text[pos + i - 1]
    <3>1. PICK p : p = pos
      OBVIOUS
    <3>2. p \in Int /\ e \in Int /\ \A i \in p..e : text[i] \in Character
      BY <1>15, <2>1, <3>1
    <3>3. u = SubSeq(text, p, e)
      BY <1>13, <3>1
    <3>4. /\ u \in Seq(Character) /\ Len(u) = (IF p <= e THEN e - p + 1 ELSE 0)
          /\ \A i \in 1..(e - p + 1) : u[i] = text[p + i - 1]
      BY <3>2, <3>3, SubSeqProperties
    <3> QED
      BY <3>1, <3>4
  <2>3. Len(u) = m + 1
    BY <1>15, <2>2
  <2> QED
    BY <1>15, <2>2, <2>3
<1>17. u[m + 1] = Newline
  <2>1. m + 1 \in 1..(m + 1) /\ pos + (m + 1) - 1 = b - 1
    BY <1>9
  <2>2. PICK j : j = m + 1
    OBVIOUS
  <2>3. j \in 1..(m + 1) /\ pos + j - 1 = b - 1
    BY <2>1, <2>2
  <2>4. u[j] = text[pos + j - 1]
    BY <1>16, <2>3
  <2> QED
    BY <1>9, <2>2, <2>3, <2>4
<1>18. ASSUME NEW i \in 1..m
       PROVE  u[i] = r[i]
  <2>1. i \in 1..(m + 1) /\ k + i \in 1..l /\ pos + i - 1 = a + (k + i) - 1
    BY <1>9
  <2>2. PICK j : j = k + i
    OBVIOUS
  <2>3. text[a + j - 1] = s[j]
    BY <1>6, <1>8, <2>1, <2>2
  <2>4. u[i] = text[pos + i - 1]
    BY <1>16, <2>1
  <2>5. r[i] = s[k + i]
    BY <1>3, <1>8
  <2> QED
    BY <2>1, <2>2, <2>3, <2>4, <2>5
<1> QED
  BY <1>2, <1>8, <1>11, <1>12, <1>14, <1>16, <1>17, <1>18

(* The newline is no bracket.                                              *)
LEMMA ChunkHasKey ==
  ASSUME NEW r \in Seq(Character), NEW u \in Seq(Character), Len(u) = Len(r) + 1,
         \A i \in 1..Len(r) : u[i] = r[i], u[Len(r) + 1] = Newline
  PROVE  HasKey(u) <=> HasKey(r)
<1>1. u[Len(u)] # "[" /\ u[Len(u)] # "]"
  BY DEF Newline
<1>2. First(u, "[") = First(r, "[") /\ First(u, "]") = First(r, "]")
  BY <1>1, FirstLast
<1> QED
  BY <1>2 DEF HasKey

(* A key between brackets.                                                 *)
LEMMA BracketedKey ==
  ASSUME NEW k \in Seq(STRING), {"[", "]"} \cap ToSet(k) = {}, NEW r, r = <<"[">> \o k \o <<"]">>,
         NEW u \in Seq(Character), Len(u) = Len(r) + 1,
         \A i \in 1..Len(r) : u[i] = r[i]
  PROVE  HasKey(u) /\ KeyIn(u) = k
<1>1. PICK x, y : x = "[" /\ y = "]"
  OBVIOUS
<1>2. PICK T : T = STRING \cup {x, y}
  OBVIOUS
<1>3. k \in Seq(T) /\ <<x>> \in Seq(T) /\ <<y>> \in Seq(T) /\ Len(<<x>>) = 1 /\ Len(<<y>>) = 1 /\ <<x>>[1] = x /\ <<y>>[1] = y
  <2>1. k \in Seq(T)
    BY <1>2, WiderSeq
  <2>2. x \in T /\ y \in T
    BY <1>2
  <2> QED
    BY <2>1, <2>2
<1>4. PICK v : v = <<x>> \o k
  OBVIOUS
<1>5. PICK m : m = Len(k)
  OBVIOUS
<1>6. m \in Nat
  BY <1>5, LenProperties
<1>7. /\ v \in Seq(T) /\ Len(v) = 1 + m
      /\ \A i \in 1..(1 + m) : v[i] = IF i <= 1 THEN <<x>>[i] ELSE k[i - 1]
  BY <1>3, <1>4, <1>5, ConcatProperties
<1>8. /\ r \in Seq(T) /\ Len(r) = (1 + m) + 1
      /\ \A i \in 1..((1 + m) + 1) : r[i] = IF i <= 1 + m THEN v[i] ELSE <<y>>[i - (1 + m)]
  <2>1. r = v \o <<y>>
    BY <1>1, <1>4
  <2> QED
    BY <1>3, <1>7, <2>1, ConcatProperties
<1>9. Len(r) = m + 2 /\ Len(u) = m + 3
  BY <1>6, <1>8
<1>10. u[1] = x
  <2>1. 1 \in 1..(1 + m) /\ 1 \in 1..((1 + m) + 1) /\ 1 <= 1 + m /\ 1 <= 1 /\ 1 \in 1..Len(r)
    BY <1>6, <1>9
  <2>2. u[1] = r[1] /\ r[1] = v[1]
    BY <1>8, <2>1
  <2>3. v[1] = <<x>>[1]
    BY <1>7, <2>1
  <2> QED
    BY <1>3, <2>2, <2>3
<1>11. u[m + 2] = y
  <2>1. PICK j : j = m + 2
    OBVIOUS
  <2>2. j \in 1..((1 + m) + 1) /\ ~(j <= 1 + m) /\ j - (1 + m) = 1 /\ j \in 1..Len(r)
    BY <1>6, <1>9, <2>1
  <2>3. u[j] = r[j] /\ r[j] = <<y>>[1]
    BY <1>8, <2>2
  <2> QED
    BY <1>3, <2>1, <2>3
<1>12. ASSUME NEW i \in 1..m
       PROVE  u[i + 1] = k[i] /\ k[i] # x /\ k[i] # y
  <2>1. PICK j : j = i + 1
    OBVIOUS
  <2>2. j \in 1..((1 + m) + 1) /\ j <= 1 + m /\ j \in 1..(1 + m) /\ ~(j <= 1) /\ j - 1 = i /\ j \in 1..Len(r)
    BY <1>6, <1>9, <2>1
  <2>3. u[j] = r[j] /\ r[j] = v[j] /\ v[j] = k[i]
    BY <1>7, <1>8, <2>2
  <2>4. k[i] \in ToSet(k)
    BY <1>5, LenProperties DEF ToSet
  <2>5. k[i] # x /\ k[i] # y
    BY <1>1, <2>4
  <2> QED
    BY <2>1, <2>3, <2>5
<1>13. First(u, x) = 1
  <2>1. 1 \in 1..Len(u)
    BY <1>6, <1>9
  <2>2. /\ First(u, x) \in 0..Len(u)
        /\ \A i \in 1..Len(u) : u[i] = x => First(u, x) # 0 /\ First(u, x) <= i
    BY FirstIs
  <2>3. First(u, x) # 0 /\ First(u, x) <= 1
    BY <1>10, <2>1, <2>2
  <2> QED
    BY <1>6, <1>9, <2>2, <2>3
<1>14. First(u, y) = m + 2
  <2>1. PICK g : g = First(u, y)
    OBVIOUS
  <2>2. /\ g \in 0..Len(u) /\ (g # 0 => u[g] = y /\ g \in 1..Len(u))
        /\ \A i \in 1..Len(u) : u[i] = y => g # 0 /\ g <= i
    BY <2>1, FirstIs
  <2>3. m + 2 \in 1..Len(u)
    BY <1>6, <1>9
  <2>4. g # 0 /\ g <= m + 2 /\ u[g] = y /\ g \in 1..Len(u)
    BY <1>11, <2>2, <2>3
  <2>5. g \in Nat
    BY <1>6, <1>9, <2>4
  <2>6. g # 1
    BY <1>1, <1>10, <2>4
  <2>7. ~(g < m + 2)
    <3>1. SUFFICES ASSUME g < m + 2
                   PROVE  FALSE
      OBVIOUS
    <3>2. PICK i : i = g - 1
      OBVIOUS
    <3>3. i \in 1..m /\ i + 1 = g
      BY <1>6, <2>4, <2>5, <2>6, <3>1, <3>2
    <3> QED
      BY <1>12, <2>4, <3>3
  <2> QED
    BY <1>6, <2>1, <2>4, <2>5, <2>7
<1>15. HasKey(u)
  BY <1>1, <1>6, <1>13, <1>14 DEF HasKey
<1>16. KeyIn(u) = k
  <2>1. PICK e, g : e = m + 1 /\ g = SubSeq(u, 2, e)
    OBVIOUS
  <2>2. e \in Int /\ 2 \in Int /\ e - 2 + 1 = m /\ (2 <= e \/ m = 0) /\ (m = 0 => ~(2 <= e)) /\ \A i \in 2..e : i \in 1..Len(u)
    BY <1>6, <1>9, <2>1
  <2>3. KeyIn(u) = g
    <3>1. 1 + 1 = 2 /\ m + 2 - 1 = e
      BY <1>6, <2>1
    <3>2. First(u, "[") = 1 /\ First(u, "]") = m + 2
      BY <1>1, <1>13, <1>14
    <3>3. PICK h, j : h = First(u, "[") /\ j = First(u, "]")
      OBVIOUS
    <3>4. KeyIn(u) = SubSeq(u, h + 1, j - 1)
      BY <3>3, Zenon DEF KeyIn
    <3>5. h = 1 /\ j = m + 2
      BY <3>2, <3>3, Zenon
    <3>6. h + 1 = 2 /\ j - 1 = e
      BY <1>6, <2>1, <3>5
    <3> QED
      BY <2>1, <3>4, <3>6
  <2>4. /\ g \in Seq(Character) /\ Len(g) = (IF 2 <= e THEN e - 2 + 1 ELSE 0)
        /\ \A i \in 1..(e - 2 + 1) : g[i] = u[2 + i - 1]
    <3>1. \A i \in 2..e : u[i] \in Character
      BY <2>2, ElementOfSeq
    <3> QED
      BY <2>1, <2>2, <3>1, SubSeqProperties
  <2>5. Len(g) = m /\ \A i \in 1..m : g[i] = u[2 + i - 1]
    BY <2>2, <2>4
  <2>6. \A i \in 1..m : g[i] = k[i]
    <3>1. \A i \in 1..m : 2 + i - 1 = i + 1
      BY <1>6
    <3> QED
      BY <1>12, <2>5, <3>1
  <2>7. g \in Seq(Character \cup STRING) /\ k \in Seq(Character \cup STRING)
    BY <2>4, WiderSeq
  <2>8. g = k
    BY <1>5, <2>5, <2>6, <2>7, SeqEqual
  <2> QED
    BY <2>3, <2>8
<1> QED
  BY <1>15, <1>16

(* SUBSCRIBE and UNSUBSCRIBE on a line: what is read, and where it ends.   *)
LEMMA LineWithKey ==
  ASSUME script \in Scripts, NEW f, Layout(script, f, text), terminal, pc = "argument",
         cmd \in {"SUBSCRIBE", "UNSUBSCRIBE"}, NEW n, On(f, script, pos, pc, cmd, n),
         NEW q, q = ReadEnd(pos, MAX_STRING_SIZE - 1), NEW u, u = KeyChunk(pos)
  PROVE  /\ n \in 1..Len(script) /\ Stops(f, script, n, q) /\ q >= pos /\ q \in Nat
         /\ script[n].class = "good" =>
              \E k : script[n].means = Command(cmd, <<k>>) /\ HasKey(u) /\ KeyIn(u) = k /\ k # Overlong
         /\ script[n].class = "bad" => cmd = "SUBSCRIBE" /\ ~HasKey(u) /\ script[n].means = Rejected
         /\ script[n].class # "greedy"
<1>1. PICK s : s = script[n].chars
  OBVIOUS
<1>2. /\ n \in 1..Len(script) /\ pos \in f[n]..(f[n + 1] - 1) /\ pos \in Nat /\ f[n + 1] \in Nat
      /\ n + 1 \in 1..(Len(script) + 1)
      /\ script[n].class # "other" =>
           /\ cmd \in DOMAIN Keyword /\ cmd \in CommandsOf(s)
           /\ Len(Keyword[cmd]) <= Len(s)
           /\ pos = f[n] + Len(Keyword[cmd])
  BY <1>1, AtArgument
<1>3. MAX_STRING_SIZE - 1 \in Nat
  BY ClientAssumption
<1>4. q \in pos..f[n + 1]
  BY <1>2, <1>3, ReadInLine
<1>5. PICK b : b = f[n + 1]
  OBVIOUS
<1>6. q \in Nat /\ q >= pos /\ (q \in f[n]..(b - 1) \/ q = b)
  <2>1. PICK a : a = f[n]
    OBVIOUS
  <2>2. a \in Nat
    BY <1>2, <2>1, NewlineOfLine
  <2>3. b \in Nat /\ q \in pos..b /\ pos \in a..(b - 1) /\ pos \in Nat
    BY <1>2, <1>4, <1>5, <2>1
  <2>4. q \in Nat /\ q >= pos /\ (q \in a..(b - 1) \/ q = b)
    BY <2>2, <2>3
  <2> QED
    BY <2>1, <2>4
<1>7. CASE script[n].class = "other"
  <2>1. q \in Places(f, script)
    BY <1>2, <1>5, <1>6, <1>7 DEF Places
  <2> QED
    BY <1>2, <1>6, <1>7, <2>1 DEF Stops
<1>8. CASE script[n].class # "other"
  <2>1. /\ cmd \in DOMAIN Keyword /\ cmd \in CommandsOf(s) /\ Len(Keyword[cmd]) <= Len(s)
        /\ pos = f[n] + Len(Keyword[cmd])
    BY <1>2, <1>8
  <2>2. /\ s \in Seq(Character) /\ IsOfClass(script[n]) /\ script[n].means.args \in Seq(Seq(STRING))
        /\ s # << >>
    <3>1. s \in Seq(Character) /\ IsOfClass(script[n]) /\ script[n].means.args \in Seq(Seq(STRING))
      BY <1>1, <1>2, LinesKnown
    <3>2. Len(Keyword[cmd]) \in 6..12
      BY <2>1, KeywordTyped
    <3>3. PICK x, y : x = Len(Keyword[cmd]) /\ y = Len(s)
      OBVIOUS
    <3>4. x \in 6..12 /\ y \in Nat /\ x <= y
      BY <2>1, <3>1, <3>2, <3>3, LenProperties
    <3>5. y # 0
      BY <3>4
    <3> QED
      BY <3>1, <3>3, <3>5
  <2>3. s[1] = Keyword[cmd][1]
    <3>1. Keyword[cmd] \in Seq(Letters) /\ Len(Keyword[cmd]) \in 6..12
      BY <2>1, KeywordTyped
    <3>2. IsPrefix(Keyword[cmd], s)
      BY <2>1, <2>2, CommandsFit
    <3>3. \A i \in 1..Len(Keyword[cmd]) : s[i] = Keyword[cmd][i]
      BY <2>2, <3>1, <3>2, IsPrefixIs
    <3>4. PICK x : x = Len(Keyword[cmd])
      OBVIOUS
    <3>5. x \in 6..12
      BY <3>1, <3>4
    <3>6. 1 \in 1..x
      BY <3>5
    <3> QED
      BY <3>3, <3>4, <3>6
  <2>4. s[1] # "#"
    BY <2>3, Keywords
  <2>5. \A d \in CommandsOf(s) : d = cmd
    BY <1>1, <1>2, <2>1, OneOfLine
  <2>6. PICK r : r = Rest(cmd, s)
    OBVIOUS
  <2>7. r \in Seq(Character)
    BY <2>1, <2>2, <2>6, RestIs
  <2>8. FitsRead(r) => /\ q = f[n + 1] /\ u \in Seq(Character) /\ Len(u) = Len(r) + 1
                       /\ \A i \in 1..Len(r) : u[i] = r[i]
                       /\ u[Len(r) + 1] = Newline
    BY <1>1, <1>2, <2>1, <2>6, ChunkIs
  <2>9. CASE script[n].class = "good"
    <3>1. Good(s, script[n].means)
      BY <1>1, <2>2, <2>9 DEF IsOfClass
    <3>2. PICK k \in Seq(STRING), c \in {"SUBSCRIBE", "UNSUBSCRIBE"} :
              /\ s = Keyword[c] \o (<<"[">> \o k \o <<"]">>) /\ script[n].means = Command(c, <<k>>) /\ c \in CommandsOf(s)
              /\ {"[", "]"} \cap ToSet(k) = {} /\ FitsRead(Rest(c, s)) /\ k # Overlong
      <4>1. "DISCONNECT" \notin CommandsOf(s) /\ "DELAY" \notin CommandsOf(s)
        BY <2>5
      <4> QED
        BY <2>2, <2>4, <3>1, <4>1, GoodIs
    <3>3. c = cmd
      BY <2>5, <3>2
    <3>4. FitsRead(r)
      BY <2>6, <3>2, <3>3
    <3>5. r = <<"[">> \o k \o <<"]">>
      <4>1. <<"[">> \o k \o <<"]">> \in Seq(STRING \cup {"[", "]"})
        <5>1. k \in Seq(STRING \cup {"[", "]"})
          BY WiderSeq
        <5>2. <<"[">> \in Seq(STRING \cup {"[", "]"}) /\ <<"]">> \in Seq(STRING \cup {"[", "]"})
          OBVIOUS
        <5> QED
          BY <5>1, <5>2, ConcatProperties
      <4>2. PICK z : z = <<"[">> \o k \o <<"]">>
        OBVIOUS
      <4>3. z \in Seq(STRING \cup {"[", "]"}) /\ s = Keyword[cmd] \o z
        BY <3>2, <3>3, <4>1, <4>2
      <4>4. Rest(cmd, s) = z
        BY <2>1, <2>2, <4>3, RestOfConcatenation
      <4> QED
        BY <2>6, <4>2, <4>4
    <3>6. HasKey(u) /\ KeyIn(u) = k
      <4>1. u \in Seq(Character) /\ Len(u) = Len(r) + 1 /\ \A i \in 1..Len(r) : u[i] = r[i]
        BY <2>8, <3>4
      <4>2. {"[", "]"} \cap ToSet(k) = {}
        BY <3>2
      <4> QED
        BY <3>5, <4>1, <4>2, BracketedKey
    <3>7. q = f[n + 1]
      BY <2>8, <3>4
    <3>8. Stops(f, script, n, q)
      BY <2>9, <3>7 DEF Stops
    <3> QED
      BY <1>2, <1>6, <2>9, <3>2, <3>3, <3>6, <3>8
  <2>10. CASE script[n].class = "bad"
    <3>1. Bad(s) /\ script[n].means = Rejected
      BY <1>1, <2>2, <2>10 DEF IsOfClass
    <3>2. "SUBSCRIBE" \in CommandsOf(s) /\ ~HasKey(Rest("SUBSCRIBE", s)) /\ FitsRead(Rest("SUBSCRIBE", s))
      <4>1. CommandsOf(s) # {} /\ "DELAY" \notin CommandsOf(s)
        BY <2>1, <2>5
      <4> QED
        BY <3>1, <4>1 DEF Bad
    <3>3. cmd = "SUBSCRIBE"
      BY <2>5, <3>2
    <3>4. FitsRead(r) /\ ~HasKey(r)
      BY <2>6, <3>2, <3>3
    <3>5. ~HasKey(u)
      BY <2>7, <2>8, <3>4, ChunkHasKey
    <3>6. Stops(f, script, n, q)
      BY <2>8, <2>10, <3>4 DEF Stops
    <3> QED
      BY <1>2, <1>6, <2>10, <3>1, <3>3, <3>5, <3>6
  <2>11. CASE script[n].class = "greedy"
    <3>1. Greedy(s)
      BY <1>1, <2>2, <2>11 DEF IsOfClass
    <3>2. CommandsOf(s) # {} /\ "DELAY" \notin CommandsOf(s)
      BY <2>1, <2>5
    <3> QED
      BY <3>1, <3>2 DEF Greedy
  <2>12. CASE script[n].class = "stale"
    <3>1. Stale(s)
      BY <1>1, <2>2, <2>12 DEF IsOfClass
    <3>2. "UNSUBSCRIBE" \in CommandsOf(s) /\ FitsRead(Rest("UNSUBSCRIBE", s))
      BY <3>1 DEF Stale
    <3>3. FitsRead(r)
      BY <2>5, <2>6, <3>2
    <3>4. Stops(f, script, n, q)
      BY <2>8, <2>12, <3>3 DEF Stops
    <3> QED
      BY <1>2, <1>6, <2>12, <3>4
  <2> QED
    BY <1>1, <1>8, <2>2, <2>9, <2>10, <2>11, <2>12 DEF IsOfClass
<1> QED
  BY <1>7, <1>8

-----------------------------------------------------------------------------
(* Lines with a number.                                                    *)
(* The characters of a number.                                             *)
LEMMA DigitsOf ==
  ASSUME NEW r \in Seq(Character), NEW m \in 0..Len(r), ToSet(SubSeq(r, 1, m)) \subseteq Digits
  PROVE  \A i \in 1..m : r[i] \in Digits
<1>1. PICK u : u = SubSeq(r, 1, m)
  OBVIOUS
<1>2. Len(r) \in Nat
  BY LenProperties
<1>3. 1 \in Int /\ m \in Int /\ m - 1 + 1 = m /\ (1 <= m \/ m = 0) /\ (m = 0 => ~(1 <= m))
      /\ \A i \in 1..m : i \in 1..Len(r) /\ 1 + i - 1 = i
  BY <1>2
<1>4. \A i \in 1..m : r[i] \in Character
  BY <1>3, ElementOfSeq
<1>5. /\ u \in Seq(Character) /\ Len(u) = (IF 1 <= m THEN m - 1 + 1 ELSE 0)
      /\ \A i \in 1..(m - 1 + 1) : u[i] = r[1 + i - 1]
  BY <1>1, <1>3, <1>4, SubSeqProperties
<1>6. Len(u) = m /\ \A i \in 1..m : u[i] = r[i]
  BY <1>3, <1>5
<1>7. DOMAIN u = 1..m
  BY <1>5, <1>6, LenProperties
<1>8. \A i \in DOMAIN u : u[i] \in ToSet(u)
  BY DEF ToSet
<1> QED
  BY <1>1, <1>6, <1>7, <1>8

(* The m characters r of line s after command c are ahead of main.          *)
InRest(a, b, c, s, r, m) ==
  /\ r \in Seq(Character) /\ m \in Nat /\ m = Len(s) - Len(Keyword[c])
  /\ b = pos + m + 1 /\ pos \in a..(b - 1) /\ pos \in Nat \ {0} /\ pos + m <= Len(text)
  /\ text[pos + m] = Newline
  /\ \A i \in 1..m : text[pos + i - 1] = r[i] /\ r[i] # Newline

LEMMA RestInText ==
  ASSUME script \in Scripts, NEW f, Layout(script, f, text),
         NEW n \in 1..Len(script), NEW c \in DOMAIN Keyword,
         NEW s, s = script[n].chars, Len(Keyword[c]) <= Len(s), pos = f[n] + Len(Keyword[c]),
         NEW r, r = Rest(c, s), NEW m, m = Len(r)
  PROVE  InRest(f[n], f[n + 1], c, s, r, m)
<1>1. s \in Seq(Character) /\ Len(s) \in Nat /\ \A i \in 1..Len(s) : s[i] # Newline
  BY LinesKnown
<1>2. PICK k : k = Len(Keyword[c])
  OBVIOUS
<1>3. /\ r \in Seq(Character) /\ m = Len(s) - k /\ m \in Nat
      /\ \A i \in 1..m : r[i] = s[k + i]
  BY <1>1, <1>2, RestIs
<1>4. k \in 6..12
  BY <1>2, KeywordTyped
<1>5. f[n + 1] = f[n] + Len(s) + 1 /\ f[n] \in Nat /\ text[f[n + 1] - 1] = Newline
  BY LayoutFacts
<1>6. \A i \in 1..Len(s) : text[f[n] + i - 1] = s[i]
  <2>1. TextAt(s, f[n])
    BY LaidChars
  <2> QED
    BY <2>1 DEF TextAt
<1>7. Len(text) \in Nat /\ End = Len(text) + 1 /\ f[n + 1] \in 1..End /\ f[n] \in 1..Len(text)
  BY LinePlace
<1>8. PICK a, b, l, e : a = f[n] /\ b = f[n + 1] /\ l = Len(s) /\ e = Len(text)
  OBVIOUS
<1>9. /\ a \in Nat \ {0} /\ l \in Nat /\ k \in Nat /\ e \in Nat /\ m \in Nat /\ k + m = l /\ b = a + l + 1 /\ pos = a + k
      /\ text[b - 1] = Newline /\ b <= e + 1
  <2>1. l \in Nat /\ m \in Nat /\ m = l - k /\ k \in 6..12
    BY <1>1, <1>3, <1>4, <1>8
  <2>2. /\ b = a + l + 1 /\ text[b - 1] = Newline /\ pos = a + k
        /\ e \in Nat /\ b \in 1..(e + 1) /\ a \in 1..e
    BY <1>2, <1>5, <1>7, <1>8
  <2> QED
    BY <2>1, <2>2
<1>10. b = pos + m + 1 /\ pos \in a..(b - 1) /\ pos \in Nat \ {0} /\ pos + m <= e /\ pos + m = b - 1
  <2>1. /\ a \in Nat \ {0} /\ k \in Nat /\ e \in Nat /\ m \in Nat
        /\ b = a + (k + m) + 1 /\ pos = a + k /\ b <= e + 1
    BY <1>9
  <2>2. PICK p : p = pos
    OBVIOUS
  <2>3. p \in Nat \ {0}
    BY <2>1, <2>2
  <2>4. p = a + k /\ b = a + (k + m) + 1 /\ b <= e + 1 /\ a \in Nat \ {0} /\ k \in Nat /\ m \in Nat /\ e \in Nat
    BY <2>1, <2>2
  <2>5. b = p + m + 1 /\ b \in Nat
    BY <2>3, <2>4
  <2>6. p \in a..(b - 1) /\ p + m <= e /\ p + m = b - 1
    BY <2>3, <2>4, <2>5
  <2> QED
    BY <2>2, <2>3, <2>5, <2>6
<1>11. text[pos + m] = Newline
  BY <1>9, <1>10
<1>12. ASSUME NEW i \in 1..m
       PROVE  text[pos + i - 1] = r[i] /\ r[i] # Newline
  <2>1. PICK j : j = k + i
    OBVIOUS
  <2>2. j \in 1..l /\ a + j - 1 = pos + i - 1
    BY <1>9, <2>1
  <2>3. text[a + j - 1] = s[j] /\ s[j] # Newline
    BY <1>1, <1>6, <1>8, <2>2
  <2>4. r[i] = s[j]
    BY <1>3, <2>1
  <2> QED
    BY <2>2, <2>3, <2>4
<1> QED
  BY <1>2, <1>3, <1>8, <1>10, <1>11, <1>12 DEF InRest

(* read_uint stops at the first character that is no digit.                *)
LEMMA StopIs ==
  ASSUME text \in Seq(Character), NEW p \in 1..End, NEW q, q = read_uint(p).stop
  PROVE  /\ q \in p..End /\ (q # End => text[q] \notin Digits)
         /\ \A i \in p..Len(text) : text[i] \notin Digits => q <= i
         /\ q < End => read_uint(p).numbers = {Number(SubSeq(text, p, q - 1))}
<1> DEFINE I == {i \in p..Len(text) : text[i] \notin Digits} \cup {End}
<1>1. Len(text) \in Nat /\ End = Len(text) + 1
  BY TextEnd
<1>2. I \in SUBSET Nat /\ I # {} /\ I \subseteq p..End
  BY <1>1
<1>3. Min(I) \in I /\ \A i \in I : Min(I) <= i
  BY <1>2, MinimumExists
<1>4. q = Min(I)
  BY DEF read_uint
<1>5. q < End => ~AtEnd(q)
  <2>1. q \in Nat
    BY <1>2, <1>3, <1>4
  <2> QED
    BY <1>1, <2>1 DEF AtEnd
<1>6. q < End => read_uint(p).numbers = {Number(SubSeq(text, p, q - 1))}
  <2> HIDE DEF I
  <2>1. read_uint(p).numbers = IF AtEnd(q) THEN {Number(SubSeq(text, p, q - 1) \o g) : g \in StaleDigits}
                                           ELSE {Number(SubSeq(text, p, q - 1))}
    BY DEF read_uint
  <2> QED
    BY <1>5, <2>1
<1> QED
  BY <1>2, <1>3, <1>4, <1>6

(* read_uint does not reach over the end of the line.                      *)
LEMMA StopInLine ==
  ASSUME NEW f, Layout(script, f, text), NEW n \in 1..Len(script), NEW p \in f[n]..(f[n + 1] - 1),
         NEW q, q = read_uint(p).stop
  PROVE  /\ q \in p..(f[n + 1] - 1) /\ q \in Nat /\ q < End
         /\ Passed(q, 1) = q + 1 /\ q + 1 \in 1..End /\ p \in Nat
         /\ q + 1 \in f[n]..(f[n + 1] - 1) \/ q + 1 = f[n + 1]
<1>1. /\ text \in Seq(Character) /\ Len(text) \in Nat /\ End = Len(text) + 1
      /\ f[n] \in 1..Len(text) /\ f[n + 1] \in 1..End
  BY LinePlace
<1>2. p \in 1..Len(text)
  BY NewlineOfLine
<1>3. text[f[n + 1] - 1] = Newline
  BY LayoutFacts
<1>4. Newline \notin Digits
  BY DEF Newline, Digits
<1>5. PICK a, b : a = f[n] /\ b = f[n + 1]
  OBVIOUS
<1>6. /\ a \in 1..Len(text) /\ b \in 1..End /\ p \in a..(b - 1) /\ p \in 1..Len(text) /\ p \in 1..End
      /\ text[b - 1] \notin Digits
  BY <1>1, <1>2, <1>3, <1>4, <1>5
<1>7. /\ q \in p..End /\ \A i \in p..Len(text) : text[i] \notin Digits => q <= i
  BY <1>1, <1>6, StopIs
<1>8. b - 1 \in p..Len(text)
  BY <1>1, <1>6
<1>9. q <= b - 1
  BY <1>6, <1>7, <1>8
<1>10. q \in p..(b - 1) /\ q \in Nat /\ q < End /\ q + 1 <= End /\ q \in 1..End /\ q + 1 \in 1..End /\ p \in Nat
  <2>1. b \in Nat /\ End \in Nat /\ b <= End /\ p \in Nat /\ 1 <= p
    BY <1>1, <1>6
  <2>2. q \in Nat /\ p <= q
    BY <1>7, <2>1
  <2> QED
    BY <1>9, <2>1, <2>2
<1>11. Passed(q, 1) = q + 1
  <2>1. 1 \in Nat
    OBVIOUS
  <2> QED
    BY <1>1, <1>10, <2>1, PassedEnds
<1>12. q + 1 \in a..(b - 1) \/ q + 1 = b
  BY <1>1, <1>6, <1>10
<1> QED
  BY <1>5, <1>10, <1>11, <1>12

(* The number at the beginning of the rest of a line.                      *)
LEMMA NumberIs ==
  ASSUME text \in Seq(Character), NEW e, e = Len(text), NEW r \in Seq(Character), NEW l \in Nat, l = Len(r),
         pos \in Nat \ {0}, pos + l <= e, text[pos + l] = Newline,
         \A i \in 1..l : text[pos + i - 1] = r[i],
         NEW m \in Nat, m <= l, \A i \in 1..m : r[i] \in Digits, m = l \/ r[m + 1] \notin Digits
  PROVE  read_uint(pos).stop = pos + m /\ read_uint(pos).numbers = {Number(SubSeq(r, 1, m))}
<1>1. e \in Nat /\ End = e + 1
  BY TextEnd
<1>2. PICK q : q = read_uint(pos).stop
  OBVIOUS
<1>3. pos \in 1..End /\ pos + m \in pos..e
  BY <1>1
<1>4. /\ q \in pos..End /\ (q # End => text[q] \notin Digits)
      /\ \A i \in pos..e : text[i] \notin Digits => q <= i
      /\ q < End => read_uint(pos).numbers = {Number(SubSeq(text, pos, q - 1))}
  BY <1>2, <1>3, StopIs
<1>5. text[pos + m] \notin Digits
  <2>1. CASE m = l
    <3>1. Newline \notin Digits
      BY DEF Newline, Digits
    <3> QED
      BY <2>1, <3>1
  <2>2. CASE m # l
    <3>1. PICK j : j = m + 1
      OBVIOUS
    <3>2. j \in 1..l /\ pos + j - 1 = pos + m
      BY <2>2, <3>1
    <3>3. text[pos + j - 1] = r[j]
      BY <3>2
    <3> QED
      BY <2>2, <3>1, <3>2, <3>3
  <2> QED
    BY <2>1, <2>2
<1>6. q <= pos + m
  BY <1>3, <1>4, <1>5
<1>7. q \in Nat /\ q < End /\ pos <= q
  BY <1>1, <1>4, <1>6
<1>8. q = pos + m
  <2>1. SUFFICES ASSUME q < pos + m
                 PROVE  FALSE
    BY <1>6, <1>7
  <2>2. PICK i : i = q - pos + 1
    OBVIOUS
  <2>3. i \in 1..m /\ i \in 1..l /\ pos + i - 1 = q
    BY <1>7, <2>1, <2>2
  <2>4. text[q] \in Digits
    BY <2>3
  <2> QED
    BY <1>1, <1>4, <1>7, <2>4
<1>9. SubSeq(text, pos, q - 1) = SubSeq(r, 1, m)
  <2>1. PICK p, z : p = pos /\ z = q - 1
    OBVIOUS
  <2>2. PICK u, v : u = SubSeq(text, p, z) /\ v = SubSeq(r, 1, m)
    OBVIOUS
  <2>3. p \in Int /\ z \in Int /\ z - p + 1 = m /\ (p <= z \/ m = 0) /\ (m = 0 => ~(p <= z))
        /\ 1 \in Int /\ m \in Int /\ m - 1 + 1 = m /\ (1 <= m \/ m = 0) /\ (m = 0 => ~(1 <= m))
    BY <1>7, <1>8, <2>1
  <2>4. (\A i \in p..z : i \in 1..e) /\ (\A i \in 1..m : i \in 1..l /\ 1 + i - 1 = i)
    BY <1>1, <1>7, <1>8, <2>1
  <2>5. (\A i \in p..z : text[i] \in Character) /\ (\A i \in 1..m : r[i] \in Character)
    BY <2>4, ElementOfSeq
  <2>6. /\ u \in Seq(Character) /\ Len(u) = (IF p <= z THEN z - p + 1 ELSE 0)
        /\ \A i \in 1..(z - p + 1) : u[i] = text[p + i - 1]
    BY <2>2, <2>3, <2>5, SubSeqProperties
  <2>7. /\ v \in Seq(Character) /\ Len(v) = (IF 1 <= m THEN m - 1 + 1 ELSE 0)
        /\ \A i \in 1..(m - 1 + 1) : v[i] = r[1 + i - 1]
    BY <2>2, <2>3, <2>5, SubSeqProperties
  <2>8. Len(u) = m /\ Len(v) = m
    BY <2>3, <2>6, <2>7
  <2>9. \A i \in 1..m : u[i] = v[i]
    <3>1. ASSUME NEW i \in 1..m
          PROVE  u[i] = v[i]
      <4>1. u[i] = text[p + i - 1]
        BY <2>3, <2>6
      <4>2. v[i] = r[i]
        BY <2>3, <2>4, <2>7
      <4>3. text[pos + i - 1] = r[i]
        BY <2>4
      <4> QED
        BY <2>1, <4>1, <4>2, <4>3
    <3> QED
      BY <3>1
  <2>10. u = v
    BY <2>6, <2>7, <2>8, <2>9, SeqEqual
  <2> QED
    BY <2>1, <2>2, <2>10
<1> QED
  BY <1>2, <1>4, <1>7, <1>8, <1>9

(* DELAY on a line: what is done, and where it ends.                       *)
LEMMA LineWithDelay ==
  ASSUME script \in Scripts, NEW f, Layout(script, f, text), terminal, pc = "argument", cmd = "DELAY",
         NEW n, On(f, script, pos, pc, cmd, n),
         NEW after, after = Passed(read_uint(pos).stop, 1), NEW v \in read_uint(pos).numbers,
         NEW q, q = IF v > UINT_MAX THEN cleanup(after) ELSE after,
         NEW w, w = IF v > UINT_MAX THEN Command("rejected", << >>) ELSE Command(cmd, <<Decimal(v)>>)
  PROVE  Meant(script, <<n, w>>) /\ Stops(f, script, n, q) /\ q >= pos /\ q \in Nat
<1>1. PICK s : s = script[n].chars
  OBVIOUS
<1>2. /\ n \in 1..Len(script) /\ pos \in f[n]..(f[n + 1] - 1) /\ pos \in Nat /\ f[n + 1] \in Nat
      /\ n + 1 \in 1..(Len(script) + 1)
      /\ script[n].class # "other" =>
           /\ cmd \in DOMAIN Keyword /\ cmd \in CommandsOf(s)
           /\ Len(Keyword[cmd]) <= Len(s)
           /\ pos = f[n] + Len(Keyword[cmd])
  BY <1>1, AtArgument
<1>3. text \in Seq(Character) /\ Len(text) \in Nat /\ End = Len(text) + 1
  BY <1>2, LinePlace
<1>4. PICK stop : stop = read_uint(pos).stop
  OBVIOUS
<1>5. /\ stop \in pos..(f[n + 1] - 1) /\ stop \in Nat
      /\ after = stop + 1 /\ after \in 1..End
      /\ after \in f[n]..(f[n + 1] - 1) \/ after = f[n + 1]
  BY <1>2, <1>4, StopInLine
<1>6. after \in Nat /\ after >= pos
  <2>1. PICK b : b = f[n + 1]
    OBVIOUS
  <2>2. b \in Nat /\ stop \in pos..(b - 1) /\ pos \in Nat
    BY <1>2, <1>5, <2>1
  <2> QED
    BY <1>5, <2>2
<1>7. (\E j \in 1..(Len(script) + 1) : cleanup(after) = f[j]) /\ cleanup(after) \in after..End
  BY <1>5, CleanupPlace
<1>8. q \in Nat /\ q >= pos
  <2>1. PICK z : z = cleanup(after)
    OBVIOUS
  <2>2. z \in after..End /\ End \in Nat
    BY <1>3, <1>7, <2>1
  <2>3. z \in Nat /\ z >= after
    BY <1>6, <2>2
  <2>4. z >= pos
    BY <1>2, <1>6, <2>3
  <2>5. q = z \/ q = after
    BY <2>1
  <2> QED
    BY <1>6, <2>3, <2>4, <2>5
<1>9. CASE script[n].class = "other"
  <2>1. Meant(script, <<n, w>>)
    BY <1>2, <1>9 DEF Meant
  <2>2. cleanup(after) \in Places(f, script)
    BY <1>7 DEF Places
  <2>3. after \in Places(f, script)
    BY <1>2, <1>5, <1>9 DEF Places
  <2>4. q \in Places(f, script)
    BY <2>2, <2>3
  <2> QED
    BY <1>8, <1>9, <2>1, <2>4 DEF Stops
<1>10. CASE script[n].class # "other"
  <2>1. /\ cmd \in DOMAIN Keyword /\ cmd \in CommandsOf(s) /\ Len(Keyword[cmd]) <= Len(s)
        /\ pos = f[n] + Len(Keyword[cmd])
    BY <1>2, <1>10
  <2>2. /\ s \in Seq(Character) /\ IsOfClass(script[n]) /\ script[n].means.args \in Seq(Seq(STRING))
        /\ Len(s) \in Nat
    BY <1>1, <1>2, LinesKnown
  <2>3. Len(Keyword[cmd]) = 6 /\ Keyword[cmd][1] = "D"
    BY Keywords
  <2>4. s # << >> /\ s[1] = "D"
    <3>1. Keyword[cmd] \in Seq(Letters)
      BY <2>1, KeywordTyped
    <3>2. IsPrefix(Keyword[cmd], s)
      BY <2>1, <2>2, CommandsFit
    <3>3. \A i \in 1..Len(Keyword[cmd]) : s[i] = Keyword[cmd][i]
      BY <2>2, <3>1, <3>2, IsPrefixIs
    <3>4. 1 \in 1..6
      OBVIOUS
    <3>5. s[1] = Keyword[cmd][1]
      BY <2>3, <3>3, <3>4
    <3>6. PICK x : x = Len(s)
      OBVIOUS
    <3>7. x \in Nat /\ 6 <= x
      BY <2>1, <2>2, <2>3, <3>6
    <3>8. x # 0
      BY <3>7
    <3> QED
      BY <2>3, <3>5, <3>6, <3>8
  <2>5. \A d \in CommandsOf(s) : d = cmd
    BY <1>1, <1>2, <2>1, OneOfLine
  <2>6. PICK r, l : r = Rest(cmd, s) /\ l = Len(r)
    OBVIOUS
  <2>7. /\ r \in Seq(Character) /\ l \in Nat /\ l = Len(s) - Len(Keyword[cmd])
        /\ f[n + 1] = pos + l + 1 /\ pos \in f[n]..(f[n + 1] - 1) /\ pos \in Nat \ {0} /\ pos + l <= Len(text)
        /\ text[pos + l] = Newline
        /\ \A i \in 1..l : text[pos + i - 1] = r[i] /\ r[i] # Newline
    <3>1. n \in 1..Len(script) /\ cmd \in DOMAIN Keyword /\ Len(Keyword[cmd]) <= Len(s) /\ pos = f[n] + Len(Keyword[cmd])
      BY <1>2, <2>1
    <3>2. s = script[n].chars /\ r = Rest(cmd, s) /\ l = Len(r)
      BY <1>1, <2>6
    <3>3. InRest(f[n], f[n + 1], cmd, s, r, l)
      BY <3>1, <3>2, RestInText
    <3> QED
      BY <3>3 DEF InRest
  <2>8. ASSUME NEW m \in Nat, m <= l, \A i \in 1..m : r[i] \in Digits, m = l \/ r[m + 1] \notin Digits
        PROVE  stop = pos + m /\ v = Number(SubSeq(r, 1, m))
    <3>1. PICK e : e = Len(text)
      OBVIOUS
    <3>2. \A i \in 1..l : text[pos + i - 1] = r[i]
      BY <2>7
    <3>3. pos + l <= e /\ text[pos + l] = Newline /\ pos \in Nat \ {0} /\ r \in Seq(Character) /\ l \in Nat /\ l = Len(r)
      BY <2>6, <2>7, <3>1
    <3>4. read_uint(pos).stop = pos + m /\ read_uint(pos).numbers = {Number(SubSeq(r, 1, m))}
      BY <1>3, <2>8, <3>1, <3>2, <3>3, NumberIs
    <3> QED
      BY <1>4, <3>4
  <2>9. CASE script[n].class = "good"
    <3>1. Good(s, script[n].means)
      BY <1>1, <2>2, <2>9 DEF IsOfClass
    <3>2. PICK k \in Seq(STRING) :
              /\ s = Keyword["DELAY"] \o k /\ script[n].means = Command("DELAY", <<k>>)
              /\ ToSet(k) \subseteq Digits /\ ~TooLarge(k, Len(k)) /\ k = Decimal(Number(k))
      <4>1. "DISCONNECT" \notin CommandsOf(s) /\ "SUBSCRIBE" \notin CommandsOf(s) /\ "UNSUBSCRIBE" \notin CommandsOf(s)
        BY <2>5
      <4>2. s[1] # "#"
        BY <2>4
      <4> QED
        BY <2>2, <2>4, <3>1, <4>1, <4>2, GoodIs
    <3>3. r = k
      <4>1. s = Keyword[cmd] \o k
        BY <3>2
      <4> QED
        BY <2>1, <2>2, <2>6, <4>1, RestOfConcatenation
    <3>4. \A i \in 1..l : r[i] \in Digits
      <4>1. DOMAIN r = 1..l
        BY <2>6, <2>7, LenProperties
      <4> QED
        BY <3>2, <3>3, <4>1 DEF ToSet
    <3>5. SubSeq(r, 1, l) = r
      BY <2>6, <2>7, WholeSequence
    <3>6. stop = pos + l /\ v = Number(r)
      <4>1. l \in Nat /\ l <= l
        BY <2>7
      <4>2. stop = pos + l /\ v = Number(SubSeq(r, 1, l))
        BY <2>8, <3>4, <4>1
      <4> QED
        BY <3>5, <4>2
    <3>7. ~(v > UINT_MAX)
      <4>1. ~(ToSet(SubSeq(k, 1, Len(k))) \subseteq Digits /\ Number(SubSeq(k, 1, Len(k))) > UINT_MAX)
        BY <3>2 DEF TooLarge
      <4>2. SubSeq(k, 1, Len(k)) = k
        BY <2>6, <3>3, <3>5
      <4>3. ~(ToSet(k) \subseteq Digits /\ Number(k) > UINT_MAX)
        BY <4>1, <4>2
      <4> QED
        BY <3>2, <3>3, <3>6, <4>3
    <3>8. q = f[n + 1]
      BY <1>5, <2>7, <3>6, <3>7
    <3>9. w = script[n].means
      BY <3>2, <3>3, <3>6, <3>7
    <3>10. Meant(script, <<n, w>>)
      BY <1>2, <3>9 DEF Meant, Same
    <3> QED
      BY <1>8, <2>9, <3>8, <3>10 DEF Stops
  <2>10. CASE script[n].class = "bad"
    <3>1. Bad(s) /\ script[n].means = Rejected
      BY <1>1, <2>2, <2>10 DEF IsOfClass
    <3>2. PICK m \in 0..(Len(r) - 1) : r[m + 1] \notin Digits /\ TooLarge(r, m)
      <4>1. CommandsOf(s) # {} /\ "SUBSCRIBE" \notin CommandsOf(s)
        BY <2>1, <2>5
      <4> QED
        BY <2>6, <3>1, <4>1 DEF Bad
    <3>3. m \in Nat /\ m < l /\ m <= l /\ m \in 0..Len(r)
      BY <2>6, <2>7
    <3>4. ToSet(SubSeq(r, 1, m)) \subseteq Digits /\ Number(SubSeq(r, 1, m)) > UINT_MAX
      BY <3>2 DEF TooLarge
    <3>5. \A i \in 1..m : r[i] \in Digits
      BY <2>7, <3>3, <3>4, DigitsOf
    <3>6. stop = pos + m /\ v = Number(SubSeq(r, 1, m))
      BY <2>8, <3>2, <3>3, <3>5
    <3>7. v > UINT_MAX
      BY <3>4, <3>6
    <3>8. after \in f[n]..(f[n + 1] - 1)
      <4>1. PICK b : b = f[n + 1]
        OBVIOUS
      <4>2. after = pos + m + 1 /\ b = pos + l + 1 /\ pos \in Nat /\ m \in Nat /\ l \in Nat /\ m < l
        BY <1>5, <2>7, <3>3, <3>6, <4>1
      <4>3. after # f[n + 1]
        BY <4>1, <4>2
      <4> QED
        BY <1>5, <4>3
    <3>9. q = f[n + 1]
      <4>1. cleanup(after) = f[n + 1]
        BY <1>2, <3>8, NewlineOfLine
      <4> QED
        BY <3>7, <4>1
    <3>10. Meant(script, <<n, w>>)
      BY <1>2, <3>1, <3>7 DEF Meant, Same, Rejected
    <3> QED
      BY <1>8, <2>10, <3>9, <3>10 DEF Stops
  <2>11. CASE script[n].class = "greedy"
    <3>1. Greedy(s) /\ script[n].means = Rejected
      BY <1>1, <2>2, <2>11 DEF IsOfClass
    <3>2. TooLarge(r, l)
      <4>1. CommandsOf(s) # {}
        BY <2>1
      <4>2. TooLarge(Rest("DELAY", s), Len(s) - 6)
        BY <3>1, <4>1 DEF Greedy
      <4>3. l = Len(s) - 6
        BY <2>3, <2>7
      <4> QED
        BY <2>6, <4>2, <4>3
    <3>3. l \in Nat /\ l <= l /\ l \in 0..Len(r)
      BY <2>6, <2>7
    <3>4. ToSet(SubSeq(r, 1, l)) \subseteq Digits /\ Number(SubSeq(r, 1, l)) > UINT_MAX
      BY <3>2 DEF TooLarge
    <3>5. \A i \in 1..l : r[i] \in Digits
      BY <2>7, <3>3, <3>4, DigitsOf
    <3>6. stop = pos + l /\ v = Number(SubSeq(r, 1, l))
      BY <2>8, <3>3, <3>5
    <3>7. v > UINT_MAX
      BY <3>4, <3>6
    <3>8. after = f[n + 1]
      BY <1>5, <2>7, <3>6
    <3>9. q = f[IF n < Len(script) THEN n + 2 ELSE n + 1]
      <4>1. q = cleanup(f[n + 1])
        BY <3>7, <3>8
      <4> QED
        BY <1>2, <4>1, CleanupNext
    <3>10. Meant(script, <<n, w>>)
      BY <1>2, <3>1, <3>7 DEF Meant, Same, Rejected
    <3> QED
      BY <1>8, <2>11, <3>9, <3>10 DEF Stops
  <2>12. CASE script[n].class = "stale"
    <3>1. Stale(s)
      BY <1>1, <2>2, <2>12 DEF IsOfClass
    <3>2. "UNSUBSCRIBE" \in CommandsOf(s)
      BY <3>1 DEF Stale
    <3> QED
      BY <2>5, <3>2
  <2> QED
    BY <1>1, <1>10, <2>2, <2>9, <2>10, <2>11, <2>12 DEF IsOfClass
<1> QED
  BY <1>9, <1>10

-----------------------------------------------------------------------------
(* DISCONNECT.                                                             *)
(* DISCONNECT takes its line.                                              *)
LEMMA LineOfDisconnect ==
  ASSUME script \in Scripts, NEW f, Layout(script, f, text), pc = "next", "DISCONNECT" \in CommandAt(pos),
         NEW n, On(f, script, pos, pc, cmd, n), ~AtEnd(pos)
  PROVE  /\ Meant(script, <<n, Command("DISCONNECT", << >>)>>)
         /\ Passed(pos, Len(Keyword["DISCONNECT"]) + 1) = f[n + 1]
         /\ Stops(f, script, n, f[n + 1]) /\ f[n + 1] >= pos /\ f[n + 1] \in Nat
         /\ f[n + 1] \in Places(f, script)
<1>1. n \in 1..Len(script) /\ pos \in f[n]..(f[n + 1] - 1) /\ (script[n].class # "other" => pos = f[n])
  BY DEF On
<1>2. PICK a, b, e : a = f[n] /\ b = f[n + 1] /\ e = Len(text)
  OBVIOUS
<1>3. /\ text \in Seq(Character) /\ e \in Nat /\ End = e + 1 /\ a \in 1..e /\ b \in 1..End /\ a < b
      /\ n + 1 \in 1..(Len(script) + 1) /\ pos \in a..(b - 1)
  BY <1>1, <1>2, LinePlace
<1>4. /\ "DISCONNECT" \in DOMAIN Keyword /\ Matches(pos, Keyword["DISCONNECT"])
      /\ Len(Keyword["DISCONNECT"]) = 10
      /\ AtEnd(pos + 10) \/ text[pos + 10] = Newline
  BY Keywords DEF CommandAt
<1>5. pos + 10 <= b - 1
  BY <1>1, <1>2, <1>4, MatchInLine
<1>6. PICK q : q = pos + 10
  OBVIOUS
<1>7. q \in Nat /\ q \in a..(b - 1) /\ ~AtEnd(q) /\ q \in 1..e /\ pos \in Nat /\ b \in Nat
  BY <1>3, <1>5, <1>6 DEF AtEnd
<1>8. text[q] = Newline
  BY <1>4, <1>6, <1>7
<1>9. q = b - 1
  <2>1. Seek(q, {Newline}) = b - 1
    BY <1>1, <1>2, <1>7, NewlineOfLine
  <2>2. q \in 1..End
    BY <1>3, <1>7
  <2>3. \A i \in q..Len(text) : text[i] \in {Newline} => Seek(q, {Newline}) <= i
    BY <1>3, <2>2, SeekEnds
  <2>4. q \in q..Len(text)
    BY <1>2, <1>7
  <2>5. Seek(q, {Newline}) <= q
    BY <1>8, <2>3, <2>4
  <2>6. b - 1 <= q
    BY <2>1, <2>5
  <2> QED
    BY <1>7, <2>6
<1>10. Passed(pos, 11) = b /\ pos + 11 = b
  <2>1. pos + 11 = b /\ pos + 11 <= End /\ pos \in 1..End /\ 11 \in Nat
    BY <1>3, <1>6, <1>7, <1>9
  <2> QED
    BY <1>3, <2>1, PassedEnds
<1>11. b \in Places(f, script)
  BY <1>2, <1>3 DEF Places
<1>12. Passed(pos, Len(Keyword["DISCONNECT"]) + 1) = b /\ b >= pos /\ b \in Nat
  BY <1>4, <1>7, <1>10
<1>13. CASE script[n].class = "other"
  <2>1. <<n, Command("DISCONNECT", << >>)>>[1] = n
    OBVIOUS
  <2>2. Meant(script, <<n, Command("DISCONNECT", << >>)>>)
    BY <1>1, <1>13, <2>1 DEF Meant
  <2>3. Stops(f, script, n, f[n + 1])
    BY <1>2, <1>11, <1>13 DEF Stops
  <2> QED
    BY <1>2, <1>11, <1>12, <2>2, <2>3
<1>14. CASE script[n].class # "other"
  <2>1. PICK s : s = script[n].chars
    OBVIOUS
  <2>2. "DISCONNECT" \in CommandsOf(s)
    BY <1>1, <1>14, <2>1, CommandsOfLine
  <2>3. \A d \in CommandsOf(s) : d = "DISCONNECT"
    BY <1>1, <2>1, <2>2, OneOfLine
  <2>4. s = Keyword["DISCONNECT"]
    BY <2>2 DEF CommandsOf
  <2>5. s # << >> /\ s[1] = "D"
    <3>1. Len(s) = 10 /\ s[1] = "D"
      BY <2>4, Keywords
    <3> QED
      BY <3>1
  <2>6. IsOfClass(script[n]) /\ script[n].means.args \in Seq(Seq(STRING))
    BY <1>1, LinesKnown
  <2>7. "SUBSCRIBE" \notin CommandsOf(s) /\ "UNSUBSCRIBE" \notin CommandsOf(s) /\ "DELAY" \notin CommandsOf(s)
        /\ CommandsOf(s) # {}
    BY <2>2, <2>3
  <2>8. script[n].class # "greedy"
    BY <2>1, <2>6, <2>7 DEF IsOfClass, Greedy
  <2>9. script[n].class # "bad"
    BY <2>1, <2>6, <2>7 DEF IsOfClass, Bad
  <2>10. script[n].class = "good" => script[n].means = Command("DISCONNECT", << >>)
    <3> SUFFICES ASSUME script[n].class = "good"
                 PROVE  script[n].means = Command("DISCONNECT", << >>)
      OBVIOUS
    <3>1. Good(s, script[n].means)
      BY <2>1, <2>6 DEF IsOfClass
    <3>2. s[1] # "#"
      BY <2>5
    <3> QED
      BY <2>5, <2>6, <2>7, <3>1, <3>2, GoodIs
  <2>11. Meant(script, <<n, Command("DISCONNECT", << >>)>>)
    BY <1>1, <2>8, <2>9, <2>10 DEF Meant, Same
  <2>12. Stops(f, script, n, f[n + 1])
    BY <1>14, <2>8 DEF Stops
  <2> QED
    BY <1>2, <1>11, <1>12, <2>11, <2>12
<1> QED
  BY <1>13, <1>14

(* The client without its request pipe reads DISCONNECT and exits.         *)
LEMMA DisconnectedBefore ==
  ASSUME script \in Scripts, NEW f, TypedIn(f, script, text, pos, pc, cmd, line, log),
         NEW q, q \in Places(f, script), q >= pos, NEW l
  PROVE  TypedIn(f, script, text, q, "exited", "DISCONNECT", l, log)
<1>1. /\ Layout(script, f, text) /\ \E S : log \in Seq(S)
      /\ \A i \in DOMAIN log : Meant(script, log[i]) /\ f[log[i][1]] <= pos
  BY DEF TypedIn
<1>2. q \in Nat
  BY <1>1, PlacesInText
<1>3. pos \in Nat
  <2>1. CASE pc = "argument"
    <3>1. line \in 1..Len(script) /\ pos \in f[line]..(f[line + 1] - 1)
      BY <2>1 DEF TypedIn, On
    <3>2. pos \in 1..Len(text)
      BY <1>1, <3>1, NewlineOfLine
    <3> QED
      BY <3>2
  <2>2. CASE pc # "argument"
    BY <1>1, <2>2, PlacesInText DEF TypedIn
  <2> QED
    BY <2>1, <2>2
<1>4. \A i \in DOMAIN log : Meant(script, log[i]) /\ f[log[i][1]] <= q
  <2> SUFFICES ASSUME NEW i \in DOMAIN log
               PROVE  Meant(script, log[i]) /\ f[log[i][1]] <= q
    OBVIOUS
  <2>1. Meant(script, log[i]) /\ f[log[i][1]] <= pos
    BY <1>1
  <2>2. PICK j : j = log[i][1]
    OBVIOUS
  <2>3. j \in 1..Len(script) /\ Len(script) \in Nat
    BY <1>1, <2>1, <2>2 DEF Meant, Layout
  <2>4. j \in 1..(Len(script) + 1)
    BY <2>3
  <2>5. f[j] \in Nat
    BY <1>1, <2>4, LineOrder
  <2>6. f[j] <= q
    BY <1>2, <1>3, <2>1, <2>2, <2>5
  <2> QED
    BY <2>1, <2>2, <2>6
<1> QED
  BY <1>1, <1>4 DEF TypedIn

-----------------------------------------------------------------------------
(* Every step keeps the order of the lines.                                *)
TypedInv ==
  /\ script \in Scripts
  /\ terminal => \E f : TypedIn(f, script, text, pos, pc, cmd, line, log)

(* It holds at first,                                                      *)
LEMMA TypedInit ==
  ASSUME Init
  PROVE  TypedInv
<1> USE DEF Init
<1>1. script \in Scripts /\ text = Ended(script)
  OBVIOUS
<1>2. PICK f : Layout(script, f, text)
  BY <1>1, ScriptLaid
<1>3. Len(script) \in Nat /\ f[1] = 1
  BY <1>2 DEF Layout
<1>4. 1 \in Places(f, script)
  <2>1. 1 \in 1..(Len(script) + 1)
    BY <1>3
  <2> QED
    BY <1>3, <2>1 DEF Places
<1>5. InOrder(f, script, 1, "next", 0, << >>)
  <2>1. BegunIn(<< >>) = {}
    BY DEF BegunIn
  <2>2. Followed(f, script, 1, "next", 0, << >>, 0)
    BY <1>3 DEF Followed
  <2> QED
    BY <2>1, <2>2 DEF InOrder
<1>6. << >> \in Seq({}) /\ DOMAIN << >> = {}
  OBVIOUS
<1>7. TypedIn(f, script, text, 1, "next", "none", 0, << >>)
  BY <1>2, <1>4, <1>5, <1>6 DEF TypedIn
<1> QED
  BY <1>1, <1>7 DEF TypedInv

TypedNow(f) == TypedIn(f, script, text, pos, pc, cmd, line, log)

(* and whatever main does on a terminal,                                   *)
LEMMA EndInOrder ==
  ASSUME NEW f, TypedNow(f), EndOfCommands
  PROVE  TypedIn(f, script, text, pos', pc', cmd', line', log')
<1> USE DEF EndOfCommands
<1>1. pc = "next" /\ AtEnd(pos) /\ cmd' = "EOC" /\ pc' \in {"answer", "exited"} /\ pos' = pos /\ line' = line /\ log' = log
  OBVIOUS
<1>2. Layout(script, f, text) /\ pos \in Places(f, script)
  BY <1>1 DEF TypedNow, TypedIn
<1>3. pos = f[Len(script) + 1]
  <2>1. Len(text) = f[Len(script) + 1] - 1 /\ Len(script) \in Nat /\ f \in [1..(Len(script) + 1) -> Nat \ {0}]
    BY <1>2 DEF Layout
  <2>2. pos \in 1..End /\ Len(text) \in Nat /\ End = Len(text) + 1 /\ pos >= End
    BY <1>1, <1>2, PlacesInText DEF AtEnd
  <2>3. pos = Len(text) + 1
    BY <2>2
  <2>4. PICK b : b = f[Len(script) + 1]
    OBVIOUS
  <2>5. Len(script) + 1 \in 1..(Len(script) + 1)
    BY <2>1
  <2>6. b \in Nat /\ Len(text) = b - 1
    BY <2>1, <2>4, <2>5
  <2> QED
    BY <2>2, <2>3, <2>4, <2>6
<1>4. PICK c, k : c = pc' /\ k = cmd'
  OBVIOUS
<1>5. TypedIn(f, script, text, pos, c, k, line, log)
  BY <1>1, <1>3, <1>4, TypedMoved DEF TypedNow
<1> QED
  BY <1>1, <1>4, <1>5

LEMMA AnswerInOrder ==
  ASSUME NEW f, TypedNow(f), pc = "answer", NEW disconnected, Answered(disconnected)
  PROVE  TypedIn(f, script, text, pos', pc', cmd', line', log')
<1>1. pc' \in {"ended", "next"} /\ cmd' = cmd /\ pos' = pos /\ line' = line /\ log' = log
  BY DEF Answered
<1>2. cmd = "EOC" => pos = f[Len(script) + 1]
  BY DEF TypedNow, TypedIn
<1>3. PICK c : c = pc'
  OBVIOUS
<1>4. TypedIn(f, script, text, pos, c, cmd, line, log)
  BY <1>1, <1>2, <1>3, TypedMoved DEF TypedNow
<1> QED
  BY <1>1, <1>3, <1>4

LEMMA NextInOrder ==
  ASSUME script \in Scripts, NEW f, TypedNow(f), NextCommand
  PROVE  TypedIn(f, script, text, pos', pc', cmd', line', log')
<1> USE DEF TypedNow
<1>1. pc = "next"
  BY DEF NextCommand
<1>2. PICK c \in CommandAt(pos) :
         /\ cmd' = c /\ line' = LineOf(pos)
         /\ pos' = Passed(pos, Len(Keyword[c]) + IF c = "DISCONNECT" THEN 1 ELSE 0)
         /\ IF c # "DISCONNECT" THEN pc' = "argument" /\ UNCHANGED log
            ELSE IF f_req THEN pc' = "answer" /\ Log(LineOf(pos), c, <<>>)
            ELSE pc' = "exited" /\ UNCHANGED log
  BY DEF NextCommand
<1>3. Layout(script, f, text) /\ pos \in Places(f, script)
  BY <1>1 DEF TypedIn
<1>4. c \in DOMAIN Keyword /\ Len(Keyword[c]) \in Nat /\ Len(Keyword[c]) # 0 /\ Matches(pos, Keyword[c])
  <2>1. c \in DOMAIN Keyword /\ Matches(pos, Keyword[c])
    BY DEF CommandAt
  <2>2. Len(Keyword[c]) \in 6..12
    BY <2>1, KeywordTyped
  <2> QED
    BY <2>1, <2>2
<1>5. ~AtEnd(pos)
  <2>1. pos \in 1..End /\ Len(text) \in Nat /\ End = Len(text) + 1
    BY <1>3, PlacesInText
  <2>2. pos + Len(Keyword[c]) <= End
    BY <1>4 DEF Matches
  <2> QED
    BY <1>4, <2>1, <2>2 DEF AtEnd
<1>6. CASE c # "DISCONNECT"
  <2>1. Len(Keyword[c]) + 0 = Len(Keyword[c])
    BY <1>4
  <2>2. pos' = Passed(pos, Len(Keyword[c])) /\ pc' = "argument" /\ cmd' = c /\ line' = LineOf(pos) /\ log' = log
    BY <1>2, <1>6, <2>1
  <2>3. TypedIn(f, script, text, Passed(pos, Len(Keyword[c])), "argument", c, LineOf(pos), log)
    BY <1>1, <1>5, <1>6, CommandBegun
  <2> QED
    BY <2>2, <2>3
<1>7. CASE c = "DISCONNECT"
  <2>1. PICK n : n = LineOf(pos)
    OBVIOUS
  <2>2. On(f, script, pos, pc, cmd, n)
    BY <1>1, <1>3, <1>5, <2>1, PlaceOnLine
  <2>3. PICK w, q : w = Command("DISCONNECT", << >>) /\ q = f[n + 1]
    OBVIOUS
  <2>4. /\ Meant(script, <<n, w>>) /\ Passed(pos, Len(Keyword["DISCONNECT"]) + 1) = q
        /\ Stops(f, script, n, q) /\ q >= pos /\ q \in Nat /\ q \in Places(f, script)
    BY <1>1, <1>3, <1>5, <1>7, <2>2, <2>3, LineOfDisconnect
  <2>5. pos' = q /\ cmd' = "DISCONNECT" /\ line' = n
    BY <1>2, <1>7, <2>1, <2>4
  <2>6. CASE f_req
    <3>1. pc' = "answer" /\ log' = Append(log, <<n, w>>)
      BY <1>2, <1>7, <2>1, <2>3, <2>6 DEF Log
    <3>2. TypedIn(f, script, text, q, "answer", "DISCONNECT", n, Append(log, <<n, w>>))
      BY <1>1, <2>2, <2>4, LineLogged
    <3> QED
      BY <2>5, <3>1, <3>2
  <2>7. CASE ~f_req
    <3>1. pc' = "exited" /\ log' = log
      BY <1>2, <1>7, <2>7
    <3>2. TypedIn(f, script, text, q, "exited", "DISCONNECT", n, log)
      BY <2>4, DisconnectedBefore
    <3> QED
      BY <2>5, <3>1, <3>2
  <2> QED
    BY <2>6, <2>7
<1> QED
  BY <1>6, <1>7

LEMMA NoCommandInOrder ==
  ASSUME script \in Scripts, NEW f, TypedNow(f), terminal, NoCommand
  PROVE  TypedIn(f, script, text, pos', pc', cmd', line', log')
<1> USE DEF TypedNow
<1>1. /\ pc = "next" /\ ~AtEnd(pos) /\ CommandAt(pos) = {} /\ pc' = pc /\ cmd' = cmd /\ line' = line
  BY DEF NoCommand
<1>2. Layout(script, f, text) /\ pos \in Places(f, script) /\ (cmd = "EOC" => pos = f[Len(script) + 1])
  BY <1>1 DEF TypedIn
<1>3. PICK n, w, q : /\ n = LineOf(pos)
                     /\ w = Command(IF text[pos] \in {"#", Newline} THEN "skipped" ELSE "rejected", << >>)
                     /\ q = IF text[pos] = Newline THEN pos + 1 ELSE cleanup(NoCommandEnd(pos))
  OBVIOUS
<1>4. On(f, script, pos, pc, cmd, n)
  BY <1>1, <1>2, <1>3, PlaceOnLine
<1>5. pos' = q /\ log' = Append(log, <<n, w>>)
  BY <1>3 DEF NoCommand, Log
<1>6. Meant(script, <<n, w>>) /\ Stops(f, script, n, q) /\ q >= pos /\ q \in Nat
  BY <1>1, <1>2, <1>3, <1>4, LineWithoutCommand
<1>7. cmd # "EOC"
  <2>1. SUFFICES ASSUME cmd = "EOC"
                 PROVE  FALSE
    OBVIOUS
  <2>2. pos = f[Len(script) + 1] /\ Len(script) \in Nat
    BY <1>2, <2>1 DEF Layout
  <2>3. PICK j : j = Len(script) + 1
    OBVIOUS
  <2>4. j \in 1..(Len(script) + 1)
    BY <2>2, <2>3
  <2>5. f[j] = Len(text) + 1 /\ Len(text) \in Nat
    BY <1>2, <2>3, <2>4, LayoutOrder
  <2>6. pos \in 1..Len(text)
    BY <1>1, <1>2, PlaceOnLine
  <2>7. pos = Len(text) + 1
    BY <2>2, <2>3, <2>5
  <2> QED
    BY <2>5, <2>6, <2>7
<1>8. TypedIn(f, script, text, q, "next", cmd, line, Append(log, <<n, w>>))
  BY <1>1, <1>4, <1>6, <1>7, LineLogged
<1> QED
  BY <1>1, <1>5, <1>8

(* What happens with an argument: the line, and what is to be shown of the *)
(* entry that the log gets.                                                *)
LEMMA ArgumentInOrder ==
  ASSUME script \in Scripts, NEW f, TypedNow(f), pc = "argument",
         NEW w, Meant(script, <<line, w>>), NEW q, Stops(f, script, line, q), q >= pos, q \in Nat,
         NEW c, c # "argument"
  PROVE  TypedIn(f, script, text, q, c, cmd, line, Append(log, <<line, w>>))
<1>1. On(f, script, pos, pc, cmd, line) /\ cmd # "EOC"
  BY DEF TypedNow, TypedIn
<1>2. TypedIn(f, script, text, pos, pc, cmd, line, log)
  BY DEF TypedNow
<1>3. PICK n : n = line
  OBVIOUS
<1>4. TypedIn(f, script, text, q, c, cmd, n, Append(log, <<n, w>>))
  BY <1>1, <1>2, <1>3, LineLogged
<1> QED
  BY <1>3, <1>4

LEMMA SubscribeInOrder ==
  ASSUME script \in Scripts, NEW f, TypedNow(f), terminal, Subscribe
  PROVE  TypedIn(f, script, text, pos', pc', cmd', line', log')
<1>1. pc = "argument" /\ cmd = "SUBSCRIBE" /\ cmd' = cmd /\ line' = line
  BY DEF Subscribe
<1>2. Layout(script, f, text) /\ On(f, script, pos, pc, cmd, line)
  BY <1>1 DEF TypedNow, TypedIn
<1>3. PICK n, q, u : n = line /\ q = ReadEnd(pos, MAX_STRING_SIZE - 1) /\ u = KeyChunk(pos)
  OBVIOUS
<1>4. /\ n \in 1..Len(script) /\ Stops(f, script, n, q) /\ q >= pos /\ q \in Nat
      /\ script[n].class = "good" =>
           \E k : script[n].means = Command(cmd, <<k>>) /\ HasKey(u) /\ KeyIn(u) = k /\ k # Overlong
      /\ script[n].class = "bad" => cmd = "SUBSCRIBE" /\ ~HasKey(u) /\ script[n].means = Rejected
      /\ script[n].class # "greedy"
  BY <1>1, <1>2, <1>3, LineWithKey
<1>5. PICK w : w = IF HasKey(u) THEN Command("SUBSCRIBE", <<KeyIn(u)>>) ELSE Rejected
  OBVIOUS
<1>6. pos' = q /\ pc' # "argument" /\ log' = Append(log, <<n, w>>)
  <2>1. CASE HasKey(u)
    BY <1>1, <1>3, <1>5, <2>1 DEF Subscribe, Request, Log
  <2>2. CASE ~HasKey(u)
    BY <1>1, <1>3, <1>5, <2>2 DEF Subscribe, Log, Rejected
  <2> QED
    BY <2>1, <2>2
<1>7. Meant(script, <<n, w>>)
  <2>1. script[n].class = "good" => Same(w, script[n].means)
    BY <1>1, <1>4, <1>5 DEF Same, Command
  <2>2. script[n].class = "bad" => Same(w, script[n].means)
    BY <1>4, <1>5 DEF Same
  <2>3. <<n, w>>[1] = n /\ <<n, w>>[2] = w
    OBVIOUS
  <2> QED
    BY <1>4, <2>1, <2>2, <2>3 DEF Meant
<1>8. PICK c : c = pc'
  OBVIOUS
<1>9. TypedIn(f, script, text, q, c, cmd, line, Append(log, <<line, w>>))
  BY <1>1, <1>3, <1>4, <1>6, <1>7, <1>8, ArgumentInOrder
<1> QED
  BY <1>1, <1>3, <1>6, <1>8, <1>9

LEMMA UnsubscribeInOrder ==
  ASSUME script \in Scripts, NEW f, TypedNow(f), terminal, Unsubscribe
  PROVE  TypedIn(f, script, text, pos', pc', cmd', line', log')
<1>1. pc = "argument" /\ cmd = "UNSUBSCRIBE" /\ cmd' = cmd /\ line' = line
  BY DEF Unsubscribe
<1>2. Layout(script, f, text) /\ On(f, script, pos, pc, cmd, line)
  BY <1>1 DEF TypedNow, TypedIn
<1>3. PICK n, q, u : n = line /\ q = ReadEnd(pos, MAX_STRING_SIZE - 1) /\ u = KeyChunk(pos)
  OBVIOUS
<1>4. /\ n \in 1..Len(script) /\ Stops(f, script, n, q) /\ q >= pos /\ q \in Nat
      /\ script[n].class = "good" =>
           \E k : script[n].means = Command(cmd, <<k>>) /\ HasKey(u) /\ KeyIn(u) = k /\ k # Overlong
      /\ script[n].class = "bad" => cmd = "SUBSCRIBE" /\ ~HasKey(u) /\ script[n].means = Rejected
      /\ script[n].class # "greedy"
  BY <1>1, <1>2, <1>3, LineWithKey
<1>5. PICK v : v = key'
  OBVIOUS
<1>6. PICK w : w = IF v = Overlong THEN Rejected ELSE Command("UNSUBSCRIBE", <<v>>)
  OBVIOUS
<1>7. pos' = q /\ pc' # "argument" /\ log' = Append(log, <<n, w>>)
  <2>1. CASE v = Overlong
    BY <1>1, <1>3, <1>5, <1>6, <2>1 DEF Unsubscribe, Log, Rejected
  <2>2. CASE v # Overlong
    BY <1>1, <1>3, <1>5, <1>6, <2>2 DEF Unsubscribe, Request, Log
  <2> QED
    BY <2>1, <2>2
<1>8. HasKey(u) => v = KeyIn(u)
  BY <1>3, <1>5 DEF Unsubscribe
<1>9. Meant(script, <<n, w>>)
  <2>1. script[n].class = "good" => Same(w, script[n].means)
    BY <1>1, <1>4, <1>6, <1>8 DEF Same, Command
  <2>2. script[n].class # "bad"
    BY <1>1, <1>4
  <2>3. <<n, w>>[1] = n /\ <<n, w>>[2] = w
    OBVIOUS
  <2> QED
    BY <1>4, <2>1, <2>2, <2>3 DEF Meant
<1>10. PICK c : c = pc'
  OBVIOUS
<1>11. TypedIn(f, script, text, q, c, cmd, line, Append(log, <<line, w>>))
  BY <1>1, <1>3, <1>4, <1>7, <1>9, <1>10, ArgumentInOrder
<1> QED
  BY <1>1, <1>3, <1>7, <1>10, <1>11

LEMMA DelayInOrder ==
  ASSUME script \in Scripts, NEW f, TypedNow(f), terminal, Delay
  PROVE  TypedIn(f, script, text, pos', pc', cmd', line', log')
<1>1. pc = "argument" /\ cmd = "DELAY" /\ cmd' = cmd /\ line' = line /\ pc' = "next"
  BY DEF Delay
<1>2. Layout(script, f, text) /\ On(f, script, pos, pc, cmd, line)
  BY <1>1 DEF TypedNow, TypedIn
<1>3. PICK n, after : n = line /\ after = Passed(read_uint(pos).stop, 1)
  OBVIOUS
<1>4. PICK v \in read_uint(pos).numbers :
        IF v > UINT_MAX THEN pos' = cleanup(after) /\ Log(line, "rejected", <<>>)
                        ELSE pos' = after /\ Log(line, cmd, <<Decimal(v)>>)
  BY <1>3 DEF Delay
<1>5. PICK q, w : /\ q = IF v > UINT_MAX THEN cleanup(after) ELSE after
                  /\ w = IF v > UINT_MAX THEN Command("rejected", << >>) ELSE Command(cmd, <<Decimal(v)>>)
  OBVIOUS
<1>6. pos' = q /\ log' = Append(log, <<n, w>>)
  BY <1>3, <1>4, <1>5 DEF Log
<1>7. Meant(script, <<n, w>>) /\ Stops(f, script, n, q) /\ q >= pos /\ q \in Nat
  BY <1>1, <1>2, <1>3, <1>5, LineWithDelay
<1>8. TypedIn(f, script, text, q, "next", cmd, line, Append(log, <<line, w>>))
  BY <1>1, <1>3, <1>7, ArgumentInOrder
<1> QED
  BY <1>1, <1>3, <1>6, <1>8

LEMMA TypedStep ==
  ASSUME TypedInv, [Next]_vars
  PROVE  TypedInv'
<1>1. script' = script /\ terminal' = terminal /\ text' = text
  BY DEF Next, vars, inputVars
<1>2. script' \in Scripts
  BY <1>1 DEF TypedInv
<1>3. SUFFICES ASSUME terminal
               PROVE  \E f : TypedIn(f, script, text, pos', pc', cmd', line', log')
  BY <1>1, <1>2 DEF TypedInv
<1>4. script \in Scripts
  BY DEF TypedInv
<1>5. PICK f : TypedNow(f)
  BY <1>3 DEF TypedInv, TypedNow
<1> SUFFICES TypedIn(f, script, text, pos', pc', cmd', line', log')
  OBVIOUS
<1>6. CASE EndOfCommands
  BY <1>5, <1>6, EndInOrder
<1>7. CASE NextCommand
  BY <1>4, <1>5, <1>7, NextInOrder
<1>8. CASE NoCommand
  BY <1>3, <1>4, <1>5, <1>8, NoCommandInOrder
<1>9. CASE Subscribe
  BY <1>3, <1>4, <1>5, <1>9, SubscribeInOrder
<1>10. CASE Unsubscribe
  BY <1>3, <1>4, <1>5, <1>10, UnsubscribeInOrder
<1>11. CASE Delay
  BY <1>3, <1>4, <1>5, <1>11, DelayInOrder
<1>12. CASE Serve
  <2>1. pc = "answer" /\ (Answered(TRUE) \/ Answered(FALSE))
    BY <1>12 DEF Serve
  <2> QED
    BY <1>5, <2>1, AnswerInOrder
<1>13. CASE NoAnswer
  <2>1. pc = "answer" /\ Answered(FALSE)
    BY <1>13 DEF NoAnswer
  <2> QED
    BY <1>5, <2>1, AnswerInOrder
<1>14. CASE UNCHANGED mainVars
  BY <1>5, <1>14 DEF TypedNow, mainVars
<1>15. \/ Main \/ Serve \/ NoAnswer \/ UNCHANGED mainVars
  BY DEF Next, HangUp, vars
<1> QED
  BY <1>6, <1>7, <1>8, <1>9, <1>10, <1>11, <1>12, <1>13, <1>14, <1>15 DEF Main

LEMMA DoneAsMeant ==
  ASSUME TypedInv
  PROVE  TypedIsDone
<1> SUFFICES ASSUME NEW i \in DOMAIN log, terminal, script[log[i][1]].class \in {"good", "bad", "greedy"}
             PROVE  Same(log[i][2], script[log[i][1]].means)
  BY DEF TypedIsDone
<1>1. PICK f : TypedIn(f, script, text, pos, pc, cmd, line, log)
  BY DEF TypedInv
<1>2. Meant(script, log[i])
  BY <1>1 DEF TypedIn
<1> QED
  BY <1>2 DEF Meant

LEMMA TakenInOrder ==
  ASSUME TypedInv
  PROVE  TypedIsTaken
<1> SUFFICES ASSUME cmd = "EOC", terminal, NEW n \in DOMAIN script
             PROVE  \/ n > 1 /\ n - 1 \notin Begun
                    \/ n > 1 /\ script[n - 1].class = "other"
                    \/ n \in Begun <=> n = 1 \/ script[n - 1].class # "greedy"
  BY DEF TypedIsTaken
<1>1. PICK f : TypedIn(f, script, text, pos, pc, cmd, line, log)
  BY DEF TypedInv
<1>2. PICK N : N = Len(script)
  OBVIOUS
<1>3. pos = f[N + 1] /\ pc # "argument" /\ Layout(script, f, text) /\ InOrder(f, script, pos, pc, line, log)
  BY <1>1, <1>2 DEF TypedIn
<1>4. n \in 1..N /\ N \in Nat
  <2>1. script \in Seq(ToSet(script))
    BY LinesAssumption DEF TypedInv
  <2> QED
    BY <1>2, <2>1, LenProperties
<1>5. Begun = BegunIn(log)
  BY DEF Begun, BegunIn
<1>6. PICK m : m = n - 1
  OBVIOUS
<1>7. m \in 0..N /\ m + 1 = n /\ (m = 0 <=> n = 1) /\ (n > 1 <=> m # 0) /\ n \in 1..(N + 1) /\ N + 1 \in 1..(N + 1) /\ n # N + 1
  BY <1>4, <1>6
<1>8. pos # f[n]
  BY <1>2, <1>3, <1>7, LineOrder
<1>9. SUFFICES ASSUME m = 0 \/ (m \in Begun /\ script[m].class # "other")
               PROVE  n \in Begun <=> m = 0 \/ script[m].class # "greedy"
  BY <1>6, <1>7
<1>10. Followed(f, script, pos, pc, line, log, m)
  BY <1>2, <1>3, <1>5, <1>7, <1>9 DEF InOrder
<1> QED
  BY <1>3, <1>5, <1>7, <1>8, <1>10 DEF Followed

(* As in TypedIsDone, for any input whose lines are of their classes.      *)
THEOREM TypedDone == Spec => []TypedIsDone
<1>1. Init => TypedInv
  BY TypedInit
<1>2. TypedInv /\ [Next]_vars => TypedInv'
  BY TypedStep
<1>3. TypedInv => TypedIsDone
  BY DoneAsMeant
<1> QED
  BY <1>1, <1>2, <1>3, PTL DEF Spec

(* As in TypedIsTaken, for any input whose lines are of their classes.     *)
THEOREM TypedTaken == Spec => []TypedIsTaken
<1>1. Init => TypedInv
  BY TypedInit
<1>2. TypedInv /\ [Next]_vars => TypedInv'
  BY TypedStep
<1>3. TypedInv => TypedIsTaken
  BY TakenInOrder
<1> QED
  BY <1>1, <1>2, <1>3, PTL DEF Spec
=============================================================================

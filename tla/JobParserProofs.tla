-------------------------- MODULE JobParserProofs --------------------------
(***************************************************************************)
(* Proofs about JobParser, for any job file: where the calls of get_next   *)
(* begin (ParserInv), and from this and the lines' classes what becomes of *)
(* each of them (LinesInv).                                                *)
(***************************************************************************)
EXTENDS JobParser, FiniteSetTheorems, SequenceTheorems, WellFoundedInduction, TLAPS

-----------------------------------------------------------------------------
(* What the library's theorems do not say of Min, Max (FiniteSetsExt) and   *)
(* FlattenSeq (SequencesExt).  The smallest number for which something     *)
(* fails takes the place of induction.                                     *)

(* Min chooses an element that no other is below. *)
LEMMA MinimumExists ==
  ASSUME NEW I \in SUBSET Nat, I # {}
  PROVE  Min(I) \in I /\ \A i \in I : Min(I) <= i
<1>1. PICK x \in I : \A y \in I : ~(<<y, x>> \in OpToRel(<, Nat))
  BY NatLessThanWellFounded, WFMin, Zenon
<1>2. ASSUME NEW y \in I
      PROVE  x <= y
  <2>1. y < x => <<y, x>> \in OpToRel(<, Nat)
    BY DEF OpToRel
  <2>2. ~(y < x)
    BY <1>1, <2>1, Zenon
  <2> QED
    BY <2>2
<1> QED
  BY <1>1, <1>2 DEF Min

(* Max chooses one that no other is above, if there is a bound. *)
LEMMA MaximumExists ==
  ASSUME NEW n \in Nat, NEW I \in SUBSET (0 .. n), I # {}
  PROVE  Max(I) \in I /\ \A i \in I : i <= Max(I)
<1> DEFINE J == {n - i : i \in I}
<1>1. J \in SUBSET Nat /\ J # {}
  OBVIOUS
<1>2. Min(J) \in J /\ \A j \in J : Min(J) <= j
  BY <1>1, MinimumExists
<1>3. PICK x \in I : Min(J) = n - x
  BY <1>2
<1>4. \A i \in I : n - x <= n - i
  BY <1>2, <1>3
<1>5. \A i \in I : i <= x
  BY <1>4
<1> QED
  BY <1>5 DEF Max

(* What fails somewhere among 1 .. n fails at a first place. *)
LEMMA FirstFailure ==
  ASSUME NEW n \in Nat, NEW Holding, ~(1 .. n \subseteq Holding)
  PROVE  \E k \in 1 .. n : k \notin Holding /\ 1 .. k - 1 \subseteq Holding
<1> DEFINE I == {k \in 1 .. n : k \notin Holding}
<1>1. I \in SUBSET Nat /\ I # {}
  OBVIOUS
<1>2. Min(I) \in I /\ \A i \in I : Min(I) <= i
  BY <1>1, MinimumExists
<1> QED
  BY <1>2

(* FlattenSeq appends one sequence after the other. *)
FlattensTo(seqs, f, n) ==
  f = [i \in 1 .. n |-> IF i = 1 THEN seqs[i] ELSE f[i - 1] \o seqs[i]]

LEMMA FlattenSteps ==
  ASSUME NEW seqs, Len(seqs) \in Nat \ {0}
  PROVE  \E f : FlattensTo(seqs, f, Len(seqs)) /\ FlattenSeq(seqs) = f[Len(seqs)]
<1> DEFINE n == Len(seqs)
           Holding == {k \in 1 .. n : \E f : FlattensTo(seqs, f, k)}
<1>1. 1 .. n \subseteq Holding
  <2> SUFFICES ASSUME ~(1 .. n \subseteq Holding)
               PROVE  FALSE
    OBVIOUS
  <2>1. PICK k \in 1 .. n : k \notin Holding /\ 1 .. k - 1 \subseteq Holding
    <3> HIDE DEF Holding
    <3> QED
      BY FirstFailure
  <2>2. CASE k = 1
    <3> DEFINE f == [i \in 1 .. 1 |-> seqs[i]]
    <3>1. f = [i \in 1 .. 1 |-> IF i = 1 THEN seqs[i] ELSE f[i - 1] \o seqs[i]]
      OBVIOUS
    <3> QED
      BY <2>1, <2>2, <3>1 DEF FlattensTo
  <2>3. CASE k # 1
    <3>1. k - 1 \in 1 .. k - 1
      BY <2>3
    <3>2. PICK g : FlattensTo(seqs, g, k - 1)
      BY <2>1, <3>1
    <3> DEFINE f == [i \in 1 .. k |-> IF i < k THEN g[i] ELSE g[k - 1] \o seqs[k]]
    <3>3. ASSUME NEW i \in 1 .. k
          PROVE  f[i] = IF i = 1 THEN seqs[i] ELSE f[i - 1] \o seqs[i]
      <4>1. CASE i = k
        <5>1. k - 1 \in 1 .. k /\ k - 1 < k /\ k \in 1 .. k /\ ~(k < k)
          BY <2>3
        <5>2. f[k - 1] = g[k - 1] /\ f[k] = g[k - 1] \o seqs[k]
          BY <5>1
        <5> HIDE DEF f
        <5> QED
          BY <2>3, <4>1, <5>2
      <4>2. CASE i # k
        <5>1. i \in 1 .. k - 1 /\ i < k /\ (i # 1 => i - 1 \in 1 .. k - 1 /\ i - 1 < k)
          BY <4>2
        <5>2. g[i] = IF i = 1 THEN seqs[i] ELSE g[i - 1] \o seqs[i]
          BY <3>2, <5>1 DEF FlattensTo
        <5> QED
          BY <5>1, <5>2
      <4> QED
        BY <4>1, <4>2
    <3>4. f = [i \in 1 .. k |-> IF i = 1 THEN seqs[i] ELSE f[i - 1] \o seqs[i]]
      <4> DEFINE h == [i \in 1 .. k |-> IF i = 1 THEN seqs[i] ELSE f[i - 1] \o seqs[i]]
      <4>1. \A i \in 1 .. k : f[i] = h[i]
        BY <3>3
      <4>2. DOMAIN f = 1 .. k /\ DOMAIN h = 1 .. k
        OBVIOUS
      <4> QED
        BY <4>1
    <3> QED
      BY <2>1, <3>4 DEF FlattensTo
  <2> QED
    BY <2>2, <2>3
<1>2. PICK g : FlattensTo(seqs, g, n)
  <2>1. n \in 1 .. n
    OBVIOUS
  <2> QED
    BY <1>1, <2>1
<1> DEFINE flatten[i \in 1 .. Len(seqs)] == IF i = 1 THEN seqs[i] ELSE flatten[i - 1] \o seqs[i]
<1>3. FlattensTo(seqs, flatten, n)
  BY <1>2, Zenon DEF FlattensTo
<1>4. FlattenSeq(seqs) = flatten[Len(seqs)]
  BY Zenon DEF FlattenSeq
<1> HIDE DEF flatten
<1> QED
  BY <1>3, <1>4

-----------------------------------------------------------------------------
(* The text.                                                               *)
Character == STRING \cup {Newline}

(* The file as a text: it has at most as many newlines as lines, the last  *)
(* of which is its last character.                                         *)
TextOK ==
  /\ text \in Seq(Character) /\ Len(script) \in Nat \ {0}
  /\ Cardinality({i \in 1..(Len(text) - 1) : text[i] = Newline}) < Len(script)

LineStart(p) == p \in {1, End} \/ text[p - 1] = Newline

(* A command has been left for the beginning of a later line, or the end.  *)
LeftFor(from, p) == p \in 1..End /\ (p = End \/ (p > from /\ text[p - 1] = Newline))

Short(arguments) ==
  /\ Len(arguments) \in Nat
  /\ \A j \in 1..Len(arguments) : \A s \in ToSet(arguments[j]) : Len(s) < MAX_STRING_SIZE

(* Each call of get_next has begun on a line of its own.                   *)
CallsOK ==
  /\ \E S : log \in Seq(S)
  /\ pc \in {"open", "list"} => Len(log) < line /\ line <= LineOf(pos)
  /\ pc = "next" /\ pos # End => Len(log) < LineOf(pos)

ArgsOK ==
  /\ pc \in {"open", "list"} => \E S : args \in Seq(S)
  /\ pc = "open" => Len(args) = 0
  /\ pc = "list" => Short(args)

ParserInv == TextOK /\ TypeOK /\ AtLineStart /\ CallsOK /\ ArgsOK
-----------------------------------------------------------------------------
(* Reading.                                                                *)
LEMMA SeekEnds ==
  ASSUME text \in Seq(Character), NEW p \in 1..End, NEW chars
  PROVE  /\ Seek(p, chars) \in p..End
         /\ Seek(p, chars) # End => Seek(p, chars) \in 1..Len(text) /\ text[Seek(p, chars)] \in chars
<1> DEFINE I == {i \in p..Len(text) : text[i] \in chars} \cup {End}
<1>1. Len(text) \in Nat /\ End = Len(text) + 1
  BY DEF End
<1>2. I \in SUBSET Nat /\ I # {}
  BY <1>1
<1>3. Min(I) \in I /\ \A i \in I : Min(I) <= i
  BY <1>2, MinimumExists
<1> QED
  BY <1>1, <1>3 DEF Seek

LEMMA PassedIs ==
  ASSUME text \in Seq(Character), NEW p \in 1..End, NEW n \in Nat
  PROVE  /\ Passed(p, n) \in p..End
         /\ Passed(p, n) = IF p + n <= End THEN p + n ELSE End
<1> DEFINE I == {p + n, End}
<1>1. Len(text) \in Nat /\ End = Len(text) + 1
  BY DEF End
<1>2. I \in SUBSET Nat /\ I # {}
  BY <1>1
<1>3. Min(I) \in I /\ \A i \in I : Min(I) <= i
  BY <1>2, MinimumExists
<1> QED
  BY <1>1, <1>3 DEF Passed

LEMMA CleanupLeaves ==
  ASSUME text \in Seq(Character), NEW p \in 1..End
  PROVE  cleanup(p) \in p..End /\ LeftFor(p, cleanup(p))
<1> DEFINE s == Seek(p, {Newline})
<1>1. Len(text) \in Nat /\ End = Len(text) + 1
  BY DEF End
<1>2. s \in p..End /\ (s # End => s \in 1..Len(text) /\ text[s] = Newline)
  BY SeekEnds
<1> HIDE DEF s
<1>3. cleanup(p) = IF s + 1 <= End THEN s + 1 ELSE End
  <2>1. s \in 1..End /\ 1 \in Nat
    BY <1>1, <1>2
  <2>2. Passed(s, 1) = IF s + 1 <= End THEN s + 1 ELSE End
    BY <2>1, PassedIs
  <2> QED
    BY <2>2 DEF cleanup, s
<1> QED
  BY <1>1, <1>2, <1>3 DEF LeftFor

LEMMA LeftLater ==
  ASSUME text \in Seq(Character), NEW p \in 1..End, NEW q \in p..End, NEW r, LeftFor(q, r)
  PROVE  LeftFor(p, r)
<1>1. Len(text) \in Nat /\ End = Len(text) + 1
  BY DEF End
<1> QED
  BY <1>1 DEF LeftFor

LEMMA ReadStringEnds ==
  ASSUME text \in Seq(Character), NEW p \in 1..End
  PROVE  /\ read_string(p).next \in p..End
         /\ Len(read_string(p).str) < MAX_STRING_SIZE
         /\ read_string(p).at # "none" => read_string(p).next > p
<1> DEFINE s == Seek(p, {" ", ",", ")", "]"})
           m == Min({s, p + MAX_STRING_SIZE - 1})
<1>1. /\ Len(text) \in Nat /\ End = Len(text) + 1 /\ MAX_STRING_SIZE \in Nat \ {0}
  BY ParserAssumption DEF End
<1>2. s \in p..End /\ (s # End => s \in 1..Len(text))
  BY SeekEnds
<1> HIDE DEF s
<1>3. m \in {s, p + MAX_STRING_SIZE - 1} /\ m <= s /\ m >= p
  <2> DEFINE I == {s, p + MAX_STRING_SIZE - 1}
  <2>1. I \in SUBSET Nat /\ I # {}
    BY <1>1, <1>2
  <2>2. Min(I) \in I /\ \A i \in I : Min(I) <= i
    BY <2>1, MinimumExists
  <2> QED
    BY <1>1, <1>2, <2>2
<1> HIDE DEF m
<1>4. m \in 1..End /\ Passed(m, 1) \in m..End
  <2>1. m \in 1..End /\ 1 \in Nat
    BY <1>1, <1>2, <1>3
  <2>2. Passed(m, 1) \in m..End
    BY <2>1, PassedIs
  <2> QED
    BY <2>1, <2>2
<1>5. CASE s >= p + MAX_STRING_SIZE \/ AtEnd(s) \/ IsChar(s, {" "})
  <2>1. read_string(p) = [at |-> "none", str |-> <<>>, next |-> Passed(m, 1)]
    BY <1>5 DEF read_string, s, m
  <2> QED
    BY <1>1, <1>2, <1>3, <1>4, <2>1
<1>6. CASE ~(s >= p + MAX_STRING_SIZE \/ AtEnd(s) \/ IsChar(s, {" "}))
  <2>1. read_string(p) = [at |-> text[s], str |-> SubSeq(text, p, s - 1), next |-> s + 1]
    BY <1>6 DEF read_string, s
  <2>2. s < p + MAX_STRING_SIZE /\ s < End
    <3>1. s \in Nat /\ p \in Nat /\ s <= End
      BY <1>1, <1>2
    <3>2. ~(s >= p + MAX_STRING_SIZE) /\ s # End
      BY <1>1, <1>6, <3>1 DEF AtEnd
    <3> QED
      BY <1>1, <3>1, <3>2
  <2>3. Len(SubSeq(text, p, s - 1)) = s - p
    <3>1. p \in Nat /\ s - 1 \in Int /\ p <= s - 1 + 1
      BY <1>1, <1>2
    <3>2. s - 1 <= Len(text) /\ 1 <= p
      BY <1>1, <1>2, <2>2
    <3> QED
      BY <3>1, <3>2, <1>1, <1>2, SubSeqProperties
  <2> QED
    BY <1>1, <1>2, <2>1, <2>2, <2>3
<1> QED
  BY <1>5, <1>6

LEMMA ReadUintEnds ==
  ASSUME text \in Seq(Character), NEW p \in 1..End
  PROVE  read_uint(p).stop \in p..End
<1> DEFINE I == {i \in p..Len(text) : text[i] \notin Digits} \cup {End}
<1>1. Len(text) \in Nat /\ End = Len(text) + 1
  BY DEF End
<1>2. I \in SUBSET Nat /\ I # {}
  BY <1>1
<1>3. Min(I) \in I /\ \A i \in I : Min(I) <= i
  BY <1>2, MinimumExists
<1>4. read_uint(p).stop = Min(I)
  BY DEF read_uint
<1> QED
  BY <1>1, <1>3, <1>4

LEMMA KeywordLengths ==
  /\ DOMAIN Keyword = {"WRITE", "READ", "DELETE", "WAIT", "SHOW", "HELP", "BACKUP"}
  /\ \A c \in DOMAIN Keyword : Len(Keyword[c]) \in 1..7
<1>1. DOMAIN Keyword = {"WRITE", "READ", "DELETE", "WAIT", "SHOW", "HELP", "BACKUP"}
  BY DEF Keyword
<1>2. /\ Len(Keyword["WRITE"]) = 6 /\ Len(Keyword["READ"]) = 5 /\ Len(Keyword["DELETE"]) = 7
      /\ Len(Keyword["WAIT"]) = 5 /\ Len(Keyword["SHOW"]) = 4 /\ Len(Keyword["HELP"]) = 4
      /\ Len(Keyword["BACKUP"]) = 6
  BY DEF Keyword
<1> QED
  BY <1>1, <1>2

LEMMA ReadSizeIs == \A first : ReadSize(first) \in Nat
<1> TAKE first
<1> DEFINE I == {1} \cup {Len(Keyword[c]) : c \in {d \in DOMAIN Keyword : Keyword[d][1] = first}}
<1>1. I \in SUBSET (0..7) /\ I # {} /\ 7 \in Nat
  <2>1. \A c \in DOMAIN Keyword : Len(Keyword[c]) \in 0..7
    <3>1. 1..7 \subseteq 0..7
      OBVIOUS
    <3> QED
      BY <3>1, KeywordLengths
  <2>2. 1 \in 0..7
    OBVIOUS
  <2> QED
    BY <2>1, <2>2
<1>2. Max(I) \in I
  <2> HIDE DEF I
  <2> QED
    BY <1>1, MaximumExists
<1> QED
  BY <1>1, <1>2 DEF ReadSize
-----------------------------------------------------------------------------
(* Lines.                                                                  *)
LEMMA LinesGrow ==
  ASSUME text \in Seq(Character), NEW p \in 1..End, NEW q \in p..End
  PROVE  /\ LineOf(p) \in Nat /\ LineOf(q) \in Nat /\ LineOf(p) >= 1
         /\ LineOf(p) <= LineOf(q)
         /\ q > p /\ text[q - 1] = Newline => LineOf(p) < LineOf(q)
<1> DEFINE L(r) == {i \in 1..(r - 1) : text[i] = Newline}
<1>1. Len(text) \in Nat /\ End = Len(text) + 1
  BY DEF End
<1>2. p - 1 \in Int /\ q - 1 \in Int /\ L(p) \subseteq L(q)
  BY <1>1
<1>3. IsFiniteSet(L(q)) /\ IsFiniteSet(L(p))
  <2>1. IsFiniteSet(1..(q - 1))
    BY <1>2, FS_Interval
  <2>2. L(q) \subseteq 1..(q - 1)
    OBVIOUS
  <2> QED
    BY <1>2, <2>1, <2>2, FS_Subset
<1>4. Cardinality(L(p)) \in Nat /\ Cardinality(L(q)) \in Nat /\ Cardinality(L(p)) <= Cardinality(L(q))
  BY <1>2, <1>3, FS_Subset, FS_CardinalityType
<1>5. LineOf(p) = 1 + Cardinality(L(p)) /\ LineOf(q) = 1 + Cardinality(L(q))
  BY DEF LineOf
<1>6. ASSUME q > p, text[q - 1] = Newline
      PROVE  Cardinality(L(p)) < Cardinality(L(q))
  <2>1. q - 1 \in L(q) /\ q - 1 \notin L(p)
    BY <1>1, <1>6
  <2>2. L(p) # L(q)
    BY <2>1
  <2>3. Cardinality(L(p)) # Cardinality(L(q))
    <3> HIDE DEF L
    <3> QED
      BY <1>2, <1>3, <2>2, FS_Subset
  <2> QED
    BY <1>4, <2>3
<1> HIDE DEF L
<1> QED
  BY <1>4, <1>5, <1>6

LEMMA LinesEnough ==
  ASSUME TextOK, NEW p \in 1..End, p # End
  PROVE  LineOf(p) <= Len(script)
<1> DEFINE L(r) == {i \in 1..(r - 1) : text[i] = Newline}
<1>1. Len(text) \in Nat /\ End = Len(text) + 1 /\ p \in 1..Len(text)
  BY DEF End, TextOK
<1>2. L(p) \subseteq L(Len(text)) /\ p - 1 \in Int /\ Len(text) - 1 \in Int
  BY <1>1
<1>3. IsFiniteSet(L(Len(text)))
  <2>1. IsFiniteSet(1..(Len(text) - 1))
    BY <1>1, FS_Interval
  <2>2. L(Len(text)) \subseteq 1..(Len(text) - 1)
    OBVIOUS
  <2> QED
    BY <2>1, <2>2, FS_Subset
<1>4. /\ Cardinality(L(p)) \in Nat /\ Cardinality(L(Len(text))) \in Nat
      /\ Cardinality(L(p)) <= Cardinality(L(Len(text)))
  BY <1>2, <1>3, FS_Subset, FS_CardinalityType
<1>5. LineOf(p) = 1 + Cardinality(L(p)) /\ Cardinality(L(Len(text))) < Len(script)
      /\ Len(script) \in Nat
  BY DEF LineOf, TextOK
<1> HIDE DEF L
<1> QED
  BY <1>4, <1>5

LEMMA FunctionIsSeq ==
  ASSUME NEW S, NEW n \in Nat, NEW f \in [1..n -> S]
  PROVE  f \in Seq(S) /\ Len(f) = n
<1>1. f \in Seq(S)
  BY SeqDef
<1>2. Len(f) \in Nat /\ DOMAIN f = 1..Len(f) /\ DOMAIN f = 1..n
  BY <1>1, LenProperties
<1> QED
  BY <1>1, <1>2

(* A line has its newline at its end and nowhere else.                     *)
LineText(s) ==
  /\ s \in Seq(Character) /\ Len(s) \in Nat \ {0} /\ s[Len(s)] = Newline
  /\ \A i \in 1..(Len(s) - 1) : s[i] # Newline

\* The text of the first k lines.
TextOf(s, k) ==
  /\ s \in Seq(Character) /\ Len(s) \in Nat \ {0} /\ s[Len(s)] = Newline
  /\ Cardinality({i \in 1..(Len(s) - 1) : s[i] = Newline}) < k

LEMMA LineTexts ==
  ASSUME NEW l \in Lines
  PROVE  LineText(l.chars \o <<Newline>>)
<1>1. /\ l.chars \in Seq(Character) /\ Len(l.chars) \in Nat
      /\ \A i \in 1..Len(l.chars) : l.chars[i] # Newline
  <2>1. l.chars \in Seq(STRING) /\ \A i \in DOMAIN l.chars : l.chars[i] # Newline
    BY LinesAssumption
  <2>2. l.chars \in Seq(Character)
    BY <2>1, SeqMonotonic DEF Character
  <2> QED
    BY <2>1, <2>2, LenProperties
<1>2. Newline \in Character
  BY DEF Character
<1> DEFINE c == l.chars
           s == c \o <<Newline>>
<1>3. <<Newline>> \in Seq(Character) /\ Len(<<Newline>>) = 1 /\ <<Newline>>[1] = Newline
  <2> DEFINE x == Newline
  <2> HIDE DEF x
  <2>1. <<x>> \in Seq(Character) /\ Len(<<x>>) = 1 /\ <<x>>[1] = x
    BY <1>2 DEF x
  <2> QED
    BY <2>1 DEF x
<1> HIDE DEF c
<1>4. /\ s \in Seq(Character) /\ Len(s) = Len(c) + 1
      /\ \A i \in 1..Len(s) : s[i] = IF i <= Len(c) THEN c[i] ELSE <<Newline>>[i - Len(c)]
  BY <1>1, <1>3, ConcatProperties DEF c
<1>5. Len(c) \in Nat /\ \A i \in 1..Len(c) : c[i] # Newline
  BY <1>1 DEF c
<1>6. Len(s) \in 1..Len(s) /\ ~(Len(s) <= Len(c)) /\ Len(s) - Len(c) = 1
  BY <1>4, <1>5
<1>7. s[Len(s)] = Newline
  BY <1>3, <1>4, <1>6
<1>8. ASSUME NEW i \in 1..(Len(s) - 1)
      PROVE  s[i] # Newline
  <2>1. i \in 1..Len(s) /\ i <= Len(c) /\ i \in 1..Len(c)
    BY <1>4, <1>5
  <2> QED
    BY <1>4, <1>5, <2>1
<1>9. Len(s) \in Nat \ {0}
  BY <1>4, <1>5
<1>10. s = l.chars \o <<Newline>>
  BY DEF c
<1> HIDE DEF s
<1> QED
  BY <1>4, <1>7, <1>8, <1>9, <1>10 DEF LineText

LEMMA LineAppended ==
  ASSUME NEW k \in Nat, NEW s, TextOf(s, k), NEW t, LineText(t)
  PROVE  TextOf(s \o t, k + 1)
<1> DEFINE u == s \o t
           N(w) == {i \in 1..(Len(w) - 1) : w[i] = Newline}
<1>1. s \in Seq(Character) /\ t \in Seq(Character) /\ Len(s) \in Nat \ {0} /\ Len(t) \in Nat \ {0}
  BY DEF TextOf, LineText
<1>2. /\ u \in Seq(Character) /\ Len(u) = Len(s) + Len(t)
      /\ \A i \in 1..Len(u) : u[i] = IF i <= Len(s) THEN s[i] ELSE t[i - Len(s)]
  BY <1>1, ConcatProperties
<1> HIDE DEF u
<1>3. u[Len(u)] = Newline
  <2>1. Len(u) \in 1..Len(u) /\ ~(Len(u) <= Len(s)) /\ Len(u) - Len(s) = Len(t)
    BY <1>1, <1>2
  <2>2. t[Len(t)] = Newline
    BY DEF LineText
  <2> QED
    BY <1>2, <2>1, <2>2
<1>4. N(u) \subseteq N(s) \cup {Len(s)}
  <2> SUFFICES ASSUME NEW i \in 1..(Len(u) - 1), u[i] = Newline, i # Len(s)
               PROVE  i \in 1..(Len(s) - 1) /\ s[i] = Newline
    OBVIOUS
  <2>1. i \in 1..Len(u) /\ i \in Nat
    BY <1>1, <1>2
  <2>2. CASE i <= Len(s)
    <3>1. u[i] = s[i]
      BY <1>2, <2>1, <2>2
    <3>2. i \in 1..(Len(s) - 1)
      BY <1>1, <2>1, <2>2
    <3> QED
      BY <3>1, <3>2
  <2>3. CASE ~(i <= Len(s))
    <3>1. u[i] = t[i - Len(s)]
      BY <1>2, <2>1, <2>3
    <3>2. i - Len(s) \in 1..(Len(t) - 1)
      BY <1>1, <1>2, <2>1, <2>3
    <3>3. t[i - Len(s)] # Newline
      BY <3>2 DEF LineText
    <3> QED
      BY <3>1, <3>3
  <2> QED
    BY <2>2, <2>3
<1>5. IsFiniteSet(N(s)) /\ Cardinality(N(s)) \in Nat /\ Cardinality(N(s)) < k
  <2>1. Len(s) - 1 \in Int /\ 1 \in Int
    BY <1>1
  <2>2. IsFiniteSet(1..(Len(s) - 1))
    BY <2>1, FS_Interval
  <2>3. N(s) \subseteq 1..(Len(s) - 1)
    OBVIOUS
  <2>4. IsFiniteSet(N(s))
    BY <2>2, <2>3, FS_Subset
  <2> QED
    BY <2>4, FS_CardinalityType DEF TextOf
<1> DEFINE M == N(s) \cup {Len(s)}
<1>6. IsFiniteSet(M) /\ Cardinality(M) <= Cardinality(N(s)) + 1
  <2> HIDE DEF N
  <2>1. IsFiniteSet(M) /\ (Cardinality(M) = Cardinality(N(s)) \/ Cardinality(M) = Cardinality(N(s)) + 1)
    BY <1>5, FS_AddElement
  <2> QED
    BY <1>5, <2>1
<1>7. Cardinality(N(u)) \in Nat /\ Cardinality(N(u)) <= Cardinality(M) /\ Cardinality(M) \in Nat
  <2> HIDE DEF M, N
  <2> QED
    BY <1>4, <1>6, FS_Subset, FS_CardinalityType DEF M
<1>8. Cardinality(N(u)) < k + 1
  <2> HIDE DEF M, N
  <2> QED
    BY <1>5, <1>6, <1>7
<1>9. Len(u) \in Nat \ {0}
  BY <1>1, <1>2
<1> QED
  BY <1>2, <1>3, <1>8, <1>9 DEF TextOf, u

LEMMA FirstLine ==
  ASSUME NEW t, LineText(t)
  PROVE  TextOf(t, 1)
<1>1. {i \in 1..(Len(t) - 1) : t[i] = Newline} = {}
  BY DEF LineText
<1>2. Cardinality({i \in 1..(Len(t) - 1) : t[i] = Newline}) = 0
  BY <1>1, FS_EmptySet
<1> QED
  BY <1>2 DEF LineText, TextOf

(* As many newlines as lines.                                              *)
LEMMA EndedLines ==
  ASSUME NEW n \in Nat \ {0}, NEW lines \in [1..n -> Lines]
  PROVE  Len(lines) = n /\ TextOf(Ended(lines), n)
<1> DEFINE seqs == [i \in DOMAIN lines |-> lines[i].chars \o <<Newline>>]
<1>1. DOMAIN lines = 1..n /\ Len(lines) = n
  BY FunctionIsSeq
<1>2. \A i \in 1..n : LineText(seqs[i])
  BY <1>1, LineTexts
<1>3. Len(seqs) = n /\ Len(seqs) \in Nat \ {0}
  <2>1. seqs \in [1..n -> Seq(Character)]
    BY <1>1, <1>2 DEF LineText
  <2> HIDE DEF seqs
  <2>2. Len(seqs) = n
    BY <2>1, FunctionIsSeq
  <2> QED
    BY <2>2
<1>4. Ended(lines) = FlattenSeq(seqs)
  BY DEF Ended
<1> HIDE DEF seqs
<1>5. PICK f : FlattensTo(seqs, f, n) /\ FlattenSeq(seqs) = f[n]
  BY <1>3, FlattenSteps
<1>6. \A i \in 1..n : f[i] = IF i = 1 THEN seqs[i] ELSE f[i - 1] \o seqs[i]
  BY <1>5 DEF FlattensTo
<1> DEFINE Holding == {k \in 1..n : TextOf(f[k], k)}
<1>7. 1..n \subseteq Holding
  <2> SUFFICES ASSUME ~(1..n \subseteq Holding)
               PROVE  FALSE
    OBVIOUS
  <2>1. PICK k \in 1..n : k \notin Holding /\ 1..(k - 1) \subseteq Holding
    <3> HIDE DEF Holding
    <3> QED
      BY FirstFailure
  <2>2. CASE k = 1
    <3>1. TextOf(f[k], k)
      BY <1>2, <1>6, <2>2, FirstLine
    <3> QED
      BY <2>1, <3>1
  <2>3. CASE k # 1
    <3>1. k - 1 \in 1..(k - 1) /\ k - 1 \in Nat /\ k - 1 + 1 = k
      BY <2>3
    <3>2. TextOf(f[k - 1], k - 1)
      BY <2>1, <3>1
    <3>3. f[k] = f[k - 1] \o seqs[k]
      BY <1>6, <2>3
    <3>4. TextOf(f[k - 1] \o seqs[k], k - 1 + 1)
      BY <1>2, <3>1, <3>2, LineAppended
    <3>5. TextOf(f[k], k)
      BY <3>1, <3>3, <3>4
    <3> QED
      BY <2>1, <3>5
  <2> QED
    BY <2>2, <2>3
<1>8. n \in 1..n
  OBVIOUS
<1> QED
  BY <1>1, <1>4, <1>5, <1>7, <1>8

LEMMA InitText == Init => TextOK
<1> SUFFICES ASSUME Init
             PROVE  TextOK
  OBVIOUS
<1>1. PICK n \in Nat \ {0} : script \in [1..n -> Lines]
  BY ParserAssumption DEF Init, Files
<1> DEFINE all == Ended(script)
<1>2. Len(script) = n /\ TextOf(all, n)
  BY <1>1, EndedLines
<1> HIDE DEF all
<1>3. all \in Seq(Character) /\ Len(all) \in Nat \ {0}
  BY <1>2 DEF TextOf
<1>4. complete \in BOOLEAN /\ text = IF complete THEN all ELSE Front(all)
  BY DEF Init, all
<1> DEFINE N(w) == {i \in 1..(Len(w) - 1) : w[i] = Newline}
<1>5. IsFiniteSet(N(all)) /\ Cardinality(N(all)) < n
  <2>1. Len(all) - 1 \in Nat /\ IsFiniteSet(1..(Len(all) - 1))
    BY <1>3, FS_Interval
  <2>2. N(all) \subseteq 1..(Len(all) - 1)
    OBVIOUS
  <2>3. IsFiniteSet(N(all))
    BY <2>1, <2>2, FS_Subset
  <2> QED
    BY <2>3, <1>2 DEF TextOf
<1>6. CASE complete
  BY <1>2, <1>3, <1>4, <1>5, <1>6 DEF TextOK
<1>7. CASE ~complete
  <2>1. text = SubSeq(all, 1, Len(all) - 1)
    BY <1>4, <1>7 DEF Front
  <2>2. /\ text \in Seq(Character) /\ Len(text) = Len(all) - 1
        /\ \A i \in 1..Len(text) : text[i] = all[i]
    <3> DEFINE m == Len(all) - 1
    <3>1. 1 \in Int /\ m \in Nat /\ \A i \in 1..m : all[i] \in Character
      BY <1>3
    <3> HIDE DEF m
    <3>2. /\ SubSeq(all, 1, m) \in Seq(Character)
          /\ Len(SubSeq(all, 1, m)) = IF 1 <= m THEN m - 1 + 1 ELSE 0
          /\ \A i \in 1 .. m - 1 + 1 : SubSeq(all, 1, m)[i] = all[1 + i - 1]
      BY <3>1, SubSeqProperties
    <3>3. /\ Len(SubSeq(all, 1, m)) = m
          /\ \A i \in 1 .. m : SubSeq(all, 1, m)[i] = all[i]
      BY <3>1, <3>2
    <3> QED
      BY <2>1, <3>2, <3>3 DEF m
  <2>3. N(text) \subseteq N(all)
    BY <1>3, <2>2
  <2>4. /\ Cardinality(N(text)) <= Cardinality(N(all))
        /\ Cardinality(N(text)) \in Nat
        /\ Cardinality(N(all)) \in Nat
    <3> HIDE DEF N
    <3> QED
      BY <1>5, <2>3, FS_Subset, FS_CardinalityType
  <2>5. Cardinality(N(text)) < n
    <3> HIDE DEF N
    <3> QED
      BY <1>5, <2>4
  <2> QED
    BY <1>2, <2>2, <2>5 DEF TextOK
<1> QED
  BY <1>4, <1>6, <1>7
-----------------------------------------------------------------------------
(* The steps.                                                              *)
LEMMA InvFacts ==
  ASSUME ParserInv
  PROVE  /\ text \in Seq(Character) /\ Len(text) \in Nat /\ End = Len(text) + 1
         /\ pos \in 1..End /\ Len(script) \in Nat \ {0}
         /\ Len(log) \in Nat /\ Len(log) <= Len(script) /\ line \in 0..Len(script)
         /\ cmd \in DOMAIN Keyword
         /\ LineOf(pos) \in Nat
<1>1. text \in Seq(Character) /\ pos \in 1..End
  BY DEF ParserInv, TextOK, TypeOK
<1>2. LineOf(pos) \in Nat
  <2>1. pos \in pos..End
    BY <1>1, LenProperties DEF End
  <2> QED
    BY <1>1, <2>1, LinesGrow
<1>3. Len(text) \in Nat /\ End = Len(text) + 1
  BY <1>1, LenProperties DEF End
<1>4. Len(log) \in Nat
  BY LenProperties DEF ParserInv, CallsOK
<1> QED
  BY <1>1, <1>2, <1>3, <1>4 DEF ParserInv, TextOK, TypeOK

(* The end of a call of get_next: the next one begins on another line.     *)
LEMMA CallEnds ==
  ASSUME ParserInv, NEW p, LeftFor(pos, p), NEW n, NEW what, Fits(what),
         Len(log) < Len(script), Len(log) < LineOf(pos),
         pos' = p, pc' = "next", log' = Append(log, <<n, what>>),
         cmd' \in DOMAIN Keyword, line' \in 0..Len(script),
         UNCHANGED <<script, complete, text>>
  PROVE  ParserInv'
<1>1. script' = script /\ text' = text
  OBVIOUS
<1>2. /\ text \in Seq(Character) /\ Len(text) \in Nat /\ End = Len(text) + 1
      /\ pos \in 1..End /\ Len(script) \in Nat \ {0} /\ Len(log) \in Nat /\ LineOf(pos) \in Nat
  BY InvFacts
<1>3. End' = End /\ LineOf(pos)' = LineOf(p)
  BY <1>1 DEF End, LineOf
<1>4. TextOK'
  BY <1>1 DEF ParserInv, TextOK
<1>5. p \in 1..End /\ (p = End \/ (p > pos /\ text[p - 1] = Newline))
  BY DEF LeftFor
<1>6. PICK S : log \in Seq(S)
  BY DEF ParserInv, CallsOK
<1> DEFINE entry == <<n, what>>
           T == S \cup {entry}
<1>7. /\ Append(log, entry) \in Seq(T) /\ Len(Append(log, entry)) = Len(log) + 1
      /\ \A i \in 1..Len(log) : Append(log, entry)[i] = log[i]
      /\ Append(log, entry)[Len(log) + 1] = entry
      /\ DOMAIN Append(log, entry) = 1..(Len(log) + 1)
  <2>1. log \in Seq(T) /\ entry \in T
    BY <1>6, SeqMonotonic
  <2> HIDE DEF T, entry
  <2>2. /\ Append(log, entry) \in Seq(T) /\ Len(Append(log, entry)) = Len(log) + 1
        /\ \A i \in 1..Len(log) : Append(log, entry)[i] = log[i]
        /\ Append(log, entry)[Len(log) + 1] = entry
    BY <2>1, AppendProperties
  <2> QED
    BY <2>2, LenProperties
<1>8. entry[2] = what /\ log' = Append(log, entry)
  OBVIOUS
<1> HIDE DEF T, entry
<1>9. \A i \in DOMAIN log' : Fits(log'[i][2])
  <2>1. DOMAIN log = 1..Len(log) /\ \A i \in DOMAIN log : Fits(log[i][2])
    BY <1>6, LenProperties DEF ParserInv, TypeOK
  <2> TAKE i \in DOMAIN log'
  <2>2. CASE i = Len(log) + 1
    BY <1>7, <1>8, <2>2
  <2>3. CASE i # Len(log) + 1
    <3>1. i \in 1..Len(log)
      BY <1>2, <1>7, <1>8, <2>3
    <3> QED
      BY <1>7, <1>8, <2>1, <3>1
  <2> QED
    BY <2>2, <2>3
<1>10. TypeOK'
  <2>1. Len(log') <= Len(script)
    BY <1>2, <1>7, <1>8
  <2>2. pos' \in 1..End /\ pc' = "next" /\ cmd' \in DOMAIN Keyword /\ line' \in 0..Len(script)
    BY <1>5
  <2>3. \A i \in DOMAIN log' : (Fits(log[i][2]))'
    BY <1>9 DEF Fits
  <2>4. (\A i \in DOMAIN log : Fits(log[i][2]))'
    BY <2>3
  <2> QED
    BY <1>1, <1>3, <2>1, <2>2, <2>4 DEF TypeOK
<1>11. AtLineStart'
  BY <1>1, <1>3, <1>5 DEF AtLineStart
<1>12. CallsOK'
  <2>1. p # End => Len(log) + 1 < LineOf(p)
    <3> SUFFICES ASSUME p # End
                 PROVE  Len(log) + 1 < LineOf(p)
      OBVIOUS
    <3>1. p \in pos..End /\ p > pos /\ text[p - 1] = Newline
      BY <1>2, <1>5
    <3>2. LineOf(pos) < LineOf(p) /\ LineOf(p) \in Nat
      BY <1>2, <3>1, LinesGrow
    <3> QED
      BY <1>2, <3>2
  <2>2. pos' # End' => Len(log') < LineOf(pos)'
    BY <1>3, <1>7, <1>8, <2>1
  <2>3. \E U : log' \in Seq(U)
    BY <1>7, <1>8
  <2> QED
    BY <2>2, <2>3 DEF CallsOK
<1>13. ArgsOK'
  BY DEF ArgsOK
<1> QED
  BY <1>4, <1>10, <1>11, <1>12, <1>13 DEF ParserInv

(* A call that goes on.                                                    *)
LEMMA CallGoesOn ==
  ASSUME ParserInv, NEW p \in pos..End, pos' = p, pc' \in {"open", "list"}, log' = log,
         cmd' \in DOMAIN Keyword, line' \in 0..Len(script), Len(log) < line', line' <= LineOf(pos),
         ArgsOK', pc' = "list" => Len(args') < MAX_WRITE_SIZE,
         UNCHANGED <<script, complete, text>>
  PROVE  ParserInv'
<1>1. script' = script /\ text' = text
  OBVIOUS
<1>2. /\ text \in Seq(Character) /\ Len(text) \in Nat /\ End = Len(text) + 1
      /\ pos \in 1..End /\ Len(script) \in Nat \ {0} /\ Len(log) \in Nat /\ LineOf(pos) \in Nat
      /\ Len(log) <= Len(script)
  BY InvFacts
<1>3. End' = End /\ LineOf(pos)' = LineOf(p)
  BY <1>1 DEF End, LineOf
<1>4. TextOK'
  BY <1>1 DEF ParserInv, TextOK
<1>5. TypeOK'
  <2>1. \A i \in DOMAIN log : Fits(log[i][2])
    BY DEF ParserInv, TypeOK
  <2>2. (\A i \in DOMAIN log : Fits(log[i][2]))'
    BY <2>1 DEF Fits
  <2>3. pos' \in 1..End
    BY <1>2
  <2> QED
    BY <1>1, <1>2, <1>3, <2>2, <2>3 DEF TypeOK
<1>6. AtLineStart'
  BY DEF AtLineStart
<1>7. CallsOK'
  <2>1. LineOf(p) \in Nat /\ LineOf(pos) <= LineOf(p)
    BY <1>2, LinesGrow
  <2>2. line' <= LineOf(pos)' /\ Len(log') < line'
    BY <1>2, <1>3, <2>1
  <2>3. \E S : log' \in Seq(S)
    BY DEF ParserInv, CallsOK
  <2> QED
    BY <2>2, <2>3 DEF CallsOK
<1> QED
  BY <1>4, <1>5, <1>6, <1>7 DEF ParserInv

(* Room for one more call.                                                 *)
LEMMA CallsLeft ==
  ASSUME ParserInv, (pc = "next" /\ ~AtEnd(pos)) \/ pc \in {"open", "list"}
  PROVE  Len(log) < Len(script) /\ Len(log) < LineOf(pos)
<1>1. /\ End \in Nat /\ pos \in 1..End /\ Len(script) \in Nat /\ Len(log) \in Nat /\ LineOf(pos) \in Nat
      /\ line \in 0..Len(script)
  BY InvFacts
<1>2. CASE pc = "next" /\ ~AtEnd(pos)
  <2>1. pos # End
    BY <1>1, <1>2 DEF AtEnd
  <2>2. Len(log) < LineOf(pos)
    BY <1>2, <2>1 DEF ParserInv, CallsOK
  <2>3. LineOf(pos) <= Len(script)
    BY <1>1, <2>1, LinesEnough DEF ParserInv
  <2> QED
    BY <1>1, <2>2, <2>3
<1>3. CASE pc \in {"open", "list"}
  <2>1. Len(log) < line /\ line <= LineOf(pos)
    BY <1>3 DEF ParserInv, CallsOK
  <2> QED
    BY <1>1, <2>1
<1> QED
  BY <1>2, <1>3

LEMMA RejectKeeps ==
  ASSUME ParserInv, pc \in {"open", "list"}, NEW p, LeftFor(pos, p), Reject(p),
         UNCHANGED <<script, complete, text>>
  PROVE  ParserInv'
<1>1. Len(log) < Len(script) /\ Len(log) < LineOf(pos)
  BY CallsLeft
<1>2. /\ pos' = p /\ pc' = "next" /\ log' = Append(log, <<line, Rejected>>)
      /\ cmd' = cmd /\ line' = line
  BY DEF Reject, Done
<1>3. Fits(Rejected)
  BY DEF Fits, Rejected, Command
<1>4. cmd' \in DOMAIN Keyword /\ line' \in 0..Len(script)
  BY <1>2, InvFacts
<1> QED
  BY <1>1, <1>2, <1>3, <1>4, CallEnds

LEMMA ExecuteKeeps ==
  ASSUME ParserInv, pc \in {"open", "list"}, NEW p, LeftFor(pos, p),
         NEW arguments, Fits(Command(cmd, arguments)), Execute(arguments, p),
         UNCHANGED <<script, complete, text>>
  PROVE  ParserInv'
<1>1. Len(log) < Len(script) /\ Len(log) < LineOf(pos)
  BY CallsLeft
<1> DEFINE what == Command(cmd, arguments)
<1>2. /\ pos' = p /\ pc' = "next" /\ log' = Append(log, <<line, what>>)
      /\ cmd' = cmd /\ line' = line
  BY DEF Execute, Done
<1>3. Fits(what)
  OBVIOUS
<1>4. cmd' \in DOMAIN Keyword /\ line' \in 0..Len(script)
  BY <1>2, InvFacts
<1> HIDE DEF what
<1> QED
  BY <1>1, <1>2, <1>3, <1>4, CallEnds

(* Whatever is skipped is skipped to a later line.                         *)
LEMMA SkippedLater ==
  ASSUME text \in Seq(Character), NEW p \in 1..End, NEW q \in p..End
  PROVE  /\ q \in 1..End
         /\ Passed(q, 1) \in p..End
         /\ cleanup(q) \in p..End
         /\ LeftFor(p, cleanup(q))
         /\ LeftFor(p, cleanup(cleanup(q)))
<1>1. Len(text) \in Nat /\ End = Len(text) + 1 /\ q \in 1..End /\ 1 \in Nat
  BY LenProperties DEF End
<1>2. Passed(q, 1) \in q..End
  BY <1>1, PassedIs
<1>3. cleanup(q) \in q..End /\ LeftFor(q, cleanup(q))
  BY <1>1, CleanupLeaves
<1>4. cleanup(q) \in 1..End /\ cleanup(q) \in p..End /\ Passed(q, 1) \in p..End
  BY <1>1, <1>2, <1>3
<1>5. LeftFor(p, cleanup(q))
  BY <1>3, LeftLater
<1>6. LeftFor(cleanup(q), cleanup(cleanup(q)))
  BY <1>4, CleanupLeaves
<1>7. LeftFor(p, cleanup(cleanup(q)))
  <2> DEFINE r == cleanup(q)
  <2>1. r \in p..End /\ LeftFor(r, cleanup(r))
    BY <1>4, <1>6
  <2> HIDE DEF r
  <2>2. LeftFor(p, cleanup(r))
    BY <2>1, LeftLater
  <2> QED
    BY <2>2 DEF r
<1> QED
  BY <1>1, <1>4, <1>5, <1>7

LEMMA AfterNewline ==
  ASSUME text \in Seq(Character), NEW p \in 1..End, NEW q \in p..End
  PROVE  /\ IsChar(q, {Newline}) => LeftFor(p, q + 1) /\ LeftFor(p, Passed(q, 1))
         /\ AtEnd(q) => LeftFor(p, Passed(q, 1))
<1>1. Len(text) \in Nat /\ End = Len(text) + 1 /\ q \in 1..End /\ 1 \in Nat
  BY LenProperties DEF End
<1>2. Passed(q, 1) = IF q + 1 <= End THEN q + 1 ELSE End
  BY <1>1, PassedIs
<1>3. AtEnd(q) => Passed(q, 1) = End
  BY <1>1, <1>2 DEF AtEnd
<1>4. IsChar(q, {Newline}) => q + 1 <= End /\ text[q] = Newline /\ q + 1 - 1 = q
  BY <1>1 DEF IsChar, AtEnd
<1> QED
  BY <1>1, <1>2, <1>3, <1>4 DEF LeftFor
-----------------------------------------------------------------------------
(* One lemma per action.                                                   *)
LEMMA InitHolds == Init => ParserInv
<1> SUFFICES ASSUME Init
             PROVE  ParserInv
  OBVIOUS
<1>1. TextOK
  BY InitText
<1>2. Len(text) \in Nat /\ End = Len(text) + 1 /\ text \in Seq(Character) /\ Len(script) \in Nat \ {0}
  BY <1>1, LenProperties DEF TextOK, End
<1>3. pos = 1 /\ pc = "next" /\ cmd = "SHOW" /\ line = 0 /\ log = <<>>
  BY DEF Init
<1>4. Len(log) = 0 /\ DOMAIN log = {} /\ log \in Seq({1})
  BY <1>3
<1>5. TypeOK
  BY <1>2, <1>3, <1>4, KeywordLengths DEF TypeOK
<1>6. AtLineStart
  BY <1>3 DEF AtLineStart
<1>7. CallsOK
  <2>1. 1 \in 1..End /\ 1 \in 1..End
    BY <1>2
  <2>2. LineOf(1) \in Nat /\ LineOf(1) >= 1
    BY <1>2, <2>1, LinesGrow
  <2> QED
    BY <1>3, <1>4, <2>2 DEF CallsOK
<1>8. ArgsOK
  BY <1>3 DEF ArgsOK
<1> QED
  BY <1>1, <1>5, <1>6, <1>7, <1>8 DEF ParserInv

LEMMA EndOfCommandsStep ==
  ASSUME ParserInv, EndOfCommands, UNCHANGED <<script, complete, text>>
  PROVE  ParserInv'
<1>1. /\ pc' = "done" /\ pos' = pos /\ cmd' = cmd /\ line' = line /\ log' = log /\ text' = text
      /\ script' = script
  BY DEF EndOfCommands
<1>2. TextOK' /\ End' = End
  BY <1>1 DEF ParserInv, TextOK, End
<1>3. TypeOK'
  <2>1. (\A i \in DOMAIN log : Fits(log[i][2]))'
    BY <1>1 DEF ParserInv, TypeOK, Fits
  <2> QED
    BY <1>1, <1>2, <2>1 DEF ParserInv, TypeOK
<1>4. CallsOK' /\ ArgsOK' /\ AtLineStart'
  BY <1>1 DEF ParserInv, CallsOK, ArgsOK, AtLineStart
<1> QED
  BY <1>2, <1>3, <1>4 DEF ParserInv

LEMMA NextCommandStep ==
  ASSUME ParserInv, NextCommand, UNCHANGED <<script, complete, text>>
  PROVE  ParserInv'
<1>1. /\ text \in Seq(Character) /\ Len(text) \in Nat /\ End = Len(text) + 1
      /\ pos \in 1..End /\ Len(script) \in Nat \ {0} /\ Len(log) \in Nat /\ LineOf(pos) \in Nat
  BY InvFacts
<1>2. PICK c \in CommandAt(pos) :
        /\ line' = LineOf(pos) /\ cmd' = c /\ args' = <<>>
        /\ IF c \in Bare
             THEN /\ log' = Append(log, <<LineOf(pos), Command(c, <<>>)>>)
                  /\ pos' = Passed(pos, Len(Keyword[c]) + 1)
                  /\ pc' = pc
             ELSE /\ pos' = pos + Len(Keyword[c])
                  /\ pc' = "open"
                  /\ log' = log
  BY DEF NextCommand
<1> DEFINE size == Len(Keyword[c])
           after == pos + size
<1>3. c \in DOMAIN Keyword /\ size \in 1..7 /\ size \in Nat
  BY KeywordLengths DEF CommandAt
<1>4. after <= End /\ (c \in Bare => AtEnd(after) \/ text[after] = Newline)
  BY DEF CommandAt, Matches
<1>5. pc = "next" /\ pos < End /\ ~AtEnd(pos)
  <2>1. pc = "next"
    BY DEF NextCommand
  <2> HIDE DEF size
  <2>2. pos < End
    BY <1>1, <1>3, <1>4
  <2> QED
    BY <1>1, <2>1, <2>2 DEF AtEnd
<1>6. Len(log) < Len(script) /\ Len(log) < LineOf(pos)
  BY <1>5, CallsLeft
<1>7. line' \in 0..Len(script) /\ Len(log) < line' /\ cmd' \in DOMAIN Keyword
  <2>1. LineOf(pos) <= Len(script)
    BY <1>1, <1>5, LinesEnough DEF ParserInv
  <2> QED
    BY <1>1, <1>2, <1>3, <1>6, <2>1
<1> HIDE DEF size
<1>8. CASE c \in Bare
  <2> DEFINE what == Command(c, <<>>)
             p == Passed(pos, size + 1)
  <2>1. Fits(what)
    BY <1>8 DEF Bare, Fits, Command
  <2>2. p = IF pos + (size + 1) <= End THEN pos + (size + 1) ELSE End
    <3>1. size + 1 \in Nat
      BY <1>3
    <3> QED
      BY <1>1, <3>1, PassedIs
  <2>3. LeftFor(pos, p)
    <3>1. CASE after < End
      <4>1. text[after] = Newline
        BY <1>1, <1>3, <1>4, <1>8, <3>1 DEF AtEnd
      <4>2. p = after + 1 /\ p \in 1..End /\ p > pos /\ p - 1 = after
        BY <1>1, <1>3, <2>2, <3>1
      <4> QED
        BY <4>1, <4>2 DEF LeftFor
    <3>2. CASE ~(after < End)
      <4>1. p = End
        BY <1>1, <1>3, <2>2, <3>2
      <4> QED
        BY <1>1, <4>1 DEF LeftFor
    <3> QED
      BY <3>1, <3>2
  <2>4. pos' = p /\ pc' = "next" /\ log' = Append(log, <<LineOf(pos), what>>)
    BY <1>2, <1>5, <1>8 DEF size
  <2> HIDE DEF what, p
  <2> QED
    BY <1>6, <1>7, <2>1, <2>3, <2>4, CallEnds
<1>9. CASE c \notin Bare
  <2>1. pos' = after /\ pc' = "open" /\ log' = log /\ after \in pos..End
    BY <1>1, <1>2, <1>3, <1>4, <1>9 DEF size
  <2>2. ArgsOK'
    <3>1. args' \in Seq({1}) /\ Len(args') = 0
      BY <1>2
    <3> QED
      BY <2>1, <3>1 DEF ArgsOK
  <2>3. line' <= LineOf(pos)
    BY <1>1, <1>2
  <2> HIDE DEF after
  <2> QED
    BY <1>7, <2>1, <2>2, <2>3, CallGoesOn
<1> QED
  BY <1>8, <1>9

LEMMA NoCommandStep ==
  ASSUME ParserInv, NoCommand, UNCHANGED <<script, complete, text>>
  PROVE  ParserInv'
<1>1. /\ text \in Seq(Character) /\ Len(text) \in Nat /\ End = Len(text) + 1 /\ pos \in 1..End
      /\ line \in 0..Len(script) /\ cmd \in DOMAIN Keyword
  BY InvFacts
<1> DEFINE what == IF text[pos] \in {"#", Newline} THEN Skipped ELSE Rejected
           q == Passed(pos, ReadSize(text[pos]))
           p == IF text[pos] = Newline THEN pos + 1 ELSE cleanup(q)
<1>2. /\ pc = "next" /\ ~AtEnd(pos) /\ pc' = "next" /\ pos' = p
      /\ log' = Append(log, <<LineOf(pos), what>>) /\ cmd' = cmd /\ line' = line
  BY DEF NoCommand
<1>3. Len(log) < Len(script) /\ Len(log) < LineOf(pos)
  BY <1>2, CallsLeft
<1>4. Fits(what)
  BY DEF Fits, Skipped, Rejected, Command
<1>5. LeftFor(pos, p)
  <2>1. CASE text[pos] = Newline
    <3>1. pos \in pos..End /\ IsChar(pos, {Newline})
      BY <1>1, <1>2, <2>1 DEF IsChar
    <3> QED
      BY <1>1, <2>1, <3>1, AfterNewline
  <2>2. CASE text[pos] # Newline
    <3>1. q \in pos..End
      BY <1>1, ReadSizeIs, PassedIs
    <3> HIDE DEF q
    <3>2. LeftFor(pos, cleanup(q))
      BY <1>1, <3>1, SkippedLater
    <3> QED
      BY <2>2, <3>2
  <2> QED
    BY <2>1, <2>2
<1> HIDE DEF what, p, q
<1> QED
  BY <1>1, <1>2, <1>3, <1>4, <1>5, CallEnds

LEMMA OpenListStep ==
  ASSUME ParserInv, OpenList, UNCHANGED <<script, complete, text>>
  PROVE  ParserInv'
<1>1. /\ text \in Seq(Character) /\ Len(text) \in Nat /\ End = Len(text) + 1 /\ pos \in 1..End
      /\ line \in 0..Len(script) /\ cmd \in DOMAIN Keyword /\ Len(log) \in Nat /\ LineOf(pos) \in Nat
  BY InvFacts
<1>2. pc = "open"
  BY DEF OpenList
<1> DEFINE second == Passed(pos, 1)
           third == Passed(second, 1)
<1>3. second \in pos..End
  BY <1>1, SkippedLater
<1>4. third \in pos..End /\ LeftFor(pos, cleanup(second)) 
  <2> HIDE DEF second
  <2> QED
    BY <1>1, <1>3, SkippedLater
<1>5. LeftFor(pos, cleanup(third))
  <2> HIDE DEF third
  <2> QED
    BY <1>1, <1>4, SkippedLater
<1>6. CASE Reject(cleanup(second))
  BY <1>2, <1>4, <1>6, RejectKeeps
<1>7. CASE Reject(cleanup(third))
  BY <1>2, <1>5, <1>7, RejectKeeps
<1>8. CASE /\ cmd = "WRITE" => IsChar(second, {"("})
           /\ pc' = "list" /\ pos' = IF cmd = "WRITE" THEN second + 1 ELSE second
           /\ UNCHANGED <<cmd, args, line, log>>
  <2> DEFINE p == IF cmd = "WRITE" THEN second + 1 ELSE second
  <2>1. p \in pos..End
    BY <1>1, <1>3, <1>8 DEF IsChar, AtEnd
  <2>2. (\E S : args \in Seq(S)) /\ Len(args) = 0
    BY <1>2 DEF ParserInv, ArgsOK
  <2>3. ArgsOK' /\ Len(args') < MAX_WRITE_SIZE
    BY <1>8, <2>2, ParserAssumption DEF ArgsOK, Short
  <2>4. pos' = p /\ pc' = "list" /\ log' = log /\ line' = line /\ cmd' = cmd
    BY <1>8
  <2>5. Len(log) < line /\ line <= LineOf(pos)
    BY <1>2 DEF ParserInv, CallsOK
  <2> HIDE DEF p
  <2> QED
    BY <1>1, <2>1, <2>3, <2>4, <2>5, CallGoesOn
<1> QED
  BY <1>6, <1>7, <1>8 DEF OpenList

(* The end of a round.                                                     *)
LEMMA RoundEnds ==
  ASSUME ParserInv, pc = "list", UNCHANGED <<script, complete, text>>,
         NEW S, NEW read \in Seq(S), Len(read) \in 1..MAX_WRITE_SIZE, Short(read),
         NEW closed \in BOOLEAN, NEW p \in pos..End, EndRound(read, closed, p)
  PROVE  ParserInv'
<1>1. /\ text \in Seq(Character) /\ Len(text) \in Nat /\ End = Len(text) + 1 /\ pos \in 1..End
      /\ line \in 0..Len(script) /\ cmd \in DOMAIN Keyword /\ Len(log) \in Nat /\ LineOf(pos) \in Nat
      /\ MAX_WRITE_SIZE \in Nat
  BY InvFacts, ParserAssumption
<1> DEFINE q == Passed(p, 1)
<1>2. q \in pos..End /\ LeftFor(pos, cleanup(p))
  BY <1>1, SkippedLater
<1>3. LeftFor(pos, cleanup(q))
  <2> HIDE DEF q
  <2> QED
    BY <1>1, <1>2, SkippedLater
<1>4. CASE Reject(cleanup(p)) \/ Reject(cleanup(q))
  BY <1>2, <1>3, <1>4, RejectKeeps
<1>5. CASE /\ Len(read) < MAX_WRITE_SIZE /\ args' = read /\ pos' = p
           /\ UNCHANGED <<pc, cmd, line, log>>
  <2>1. ArgsOK'
    BY <1>5 DEF ArgsOK, Short
  <2>2. Len(args') < MAX_WRITE_SIZE
    BY <1>5
  <2>3. Len(log) < line /\ line <= LineOf(pos)
    BY DEF ParserInv, CallsOK
  <2>4. pc' = "list" /\ log' = log /\ line' = line /\ cmd' = cmd /\ pos' = p
    BY <1>5
  <2> QED
    BY <1>1, <2>1, <2>2, <2>3, <2>4, CallGoesOn
<1>6. CASE Len(read) # MAX_WRITE_SIZE /\ IsChar(p, {Newline}) /\ Execute(read, p + 1)
  <2>1. LeftFor(pos, p + 1)
    BY <1>1, <1>6, AfterNewline
  <2>2. Len(read) \in 1..(MAX_WRITE_SIZE - 1) /\ DOMAIN read = 1..Len(read)
    BY <1>1, <1>6, LenProperties
  <2>3. Fits(Command(cmd, read))
    BY <2>2 DEF Fits, Command, Short
  <2> QED
    BY <1>6, <2>1, <2>3, ExecuteKeeps
<1> QED
  BY <1>4, <1>5, <1>6 DEF EndRound

(* What a round has read.                                                  *)
LEMMA RoundReads ==
  ASSUME ParserInv, pc = "list", NEW arg, \A s \in ToSet(arg) : Len(s) < MAX_STRING_SIZE
  PROVE  /\ \E S : Append(args, arg) \in Seq(S)
         /\ Len(Append(args, arg)) \in 1..MAX_WRITE_SIZE
         /\ Short(Append(args, arg))
<1>1. PICK S : args \in Seq(S)
  BY DEF ParserInv, ArgsOK
<1>2. Len(args) \in Nat /\ Len(args) < MAX_WRITE_SIZE /\ MAX_WRITE_SIZE \in Nat /\ Short(args)
  BY <1>1, LenProperties, ParserAssumption DEF ParserInv, ArgsOK, TypeOK
<1> DEFINE T == S \cup {arg}
<1>3. args \in Seq(T) /\ arg \in T
  BY <1>1, SeqMonotonic
<1> HIDE DEF T
<1> DEFINE r == Append(args, arg)
<1>4. /\ r \in Seq(T) /\ Len(r) = Len(args) + 1 /\ r[Len(args) + 1] = arg
      /\ \A i \in 1..Len(args) : r[i] = args[i]
  BY <1>3, AppendProperties
<1> HIDE DEF r
<1>5. Short(r)
  <2> SUFFICES ASSUME NEW j \in 1..Len(r)
               PROVE  \A s \in ToSet(r[j]) : Len(s) < MAX_STRING_SIZE
    BY <1>2, <1>4 DEF Short
  <2>1. CASE j = Len(args) + 1
    BY <1>4, <2>1
  <2>2. CASE j # Len(args) + 1
    <3>1. j \in 1..Len(args)
      BY <1>2, <1>4, <2>2
    <3> QED
      BY <1>2, <1>4, <3>1 DEF Short
  <2> QED
    BY <2>1, <2>2
<1> QED
  BY <1>2, <1>4, <1>5 DEF r

LEMMA ParsePairStep ==
  ASSUME ParserInv, ParsePair, UNCHANGED <<script, complete, text>>
  PROVE  ParserInv'
<1>1. /\ text \in Seq(Character) /\ Len(text) \in Nat /\ End = Len(text) + 1 /\ pos \in 1..End
  BY InvFacts
<1>2. pc = "list"
  BY DEF ParsePair
<1>3. PICK key : key = read_string(pos)
  OBVIOUS
<1>4. PICK value : value = read_string(key.next)
  OBVIOUS
<1>5. PICK after : after = value.next
  OBVIOUS
<1>6. key.next \in pos..End /\ Len(key.str) < MAX_STRING_SIZE
  BY <1>1, <1>3, ReadStringEnds
<1>7. value.next \in pos..End /\ Len(value.str) < MAX_STRING_SIZE
  <2>1. PICK p : p = key.next
    OBVIOUS
  <2>2. p \in 1..End
    BY <1>1, <1>6, <2>1
  <2>3. value.next \in p..End /\ Len(value.str) < MAX_STRING_SIZE
    BY <1>1, <1>4, <2>1, <2>2, ReadStringEnds
  <2> QED
    BY <1>1, <1>6, <2>1, <2>3
<1>8. after \in pos..End
  BY <1>5, <1>7
<1>9. \/ Reject(cleanup(cleanup(key.next)))
      \/ Reject(cleanup(cleanup(value.next)))
      \/ Reject(cleanup(Passed(after, 1)))
      \/ /\ IsChar(after, {"(", "]"})
         /\ EndRound(Append(args, <<key.str, value.str>>), text[after] = "]", after + 1)
  BY <1>3, <1>4, <1>5 DEF ParsePair
<1>10. CASE Reject(cleanup(cleanup(key.next)))
  <2>1. LeftFor(pos, cleanup(cleanup(key.next)))
    BY <1>1, <1>6, SkippedLater
  <2> QED
    BY <1>2, <1>10, <2>1, RejectKeeps
<1>11. CASE Reject(cleanup(cleanup(value.next)))
  <2>1. LeftFor(pos, cleanup(cleanup(value.next)))
    BY <1>1, <1>7, SkippedLater
  <2> QED
    BY <1>2, <1>11, <2>1, RejectKeeps
<1>12. CASE Reject(cleanup(Passed(after, 1)))
  <2>1. PICK q : q = Passed(after, 1)
    OBVIOUS
  <2>2. q \in pos..End
    BY <1>1, <1>8, <2>1, SkippedLater
  <2>3. LeftFor(pos, cleanup(q))
    BY <1>1, <2>2, SkippedLater
  <2> QED
    BY <1>2, <1>12, <2>1, <2>3, RejectKeeps
<1>13. CASE /\ IsChar(after, {"(", "]"})
            /\ EndRound(Append(args, <<key.str, value.str>>), text[after] = "]", after + 1)
  <2>1. after + 1 \in pos..End
    BY <1>1, <1>8, <1>13 DEF IsChar, AtEnd
  <2> DEFINE arg == <<key.str, value.str>>
             r == Append(args, arg)
             closed == (text[after] = "]")
  <2>2. \A s \in ToSet(arg) : Len(s) < MAX_STRING_SIZE
    <3>1. ToSet(arg) = {key.str, value.str}
      BY DEF ToSet
    <3> QED
      BY <1>6, <1>7, <3>1
  <2> HIDE DEF arg
  <2>3. (\E S : r \in Seq(S)) /\ Len(r) \in 1..MAX_WRITE_SIZE /\ Short(r)
    BY <1>2, <2>2, RoundReads
  <2>4. EndRound(r, closed, after + 1) /\ closed \in BOOLEAN
    BY <1>13 DEF arg
  <2> HIDE DEF r, closed
  <2> QED
    BY <1>2, <2>1, <2>3, <2>4, RoundEnds
<1> QED
  BY <1>9, <1>10, <1>11, <1>12, <1>13

LEMMA ParseKeyStep ==
  ASSUME ParserInv, ParseKey, UNCHANGED <<script, complete, text>>
  PROVE  ParserInv'
<1>1. /\ text \in Seq(Character) /\ Len(text) \in Nat /\ End = Len(text) + 1 /\ pos \in 1..End
  BY InvFacts
<1>2. pc = "list"
  BY DEF ParseKey
<1>3. PICK key : key = read_string(pos)
  OBVIOUS
<1>4. key.next \in pos..End /\ Len(key.str) < MAX_STRING_SIZE
  BY <1>1, <1>3, ReadStringEnds
<1>5. \/ Reject(cleanup(key.next))
      \/ EndRound(Append(args, <<key.str>>), key.at = "]", key.next)
  BY <1>3 DEF ParseKey
<1>6. CASE Reject(cleanup(key.next))
  <2>1. LeftFor(pos, cleanup(key.next))
    BY <1>1, <1>4, SkippedLater
  <2> QED
    BY <1>2, <1>6, <2>1, RejectKeeps
<1>7. CASE EndRound(Append(args, <<key.str>>), key.at = "]", key.next)
  <2> DEFINE arg == <<key.str>>
             r == Append(args, arg)
             closed == (key.at = "]")
  <2>1. \A s \in ToSet(arg) : Len(s) < MAX_STRING_SIZE
    <3>1. ToSet(arg) = {key.str}
      BY DEF ToSet
    <3> QED
      BY <1>4, <3>1
  <2> HIDE DEF arg
  <2>2. (\E S : r \in Seq(S)) /\ Len(r) \in 1..MAX_WRITE_SIZE /\ Short(r)
    BY <1>2, <2>1, RoundReads
  <2>3. EndRound(r, closed, key.next) /\ closed \in BOOLEAN
    BY <1>7 DEF arg
  <2> HIDE DEF r, closed
  <2> QED
    BY <1>2, <1>4, <2>2, <2>3, RoundEnds
<1> QED
  BY <1>5, <1>6, <1>7

LEMMA ParseWaitStep ==
  ASSUME ParserInv, ParseWait, UNCHANGED <<script, complete, text>>
  PROVE  ParserInv'
<1>1. /\ text \in Seq(Character) /\ Len(text) \in Nat /\ End = Len(text) + 1 /\ pos \in 1..End
  BY InvFacts
<1>2. pc = "open" /\ cmd = "WAIT"
  BY DEF ParseWait
<1>3. PICK stop : stop = read_uint(pos).stop
  OBVIOUS
<1>4. PICK after : after = Passed(stop, 1)
  OBVIOUS
<1>5. stop \in pos..End
  BY <1>1, <1>3, ReadUintEnds
<1>6. after \in pos..End
  BY <1>1, <1>4, <1>5, SkippedLater
<1>7. LeftFor(pos, cleanup(after))
  BY <1>1, <1>6, SkippedLater
<1>8. AtEnd(stop) \/ IsChar(stop, {Newline}) => LeftFor(pos, after)
  BY <1>1, <1>4, <1>5, AfterNewline
<1>9. PICK n : \/ Reject(cleanup(after))
               \/ Execute(<<<<Decimal(n)>>>>, cleanup(after))
               \/ /\ AtEnd(stop) \/ IsChar(stop, {Newline})
                  /\ Execute(<<<<Decimal(n)>>>>, after)
  BY <1>3, <1>4 DEF ParseWait
<1> DEFINE arguments == <<<<Decimal(n)>>>>
<1>10. Fits(Command(cmd, arguments))
  BY <1>2 DEF Fits, Command
<1> HIDE DEF arguments
<1>11. CASE Reject(cleanup(after))
  BY <1>2, <1>7, <1>11, RejectKeeps
<1>12. CASE Execute(arguments, cleanup(after))
  BY <1>2, <1>7, <1>10, <1>12, ExecuteKeeps
<1>13. CASE (AtEnd(stop) \/ IsChar(stop, {Newline})) /\ Execute(arguments, after)
  BY <1>2, <1>8, <1>10, <1>13, ExecuteKeeps
<1> QED
  BY <1>9, <1>11, <1>12, <1>13 DEF arguments

LEMMA ParserInvariant == Spec => []ParserInv
<1>1. ParserInv /\ [Next]_vars => ParserInv'
  <2> SUFFICES ASSUME ParserInv, [Next]_vars
               PROVE  ParserInv'
    OBVIOUS
  <2>1. CASE UNCHANGED vars
    <3>1. /\ script' = script /\ complete' = complete /\ text' = text /\ pos' = pos /\ pc' = pc
          /\ cmd' = cmd /\ args' = args /\ line' = line /\ log' = log
      BY <2>1 DEF vars
    <3>2. TextOK' /\ End' = End /\ LineOf(pos)' = LineOf(pos)
      BY <3>1 DEF ParserInv, TextOK, End, LineOf
    <3>3. TypeOK'
      <4>1. (\A i \in DOMAIN log : Fits(log[i][2]))'
        BY <3>1 DEF ParserInv, TypeOK, Fits
      <4> QED
        BY <3>1, <3>2, <4>1 DEF ParserInv, TypeOK
    <3>4. CallsOK' /\ ArgsOK' /\ AtLineStart'
      BY <3>1, <3>2 DEF ParserInv, CallsOK, ArgsOK, AtLineStart, Short
    <3> QED
      BY <3>2, <3>3, <3>4 DEF ParserInv
  <2>2. CASE Parse /\ UNCHANGED <<script, complete, text>>
    BY <2>2, EndOfCommandsStep, NextCommandStep, NoCommandStep, OpenListStep, ParsePairStep,
       ParseKeyStep, ParseWaitStep DEF Parse
  <2>3. CASE pc = "done" /\ UNCHANGED vars
    BY <2>1, <2>3
  <2> QED
    BY <2>1, <2>2, <2>3 DEF Next
<1> QED
  BY InitHolds, <1>1, PTL DEF Spec

(* The parser stays within its file, never calls get_next more often than  *)
(* the file has lines, and passes on only what fits the store's arrays.    *)
THEOREM ParserTypeCorrect == Spec => []TypeOK
<1>1. ParserInv => TypeOK
  BY DEF ParserInv
<1> QED
  BY <1>1, ParserInvariant, PTL

(* get_next looks for a command only where a line begins.                  *)
THEOREM CommandsBeginLines == Spec => []AtLineStart
<1>1. ParserInv => AtLineStart
  BY DEF ParserInv
<1> QED
  BY <1>1, ParserInvariant, PTL

(* Induction over numbers, for the members of a set.                       *)
LEMMA NaturalsByStep ==
  ASSUME NEW P, 0 \in P, \A n \in Nat : n \in P => n + 1 \in P
  PROVE  Nat \subseteq P
<1> SUFFICES ASSUME ~(Nat \subseteq P)
             PROVE  FALSE
  OBVIOUS
<1> DEFINE I == Nat \ P
<1>1. Min(I) \in I /\ \A i \in I : Min(I) <= i
  BY MinimumExists
<1>2. PICK m : m = Min(I)
  OBVIOUS
<1>3. m \in Nat /\ m \notin P /\ m # 0
  BY <1>1, <1>2
<1>4. m - 1 \in Nat /\ ~(m <= m - 1) /\ m - 1 + 1 = m
  BY <1>3
<1>5. m - 1 \in P
  BY <1>1, <1>2, <1>4
<1> QED
  BY <1>3, <1>4, <1>5

-----------------------------------------------------------------------------
(* Where the lines are.                                                    *)

\* A line of characters, none of which is a newline.
IsLine(chars) == chars \in Seq(Character) /\ \A i \in 1..Len(chars) : chars[i] # Newline

\* The line is in the text t from b on, and ends with a newline before e.
Laid(chars, b, e, t) ==
  /\ e = b + Len(chars) + 1 /\ t[e - 1] = Newline
  /\ \A i \in 1..Len(chars) : t[b + i - 1] = chars[i]

\* Line k of the text begins at f[k].
Layout(lines, f, t) ==
  LET n == Len(lines)
  IN  /\ n \in Nat /\ f \in [1..(n + 1) -> Nat \ {0}] /\ f[1] = 1
      /\ t \in Seq(Character) /\ Len(t) = f[n + 1] - 1
      /\ \A k \in 1..n : IsLine(lines[k].chars) /\ Laid(lines[k].chars, f[k], f[k + 1], t)

LEMMA EndedLine ==
  ASSUME NEW chars, IsLine(chars)
  PROVE  /\ Len(chars) \in Nat
         /\ chars \o <<Newline>> \in Seq(Character) /\ Len(chars \o <<Newline>>) = Len(chars) + 1
         /\ \A i \in 1..Len(chars) : (chars \o <<Newline>>)[i] = chars[i]
         /\ (chars \o <<Newline>>)[Len(chars) + 1] = Newline
<1>1. PICK x : x = Newline
  OBVIOUS
<1>2. <<x>> \in Seq(Character) /\ Len(<<x>>) = 1 /\ <<x>>[1] = x
  <2>1. x \in Character
    BY <1>1 DEF Character
  <2> QED
    BY <2>1
<1>3. chars \in Seq(Character) /\ Len(chars) \in Nat
  BY LenProperties DEF IsLine
<1>4. PICK u : u = chars \o <<x>>
  OBVIOUS
<1>5. /\ u \in Seq(Character) /\ Len(u) = Len(chars) + 1
      /\ \A i \in 1..Len(chars) + 1 : u[i] = IF i <= Len(chars) THEN chars[i] ELSE <<x>>[i - Len(chars)]
  BY <1>2, <1>3, <1>4, ConcatProperties
<1>6. \A i \in 1..Len(chars) : i \in 1..Len(chars) + 1 /\ i <= Len(chars)
  BY <1>3
<1>7. /\ Len(chars) + 1 \in 1..Len(chars) + 1
      /\ ~(Len(chars) + 1 <= Len(chars))
      /\ Len(chars) + 1 - Len(chars) = 1
  BY <1>3
<1>8. u[Len(chars) + 1] = x
  BY <1>2, <1>5, <1>7
<1>9. \A i \in 1..Len(chars) : u[i] = chars[i]
  BY <1>5, <1>6
<1> QED
  BY <1>1, <1>3, <1>4, <1>5, <1>8, <1>9

(* What is laid in a text stays there when a line is added.                *)
LEMMA LaidLonger ==
  ASSUME NEW t \in Seq(Character), NEW u \in Seq(Character), NEW chars, IsLine(chars),
         NEW b \in Nat \ {0}, NEW e \in Nat, e <= Len(t) + 1, Laid(chars, b, e, t)
  PROVE  Laid(chars, b, e, t \o u)
<1>1. Len(t) \in Nat /\ Len(u) \in Nat /\ Len(chars) \in Nat
  BY LenProperties DEF IsLine
<1>2. PICK v : v = t \o u
  OBVIOUS
<1>3. \A i \in 1..Len(t) : v[i] = t[i]
  <2>1. \A i \in 1..Len(t) + Len(u) : v[i] = IF i <= Len(t) THEN t[i] ELSE u[i - Len(t)]
    BY <1>2, ConcatProperties
  <2>2. \A i \in 1..Len(t) : i \in 1..Len(t) + Len(u) /\ i <= Len(t)
    BY <1>1
  <2> QED
    BY <2>1, <2>2
<1>4. e = b + Len(chars) + 1 /\ t[e - 1] = Newline /\ \A i \in 1..Len(chars) : t[b + i - 1] = chars[i]
  BY DEF Laid
<1>5. e - 1 \in 1..Len(t) /\ \A i \in 1..Len(chars) : b + i - 1 \in 1..Len(t)
  BY <1>1, <1>4
<1>6. v[e - 1] = Newline /\ \A i \in 1..Len(chars) : v[b + i - 1] = chars[i]
  BY <1>3, <1>4, <1>5
<1> QED
  BY <1>2, <1>4, <1>6 DEF Laid

LEMMA LaidLast ==
  ASSUME NEW t \in Seq(Character), NEW chars, IsLine(chars)
  PROVE  Laid(chars, Len(t) + 1, Len(t) + Len(chars) + 2, t \o (chars \o <<Newline>>))
<1>1. PICK u : u = chars \o <<Newline>>
  OBVIOUS
<1>2. /\ Len(chars) \in Nat /\ u \in Seq(Character) /\ Len(u) = Len(chars) + 1
      /\ \A i \in 1..Len(chars) : u[i] = chars[i]
      /\ u[Len(chars) + 1] = Newline
  BY <1>1, EndedLine
<1>3. PICK v : v = t \o u
  OBVIOUS
<1>4. Len(t) \in Nat /\ \A i \in 1..Len(t) + Len(u) : v[i] = IF i <= Len(t) THEN t[i] ELSE u[i - Len(t)]
  BY <1>2, <1>3, ConcatProperties, LenProperties
<1>5. ASSUME NEW i \in 1..Len(u)
      PROVE  v[Len(t) + i] = u[i]
  <2>1. PICK j : j = Len(t) + i
    OBVIOUS
  <2>2. j \in 1..Len(t) + Len(u) /\ ~(j <= Len(t)) /\ j - Len(t) = i
    BY <1>2, <1>4, <2>1
  <2> QED
    BY <1>4, <2>1, <2>2
<1>6. v[Len(t) + (Len(chars) + 1)] = Newline
  <2>1. Len(chars) + 1 \in 1..Len(u)
    BY <1>2
  <2> QED
    BY <1>2, <1>5, <2>1
<1>7. \A i \in 1..Len(chars) : v[Len(t) + i] = chars[i]
  <2>1. \A i \in 1..Len(chars) : i \in 1..Len(u)
    BY <1>2
  <2> QED
    BY <1>2, <1>5, <2>1
<1>8. /\ Len(t) + Len(chars) + 2 - 1 = Len(t) + (Len(chars) + 1)
      /\ Len(t) + Len(chars) + 2 = Len(t) + 1 + Len(chars) + 1
      /\ \A i \in 1..Len(chars) : Len(t) + 1 + i - 1 = Len(t) + i
  BY <1>2, <1>4
<1>9. /\ v[Len(t) + Len(chars) + 2 - 1] = Newline
      /\ \A i \in 1..Len(chars) : v[Len(t) + 1 + i - 1] = chars[i]
  BY <1>6, <1>7, <1>8
<1> QED
  BY <1>1, <1>3, <1>8, <1>9 DEF Laid

(* Every input has such a layout.                                          *)
LEMMA LayoutExists ==
  ASSUME NEW n \in Nat, NEW lines, DOMAIN lines = 1..n, Len(lines) = n,
         \A k \in 1..n : IsLine(lines[k].chars)
  PROVE  \E f : Layout(lines, f, Ended(lines))
<1> DEFINE seqs == [i \in DOMAIN lines |-> lines[i].chars \o <<Newline>>]
<1>1. \A i \in 1..n : seqs[i] = lines[i].chars \o <<Newline>> /\ seqs[i] \in Seq(Character)
  BY EndedLine
<1>2. Len(seqs) = n /\ Len(seqs) \in Nat
  <2>1. seqs \in [1..n -> Seq(Character)]
    BY <1>1
  <2> HIDE DEF seqs
  <2> QED
    BY <2>1, FunctionIsSeq
<1>3. Ended(lines) = FlattenSeq(seqs)
  BY DEF Ended
<1>4. CASE n = 0
  <2>1. Ended(lines) = seqs
    BY <1>2, <1>3, <1>4 DEF FlattenSeq
  <2>2. seqs = << >>
    <3>1. seqs \in [1..0 -> Seq(Character)]
      BY <1>1, <1>4
    <3> HIDE DEF seqs
    <3>2. seqs \in Seq(Seq(Character)) /\ Len(seqs) = 0
      BY <3>1, FunctionIsSeq
    <3> QED
      BY <3>2
  <2> DEFINE f == [k \in 1..(0 + 1) |-> 1]
  <2>3. f \in [1..(0 + 1) -> Nat \ {0}] /\ f[1] = 1 /\ f[0 + 1] = 1
    OBVIOUS
  <2>4. << >> \in Seq(Character) /\ Len(<< >>) = 1 - 1 /\ 0 \in Nat
    OBVIOUS
  <2> HIDE DEF f, seqs
  <2>5. Layout(lines, f, << >>)
    BY <1>4, <2>3, <2>4 DEF Layout
  <2> QED
    BY <2>1, <2>2, <2>5
<1>5. CASE n # 0
  <2> HIDE DEF seqs
  <2>1. PICK g : FlattensTo(seqs, g, n) /\ FlattenSeq(seqs) = g[n]
    BY <1>2, <1>5, FlattenSteps
  <2>2. \A i \in 1..n : g[i] = IF i = 1 THEN seqs[i] ELSE g[i - 1] \o seqs[i]
    BY <2>1 DEF FlattensTo
  <2> DEFINE f == [k \in 1..(n + 1) |-> IF k = 1 THEN 1 ELSE Len(g[k - 1]) + 1]
             LaidUpTo(k) == /\ g[k] \in Seq(Character)
                            /\ \A j \in 1..k : /\ f[j] \in Nat \ {0} /\ f[j + 1] \in Nat \ {0}
                                               /\ f[j + 1] <= Len(g[k]) + 1
                                               /\ Laid(lines[j].chars, f[j], f[j + 1], g[k])
             Holding == {k \in 1..n : LaidUpTo(k)}
  <2>3. f[1] = 1 /\ \A k \in 1..n : f[k + 1] = Len(g[k]) + 1
    <3>1. 1 \in 1..(n + 1)
      OBVIOUS
    <3>2. ASSUME NEW k \in 1..n
          PROVE  f[k + 1] = Len(g[k]) + 1
      <4>1. k + 1 \in 1..(n + 1) /\ k + 1 # 1 /\ k + 1 - 1 = k
        OBVIOUS
      <4> QED
        BY <4>1
    <3> QED
      BY <3>1, <3>2
  <2> HIDE DEF f
  <2>4. ASSUME NEW k \in 1..n, g[k] \in Seq(Character), Len(g[k]) \in Nat \ {0},
               NEW t \in Seq(Character), f[k] = Len(t) + 1, g[k] = t \o seqs[k]
        PROVE  /\ f[k] \in Nat \ {0} /\ f[k + 1] \in Nat \ {0} /\ f[k + 1] <= Len(g[k]) + 1
               /\ Laid(lines[k].chars, f[k], f[k + 1], g[k])
    <3>1. IsLine(lines[k].chars) /\ Len(lines[k].chars) \in Nat
      BY EndedLine
    <3>2. g[k] = t \o (lines[k].chars \o <<Newline>>)
      BY <1>1, <2>4
    <3>3. Laid(lines[k].chars, Len(t) + 1, Len(t) + Len(lines[k].chars) + 2, g[k])
      BY <3>1, <3>2, LaidLast
    <3>4. Len(seqs[k]) = Len(lines[k].chars) + 1 /\ seqs[k] \in Seq(Character)
      BY <1>1, <3>1, EndedLine
    <3>5. Len(g[k]) = Len(t) + Len(seqs[k]) /\ Len(t) \in Nat
      BY <2>4, <3>4, ConcatProperties, LenProperties
    <3> DEFINE a == Len(t)
               b == Len(lines[k].chars)
               c == Len(g[k])
    <3>6. a \in Nat /\ b \in Nat /\ c = a + (b + 1) /\ f[k + 1] = c + 1 /\ f[k] = a + 1
      BY <2>3, <2>4, <3>1, <3>4, <3>5
    <3>7. f[k + 1] = Len(t) + Len(lines[k].chars) + 2
      <4> HIDE DEF a, b, c
      <4>1. f[k + 1] = a + b + 2
        BY <3>6
      <4> QED
        BY <4>1 DEF a, b
    <3>8. f[k] \in Nat \ {0} /\ f[k + 1] \in Nat \ {0} /\ f[k + 1] <= Len(g[k]) + 1
      <4> HIDE DEF a, b, c
      <4>1. f[k] \in Nat \ {0} /\ f[k + 1] \in Nat \ {0} /\ f[k + 1] <= c + 1
        BY <3>6
      <4> QED
        BY <4>1 DEF c
    <3> QED
      BY <2>4, <3>3, <3>7, <3>8
  <2>5. 1..n \subseteq Holding
    <3> SUFFICES ASSUME ~(1..n \subseteq Holding)
                 PROVE  FALSE
      OBVIOUS
    <3>1. PICK k \in 1..n : k \notin Holding /\ 1..(k - 1) \subseteq Holding
      <4> HIDE DEF Holding
      <4> QED
        BY FirstFailure
    <3>2. CASE k = 1
      <4>1. g[k] = seqs[k] /\ g[k] \in Seq(Character)
        BY <1>1, <2>2, <3>2
      <4>2. << >> \in Seq(Character) /\ << >> \o seqs[k] = seqs[k] /\ Len(<< >>) = 0
        BY <1>1, ConcatEmptySeq
      <4>3. Len(g[k]) \in Nat \ {0}
        <5>1. Len(seqs[k]) = Len(lines[k].chars) + 1 /\ Len(lines[k].chars) \in Nat
          BY <1>1, EndedLine
        <5> QED
          BY <4>1, <5>1
      <4>4. f[k] = Len(<< >>) + 1
        BY <2>3, <3>2, <4>2
      <4>5. /\ f[k] \in Nat \ {0} /\ f[k + 1] \in Nat \ {0} /\ f[k + 1] <= Len(g[k]) + 1
            /\ Laid(lines[k].chars, f[k], f[k + 1], g[k])
        BY <2>4, <4>1, <4>2, <4>3, <4>4
      <4>6. LaidUpTo(k)
        BY <3>2, <4>1, <4>5
      <4> QED
        BY <3>1, <4>6
    <3>3. CASE k # 1
      <4>1. PICK m : m = k - 1
        OBVIOUS
      <4>2. m \in 1..(k - 1) /\ m \in 1..n /\ m + 1 = k
        BY <3>3, <4>1
      <4>3. LaidUpTo(m)
        BY <3>1, <4>2
      <4>4. g[k] = g[m] \o seqs[k] /\ g[m] \in Seq(Character) /\ seqs[k] \in Seq(Character)
        BY <1>1, <2>2, <3>3, <4>1, <4>3
      <4>5. g[k] \in Seq(Character) /\ Len(g[k]) = Len(g[m]) + Len(seqs[k]) /\ Len(g[m]) \in Nat
        BY <4>4, ConcatProperties, LenProperties
      <4>6. Len(g[k]) \in Nat \ {0} /\ Len(g[k]) >= Len(g[m])
        <5>1. Len(seqs[k]) = Len(lines[k].chars) + 1 /\ Len(lines[k].chars) \in Nat
          BY <1>1, EndedLine
        <5> DEFINE a == Len(g[m])
                   b == Len(lines[k].chars)
                   c == Len(g[k])
        <5>2. a \in Nat /\ b \in Nat /\ c = a + (b + 1)
          BY <4>5, <5>1
        <5> HIDE DEF a, b, c
        <5>3. c \in Nat \ {0} /\ c >= a
          BY <5>2
        <5> QED
          BY <5>3 DEF a, c
      <4>7. f[k] = Len(g[m]) + 1
        BY <2>3, <4>2
      <4>8. /\ f[k] \in Nat \ {0} /\ f[k + 1] \in Nat \ {0} /\ f[k + 1] <= Len(g[k]) + 1
            /\ Laid(lines[k].chars, f[k], f[k + 1], g[k])
        BY <2>4, <4>4, <4>5, <4>6, <4>7
      <4>9. ASSUME NEW j \in 1..m
            PROVE  /\ f[j] \in Nat \ {0} /\ f[j + 1] \in Nat \ {0} /\ f[j + 1] <= Len(g[k]) + 1
                   /\ Laid(lines[j].chars, f[j], f[j + 1], g[k])
        <5>1. /\ f[j] \in Nat \ {0} /\ f[j + 1] \in Nat \ {0} /\ f[j + 1] <= Len(g[m]) + 1
              /\ Laid(lines[j].chars, f[j], f[j + 1], g[m])
          BY <4>3
        <5>2. IsLine(lines[j].chars)
          BY <4>2
        <5>3. Laid(lines[j].chars, f[j], f[j + 1], g[m] \o seqs[k])
          BY <4>4, <5>1, <5>2, LaidLonger
        <5>4. f[j + 1] <= Len(g[k]) + 1
          <6> DEFINE a == Len(g[m])
                     c == Len(g[k])
                     e == f[j + 1]
          <6>1. a \in Nat /\ c \in Nat /\ c >= a /\ e \in Nat /\ e <= a + 1
            BY <4>5, <4>6, <5>1
          <6> HIDE DEF a, c, e
          <6>2. e <= c + 1
            BY <6>1
          <6> QED
            BY <6>2 DEF c, e
        <5> QED
          BY <4>4, <5>1, <5>3, <5>4
      <4>10. \A j \in 1..k : j \in 1..m \/ j = k
        BY <4>2
      <4>11. LaidUpTo(k)
        BY <4>5, <4>8, <4>9, <4>10
      <4> QED
        BY <3>1, <4>11
    <3> QED
      BY <3>2, <3>3
  <2>6. n \in 1..n
    BY <1>5
  <2>7. LaidUpTo(n)
    BY <2>5, <2>6
  <2>8. f \in [1..(n + 1) -> Nat \ {0}]
    <3>1. ASSUME NEW k \in 1..(n + 1)
          PROVE  f[k] \in Nat \ {0}
      <4>1. CASE k = n + 1
        BY <2>6, <2>7, <4>1
      <4>2. CASE k # n + 1
        <5>1. k \in 1..n
          BY <4>2
        <5> QED
          BY <2>7, <5>1
      <4> QED
        BY <4>1, <4>2
    <3> QED
      BY <3>1 DEF f
  <2>9. Len(g[n]) = f[n + 1] - 1
    <3>1. Len(g[n]) \in Nat
      BY <2>7, LenProperties
    <3> QED
      BY <2>3, <2>6, <3>1
  <2>10. \A k \in 1..n : IsLine(lines[k].chars) /\ Laid(lines[k].chars, f[k], f[k + 1], g[n])
    BY <2>7
  <2>11. Layout(lines, f, g[n])
    BY <2>3, <2>7, <2>8, <2>9, <2>10 DEF Layout
  <2> QED
    BY <1>3, <2>1, <2>11
<1> QED
  BY <1>4, <1>5

LEMMA LayoutFacts ==
  ASSUME NEW lines, NEW f, NEW t, Layout(lines, f, t), NEW k \in 1..Len(lines)
  PROVE  /\ Len(lines) \in Nat /\ k + 1 \in 1..(Len(lines) + 1)
         /\ f[k] \in Nat \ {0} /\ f[k + 1] \in Nat \ {0} /\ Len(lines[k].chars) \in Nat
         /\ f[k + 1] = f[k] + Len(lines[k].chars) + 1
         /\ t[f[k + 1] - 1] = Newline
         /\ \A i \in 1..Len(lines[k].chars) :
              /\ t[f[k] + i - 1] = lines[k].chars[i] /\ lines[k].chars[i] # Newline
              /\ lines[k].chars[i] \in Character
<1> DEFINE n == Len(lines)
<1>1. /\ n \in Nat /\ f \in [1..(n + 1) -> Nat \ {0}]
      /\ IsLine(lines[k].chars) /\ Laid(lines[k].chars, f[k], f[k + 1], t)
  BY DEF Layout
<1>2. k \in 1..(n + 1) /\ k + 1 \in 1..(n + 1)
  BY <1>1
<1>3. Len(lines[k].chars) \in Nat /\ \A i \in 1..Len(lines[k].chars) : lines[k].chars[i] \in Character
  BY <1>1, LenProperties, ElementOfSeq DEF IsLine
<1> QED
  BY <1>1, <1>2, <1>3 DEF Laid, IsLine

LEMMA LaidNotNewline ==
  ASSUME NEW lines, NEW f, NEW t, Layout(lines, f, t), NEW k \in 1..Len(lines)
  PROVE  \A i \in 1..Len(lines[k].chars) : t[f[k] + i - 1] # Newline
<1>1. \A i \in 1..Len(lines[k].chars) :
        /\ t[f[k] + i - 1] = lines[k].chars[i] /\ lines[k].chars[i] # Newline
        /\ lines[k].chars[i] \in Character
  BY LayoutFacts, Zenon
<1> QED
  BY <1>1, Zenon

(* Lines follow each other.                                                *)
LEMMA LayoutOrder ==
  ASSUME NEW lines, NEW f, NEW t, Layout(lines, f, t), NEW j \in 1..(Len(lines) + 1)
  PROVE  /\ Len(lines) \in Nat /\ Len(t) \in Nat /\ f[Len(lines) + 1] = Len(t) + 1
         /\ f[j] \in Nat \ {0} /\ f[j] <= Len(t) + 1
         /\ \A k \in (j + 1)..(Len(lines) + 1) : f[k] \in Nat \ {0} /\ f[j] < f[k]
<1> DEFINE n == Len(lines)
<1>1. /\ n \in Nat /\ f \in [1..(n + 1) -> Nat \ {0}]
      /\ t \in Seq(Character) /\ Len(t) = f[n + 1] - 1
  BY DEF Layout
<1> DEFINE P == {m \in Nat : j + m + 1 <= n + 1 => f[j + m + 1] \in Nat \ {0} /\ f[j] < f[j + m + 1]}
<1>2. f[j] \in Nat \ {0} /\ j \in Nat \ {0}
  BY <1>1
<1>3. ASSUME NEW m \in Nat, NEW q \in 1..n, q = j + m, m = 0 \/ f[j] < f[q]
      PROVE  m \in P
  <2>1. /\ f[q] \in Nat \ {0} /\ f[q + 1] \in Nat \ {0} /\ Len(lines[q].chars) \in Nat
        /\ f[q + 1] = f[q] + Len(lines[q].chars) + 1
    BY LayoutFacts
  <2>2. f[q] < f[q + 1] /\ f[j] <= f[q]
    <3>1. f[q] < f[q + 1]
      <4> DEFINE a == f[q]
                 b == f[q + 1]
                 c == Len(lines[q].chars)
      <4>1. a \in Nat /\ c \in Nat /\ b = a + c + 1
        BY <2>1
      <4> HIDE DEF a, b, c
      <4>2. a < b
        BY <4>1
      <4> QED
        BY <4>2 DEF a, b
    <3>2. m = 0 => q = j
      BY <1>2, <1>3
    <3> QED
      BY <1>2, <1>3, <2>1, <3>1, <3>2
  <2>3. f[j] < f[q + 1]
    BY <1>2, <2>1, <2>2
  <2> QED
    BY <1>3, <2>1, <2>3
<1>4. 0 \in P
  <2>1. CASE j + 0 + 1 <= n + 1
    <3>1. PICK q : q = j + 0
      OBVIOUS
    <3>2. q \in 1..n
      BY <1>1, <1>2, <2>1, <3>1
    <3> QED
      BY <1>3, <3>1, <3>2
  <2> QED
    BY <2>1
<1>5. ASSUME NEW m \in Nat, m \in P
      PROVE  m + 1 \in P
  <2>1. CASE j + (m + 1) + 1 <= n + 1
    <3>1. PICK q : q = j + (m + 1)
      OBVIOUS
    <3>2. q \in 1..n /\ q = j + m + 1 /\ j + m + 1 <= n + 1 /\ m + 1 \in Nat
      BY <1>1, <1>2, <2>1, <3>1
    <3>3. f[j] < f[q]
      BY <1>5, <3>2
    <3> QED
      BY <1>3, <3>1, <3>2, <3>3
  <2> QED
    BY <2>1
<1>6. Nat \subseteq P
  <2> HIDE DEF P
  <2> QED
    BY <1>4, <1>5, NaturalsByStep
<1>7. ASSUME NEW k \in (j + 1)..(n + 1)
      PROVE  f[k] \in Nat \ {0} /\ f[j] < f[k]
  <2>1. PICK m : m = k - j - 1
    OBVIOUS
  <2>2. m \in Nat /\ k = j + m + 1 /\ j + m + 1 <= n + 1
    BY <1>1, <1>2, <2>1
  <2> QED
    BY <1>6, <2>2
<1>8. f[n + 1] = Len(t) + 1
  BY <1>1
<1>9. f[j] <= Len(t) + 1
  <2>1. n + 1 \in (j + 1)..(n + 1) \/ j = n + 1
    BY <1>1, <1>2
  <2>2. f[j] <= f[n + 1]
    BY <1>1, <1>2, <1>7, <2>1
  <2> QED
    BY <1>8, <2>2
<1>10. Len(t) \in Nat
  BY <1>1
<1> QED
  BY <1>1, <1>2, <1>7, <1>8, <1>9, <1>10

(* Before line k there are k - 1 newlines.                                 *)
NewlinesIn(t, p) == {i \in 1..(p - 1) : t[i] = Newline}

LEMMA NewlinesBefore ==
  ASSUME NEW lines, NEW f, NEW t, Layout(lines, f, t), NEW k \in 1..(Len(lines) + 1)
  PROVE  IsFiniteSet(NewlinesIn(t, f[k])) /\ Cardinality(NewlinesIn(t, f[k])) = k - 1
<1> DEFINE n == Len(lines)
           L(j) == NewlinesIn(t, f[j])
           P == {m \in Nat : m + 1 <= n + 1 => IsFiniteSet(L(m + 1)) /\ Cardinality(L(m + 1)) = m}
<1>1. n \in Nat /\ f[1] = 1
  BY DEF Layout
<1>2. 0 \in P
  <2>1. L(1) = {}
    BY <1>1 DEF NewlinesIn
  <2>2. 0 + 1 = 1 /\ IsFiniteSet({}) /\ Cardinality({}) = 0
    BY FS_EmptySet
  <2> HIDE DEF L
  <2> QED
    BY <2>1, <2>2
<1>3. ASSUME NEW m \in Nat, m \in P
      PROVE  m + 1 \in P
  <2>1. CASE m + 1 + 1 <= n + 1
    <3>1. PICK q : q = m + 1
      OBVIOUS
    <3>2. q \in 1..n /\ q <= n + 1
      BY <1>1, <2>1, <3>1
    <3>3. /\ f[q] \in Nat \ {0} /\ f[q + 1] \in Nat \ {0} /\ Len(lines[q].chars) \in Nat
          /\ f[q + 1] = f[q] + Len(lines[q].chars) + 1 /\ t[f[q + 1] - 1] = Newline
          /\ \A i \in 1..Len(lines[q].chars) : t[f[q] + i - 1] # Newline
      <4>1. q \in 1..Len(lines)
        BY <3>2
      <4> HIDE DEF P, L, n
      <4>2. /\ f[q] \in Nat \ {0} /\ f[q + 1] \in Nat \ {0} /\ Len(lines[q].chars) \in Nat
            /\ f[q + 1] = f[q] + Len(lines[q].chars) + 1 /\ t[f[q + 1] - 1] = Newline
        BY <4>1, LayoutFacts
      <4>3. \A i \in 1..Len(lines[q].chars) : t[f[q] + i - 1] # Newline
        BY <4>1, LaidNotNewline
      <4> QED
        BY <4>2, <4>3
    <3> DEFINE a == f[q]
               b == f[q + 1]
               l == Len(lines[q].chars)
    <3>4. a \in Nat \ {0} /\ l \in Nat /\ b = a + l + 1 /\ t[b - 1] = Newline
          /\ \A i \in 1..l : t[a + i - 1] # Newline
      BY <3>3
    <3>5. L(q) = {i \in 1..(a - 1) : t[i] = Newline} /\ L(q + 1) = {i \in 1..(b - 1) : t[i] = Newline}
      BY DEF NewlinesIn
    <3> HIDE DEF a, b, l, L
    <3>6. L(q + 1) = L(q) \cup {b - 1} /\ b - 1 \notin L(q)
      <4>1. ASSUME NEW i \in 1..(b - 1), t[i] = Newline
            PROVE  i \in 1..(a - 1) \/ i = b - 1
        <5>1. SUFFICES ASSUME i >= a, i # b - 1
                       PROVE  FALSE
          BY <3>4
        <5>2. PICK x : x = i - a + 1
          OBVIOUS
        <5>3. x \in 1..l /\ a + x - 1 = i
          BY <3>4, <5>1, <5>2
        <5> QED
          BY <3>4, <4>1, <5>3
      <4>2. 1..(a - 1) \subseteq 1..(b - 1) /\ b - 1 \in 1..(b - 1) /\ b - 1 \notin 1..(a - 1)
        BY <3>4
      <4> QED
        BY <3>4, <3>5, <4>1, <4>2
    <3>7. IsFiniteSet(L(q)) /\ Cardinality(L(q)) = m
      BY <1>3, <3>1, <3>2
    <3>8. IsFiniteSet(L(q + 1)) /\ Cardinality(L(q + 1)) = m + 1
      BY <3>6, <3>7, FS_AddElement
    <3> QED
      BY <3>1, <3>8
  <2> QED
    BY <2>1
<1>4. Nat \subseteq P
  <2> HIDE DEF P
  <2> QED
    BY <1>2, <1>3, NaturalsByStep
<1>5. PICK m : m = k - 1
  OBVIOUS
<1>6. m \in Nat /\ m + 1 = k /\ m + 1 <= n + 1
  BY <1>1, <1>5
<1> HIDE DEF L
<1>7. IsFiniteSet(L(k)) /\ Cardinality(L(k)) = m
  BY <1>4, <1>6
<1> QED
  BY <1>5, <1>7 DEF L

(* LineOf numbers the lines.                                                *)
LEMMA LineOfLaid ==
  ASSUME NEW lines, NEW f, NEW t, Layout(lines, f, t), NEW k \in 1..Len(lines),
         NEW p \in f[k]..(f[k + 1] - 1), \A i \in 1..(p - 1) : text[i] = t[i]
  PROVE  LineOf(p) = k
<1>1. /\ Len(lines) \in Nat /\ f[k] \in Nat \ {0} /\ Len(lines[k].chars) \in Nat
      /\ f[k + 1] = f[k] + Len(lines[k].chars) + 1
  BY LayoutFacts
<1>2. \A i \in 1..Len(lines[k].chars) : t[f[k] + i - 1] # Newline
  BY LaidNotNewline
<1>3. k \in 1..(Len(lines) + 1) /\ k \in Nat
  BY <1>1
<1>4. Cardinality(NewlinesIn(t, f[k])) = k - 1
  BY <1>3, NewlinesBefore
<1>5. LineOf(p) = 1 + Cardinality(NewlinesIn(text, p))
  BY DEF LineOf, NewlinesIn
<1> DEFINE a == f[k]
           b == f[k + 1]
           l == Len(lines[k].chars)
           A == NewlinesIn(t, a)
           B == NewlinesIn(text, p)
<1>6. /\ a \in Nat \ {0} /\ l \in Nat /\ b = a + l + 1 /\ p \in a..(b - 1)
      /\ \A i \in 1..l : t[a + i - 1] # Newline
  BY <1>1, <1>2
<1>7. Cardinality(A) = k - 1 /\ LineOf(p) = 1 + Cardinality(B)
  BY <1>4, <1>5
<1> HIDE DEF a, b, l
<1>8. A = B
  <2>1. A = {i \in 1..(a - 1) : t[i] = Newline} /\ B = {i \in 1..(p - 1) : text[i] = Newline}
    BY DEF NewlinesIn
  <2>2. 1..(a - 1) \subseteq 1..(p - 1)
    BY <1>6
  <2>3. ASSUME NEW i \in 1..(p - 1), t[i] = Newline
        PROVE  i \in 1..(a - 1)
    <3>1. SUFFICES ASSUME i >= a
                   PROVE  FALSE
      BY <1>6
    <3>2. PICK x : x = i - a + 1
      OBVIOUS
    <3>3. x \in 1..l /\ a + x - 1 = i
      BY <1>6, <3>1, <3>2
    <3> QED
      BY <1>6, <2>3, <3>3
  <2> HIDE DEF A, B
  <2>4. \A i \in A : i \in B
    BY <2>1, <2>2
  <2>5. \A i \in B : i \in A
    BY <2>1, <2>3
  <2> QED
    BY <2>4, <2>5
<1> HIDE DEF A, B
<1> QED
  BY <1>3, <1>7, <1>8
-----------------------------------------------------------------------------
(* Where the lines are, and what the calls of get_next made of them.       *)

\* Line k of the file begins at f[k], and ends before a newline unless it is
\* the last one of a file that lacks it.
LineAt(f, k) ==
  LET chars == script[k].chars
  IN  /\ script[k] \in Lines /\ IsLine(chars)
      /\ f[k + 1] = f[k] + Len(chars) + 1
      /\ \A i \in 1..Len(chars) : text[f[k] + i - 1] = chars[i]
      /\ Terminated(k) => text[f[k + 1] - 1] = Newline
      /\ \A p \in f[k]..(f[k + 1] - 1) : LineOf(p) = k

FileIs(f) ==
  LET n == Len(script)
  IN  /\ n \in Nat \ {0} /\ DOMAIN script = 1..n /\ complete \in BOOLEAN
      /\ f \in [1..(n + 1) -> Nat \ {0}] /\ f[1] = 1
      /\ text \in Seq(Character)
      /\ End = (IF complete THEN f[n + 1] ELSE f[n + 1] - 1)
      /\ \A k \in 1..n : LineAt(f, k)
      /\ \A j, k \in 1..(n + 1) : j < k => f[j] < f[k]

\* Where line k begins; after the last line that is the end.
StartOf(f, k) == IF k \in 1..Len(script) THEN f[k] ELSE End

\* Where the next call of get_next begins, or the one under way began.
Here(f) == IF pc \in {"open", "list"} THEN f[line] ELSE pos

\* What has been logged for a line is what it means.
EntryOK(n, what) ==
  IF Terminated(n) THEN script[n].class # "other" => Same(what, script[n].means)
                   ELSE script[n].class = "good" => DoneUnterminated(what, script[n].means)

LogOK == \A i \in DOMAIN log : EntryOK(log[i][1], log[i][2])

\* The lines are taken in their order, and those that are due are taken now
\* if they have not been.
Due(n) == n = 1 \/ (n - 1 \in Begun /\ script[n - 1].class \in {"good", "blank", "bad"})

OrderOK(f) ==
  /\ \A n \in Begun : n \in LineNumbers /\ f[n] < Here(f)
  /\ \A n \in LineNumbers : Due(n) => n \in Begun \/ Here(f) = f[n]
  /\ \A n \in Begun :
       script[n].class = "greedy" /\ n + 1 \in LineNumbers =>
         /\ n + 1 \notin Begun /\ f[n + 1] < Here(f)
         /\ n + 2 \in LineNumbers => n + 2 \in Begun \/ Here(f) = f[n + 2]

\* A line that says what happens to it.
Known(n) == script[n].class # "other" /\ (Terminated(n) \/ script[n].class = "good")

\* The list of the line has been read up to the string that ends at j.
ListAt(f, j) ==
  LET s == script[line].chars
      t == Rest(cmd, s)
  IN  /\ j \in Places(t) /\ Reaches(cmd, t, j)
      /\ StringAt(cmd, t, j) <= j
      /\ pos = f[line] + Len(Keyword[cmd]) - 1 + StringAt(cmd, t, j)
      /\ cmd = "WRITE" => t[Previous(t, j)] # ","
      /\ Len(args) = ItemsBefore(cmd, t, j)
      /\ script[line].class = "good" =>
           \A i \in 1..Len(args) : args[i] = script[line].means.args[i]

ReadingOK(f) ==
  /\ pc = "next" => \E k \in 1..(Len(script) + 1) : pos = StartOf(f, k)
  /\ pc = "done" => pos = End
  /\ pc \in {"open", "list"} =>
       /\ line \in LineNumbers /\ f[line] < pos
       /\ cmd \in CommandsOf(script[line].chars) /\ cmd \notin Bare
  /\ pc = "open" => pos = f[line] + Len(Keyword[cmd])
  /\ pc = "list" /\ Known(line) => \E j \in Places(Rest(cmd, script[line].chars)) : ListAt(f, j)

LinesInv(f) == FileIs(f) /\ LogOK /\ OrderOK(f) /\ ReadingOK(f)

-----------------------------------------------------------------------------
(* The file.                                                               *)
LEMMA LinesAreLines ==
  ASSUME NEW l \in Lines
  PROVE  IsLine(l.chars)
<1>1. l.chars \in Seq(STRING) /\ \A i \in DOMAIN l.chars : l.chars[i] # Newline
  BY LinesAssumption
<1>2. l.chars \in Seq(Character)
  BY <1>1, SeqMonotonic DEF Character
<1> QED
  BY <1>1, <1>2, LenProperties DEF IsLine

(* The characters of the file are those of its lines.                      *)
LEMMA InitText2 ==
  ASSUME Init, NEW f, Layout(script, f, Ended(script)), Len(script) \in Nat \ {0}
  PROVE  /\ text \in Seq(Character)
         /\ End = (IF complete THEN f[Len(script) + 1] ELSE f[Len(script) + 1] - 1)
         /\ \A i \in 1..Len(text) : text[i] = Ended(script)[i]
         /\ Len(Ended(script)) = f[Len(script) + 1] - 1
<1> DEFINE all == Ended(script)
           n == Len(script)
<1>1. all \in Seq(Character) /\ Len(all) = f[n + 1] - 1 /\ f[n + 1] \in Nat \ {0}
  BY DEF Layout
<1>2. complete \in BOOLEAN /\ text = IF complete THEN all ELSE Front(all)
  BY DEF Init
<1>3. Len(all) \in Nat \ {0}
  <2>1. n \in 1..Len(script) /\ 1 \in 1..(Len(script) + 1)
    OBVIOUS
  <2>2. /\ f[n] \in Nat \ {0} /\ Len(script[n].chars) \in Nat
        /\ f[n + 1] = f[n] + Len(script[n].chars) + 1
    BY <2>1, LayoutFacts
  <2> DEFINE a == f[n]
             b == Len(script[n].chars)
             c == f[n + 1]
  <2> HIDE DEF all, n
  <2> QED
    BY <1>1, <2>2
<1> HIDE DEF all
<1>4. CASE complete
  BY <1>1, <1>2, <1>4, LenProperties DEF End, all
<1>5. CASE ~complete
  <2>1. text = SubSeq(all, 1, Len(all) - 1)
    BY <1>2, <1>5 DEF Front
  <2> DEFINE m == Len(all) - 1
  <2>2. m \in Nat /\ \A i \in 1..m : all[i] \in Character
    BY <1>1, <1>3
  <2> HIDE DEF m
  <2>3. /\ SubSeq(all, 1, m) \in Seq(Character)
        /\ Len(SubSeq(all, 1, m)) = IF 1 <= m THEN m - 1 + 1 ELSE 0
        /\ \A i \in 1 .. m - 1 + 1 : SubSeq(all, 1, m)[i] = all[1 + i - 1]
    BY <2>2, SubSeqProperties
  <2>4. Len(SubSeq(all, 1, m)) = m /\ \A i \in 1 .. m : SubSeq(all, 1, m)[i] = all[i]
    BY <2>2, <2>3
  <2>5. text \in Seq(Character) /\ Len(text) = m /\ \A i \in 1..m : text[i] = all[i]
    BY <2>1, <2>3, <2>4 DEF m
  <2>6. End = f[n + 1] - 1
    BY <1>1, <1>3, <2>5 DEF End, m
  <2> QED
    BY <1>1, <1>5, <2>5, <2>6 DEF all
<1> QED
  BY <1>2, <1>4, <1>5

LEMMA InitFile == Init => \E f : FileIs(f)
<1> SUFFICES ASSUME Init
             PROVE  \E f : FileIs(f)
  OBVIOUS
<1>1. PICK n \in Nat \ {0} : script \in [1..n -> Lines]
  BY ParserAssumption DEF Init, Files
<1>2. Len(script) = n /\ DOMAIN script = 1..n
  BY <1>1, FunctionIsSeq
<1>3. \A k \in 1..n : script[k] \in Lines /\ IsLine(script[k].chars)
  BY <1>1, LinesAreLines
<1>4. PICK f : Layout(script, f, Ended(script))
  BY <1>2, <1>3, LayoutExists
<1>5. /\ text \in Seq(Character)
      /\ End = (IF complete THEN f[n + 1] ELSE f[n + 1] - 1)
      /\ \A i \in 1..Len(text) : text[i] = Ended(script)[i]
      /\ Len(Ended(script)) = f[n + 1] - 1
  BY <1>2, <1>4, InitText2
<1>6. complete \in BOOLEAN /\ f \in [1..(n + 1) -> Nat \ {0}] /\ f[1] = 1
  BY <1>2, <1>4 DEF Init, Layout
<1>7. ASSUME NEW j \in 1..(n + 1), NEW k \in 1..(n + 1), j < k
      PROVE  f[j] < f[k]
  <2>1. k \in (j + 1)..(n + 1)
    BY <1>7
  <2> QED
    BY <1>2, <1>4, <2>1, LayoutOrder
<1>8. Len(text) \in Nat /\ End = Len(text) + 1 /\ f[n + 1] \in Nat
  <2>1. n + 1 \in 1..(n + 1)
    OBVIOUS
  <2> QED
    BY <1>5, <1>6, <2>1 DEF End
<1>9. ASSUME NEW k \in 1..n
      PROVE  LineAt(f, k)
  <2>1. k \in 1..Len(script) /\ k + 1 \in 1..(n + 1)
    BY <1>2
  <2>2. /\ f[k] \in Nat \ {0} /\ f[k + 1] \in Nat \ {0} /\ Len(script[k].chars) \in Nat
        /\ f[k + 1] = f[k] + Len(script[k].chars) + 1
        /\ Ended(script)[f[k + 1] - 1] = Newline
        /\ \A i \in 1..Len(script[k].chars) : Ended(script)[f[k] + i - 1] = script[k].chars[i]
    BY <1>4, <2>1, LayoutFacts, SMTT(20)
  <2>3. f[k + 1] <= f[n + 1] /\ (k < n => f[k + 1] < f[n + 1])
    <3>1. /\ k + 1 \in 1..(n + 1)
          /\ n + 1 \in 1..(n + 1)
          /\ (k < n => k + 1 < n + 1)
          /\ (~(k < n) => k + 1 = n + 1)
      OBVIOUS
    <3> QED
      BY <1>7, <1>8, <2>2, <3>1
  <2>4. PICK a, e, l, last : a = f[k] /\ e = f[k + 1] /\ l = Len(script[k].chars) /\ last = f[n + 1]
    OBVIOUS
  <2>5. /\ a \in Nat \ {0} /\ e \in Nat \ {0} /\ l \in Nat /\ last \in Nat /\ e = a + l + 1
        /\ e <= last /\ (k < n => e < last)
        /\ Len(text) \in Nat /\ Len(text) = (IF complete THEN last ELSE last - 1) - 1
    <3>1. /\ a \in Nat \ {0} /\ e \in Nat \ {0} /\ l \in Nat /\ last \in Nat /\ e = a + l + 1
          /\ e <= last /\ (k < n => e < last)
      BY <1>8, <2>2, <2>3, <2>4
    <3>2. Len(text) \in Nat /\ Len(text) + 1 = (IF complete THEN last ELSE last - 1)
      BY <1>5, <1>8, <2>4
    <3>3. Len(text) = (IF complete THEN last ELSE last - 1) - 1
      BY <3>1, <3>2
    <3> QED
      BY <3>1, <3>2, <3>3
  <2>6. last - 2 <= Len(text) /\ (complete => last - 1 <= Len(text))
    BY <2>5
  <2>7. \A i \in 1..l : a + i - 1 \in 1..Len(text)
    <3> SUFFICES ASSUME NEW i \in 1..l
                 PROVE  a + i - 1 \in 1..Len(text)
      OBVIOUS
    <3>1. a + i - 1 <= e - 2 /\ 1 <= a + i - 1 /\ a + i - 1 \in Int
      BY <2>5
    <3> QED
      BY <2>5, <2>6, <3>1
  <2>8. \A i \in 1..Len(script[k].chars) : text[f[k] + i - 1] = script[k].chars[i]
    BY <1>5, <2>2, <2>7, <2>4
  <2>9. Terminated(k) => text[f[k + 1] - 1] = Newline
    <3> SUFFICES ASSUME Terminated(k)
                 PROVE  text[f[k + 1] - 1] = Newline
      OBVIOUS
    <3>1. k < n \/ complete
      BY <1>2 DEF Terminated
    <3>2. e - 1 \in 1..Len(text)
      <4>1. CASE complete
        BY <2>5, <2>6, <4>1
      <4>2. CASE k < n
        BY <2>5, <2>6, <4>2
      <4> QED
        BY <3>1, <4>1, <4>2
    <3> QED
      BY <1>5, <2>2, <2>4, <3>2
  <2>10. ASSUME NEW p \in f[k]..(f[k + 1] - 1)
        PROVE  LineOf(p) = k
    <3>1. p - 1 <= Len(text) /\ p \in Nat
      BY <2>10, <2>5, <2>4
    <3>2. \A i \in 1..(p - 1) : text[i] = Ended(script)[i]
      BY <1>5, <2>5, <3>1
    <3> QED
      BY <1>4, <2>1, <3>2, LineOfLaid
  <2> QED
    BY <1>3, <2>2, <2>8, <2>9, <2>10 DEF LineAt

<1> QED
  BY <1>1, <1>2, <1>5, <1>6, <1>7, <1>9 DEF FileIs

-----------------------------------------------------------------------------
(* The lists of a line: from one place to the next.                        *)

\* j is the first place after k.
FirstAfter(t, k, j) == j \in Places(t) /\ k < j /\ \A i \in Stops(t) : i > k => j <= i

LEMMA StopsAre ==
  ASSUME NEW t \in Seq(Character)
  PROVE  /\ Len(t) \in Nat /\ Stops(t) \subseteq 1..Len(t) /\ IsFiniteSet(Stops(t))
         /\ Places(t) \subseteq 1..(Len(t) + 1)
         /\ \A c : ItemEnds(c, t) \subseteq Stops(t)
<1>1. Len(t) \in Nat /\ DOMAIN t = 1..Len(t)
  BY LenProperties
<1>2. Stops(t) \subseteq 1..Len(t) /\ \A c : ItemEnds(c, t) \subseteq Stops(t)
  BY <1>1 DEF Stops, ItemEnds
<1>3. IsFiniteSet(1..Len(t))
  BY <1>1, FS_Interval
<1>4. IsFiniteSet(Stops(t))
  BY <1>2, <1>3, FS_Subset
<1>5. Places(t) \subseteq 1..(Len(t) + 1)
  BY <1>1, <1>2 DEF Places
<1> QED
  BY <1>1, <1>2, <1>4, <1>5

LEMMA PreviousIs ==
  ASSUME NEW t \in Seq(Character), NEW j
  PROVE  /\ Previous(t, j) \in {1} \cup Before(t, j)
         /\ \A i \in {1} \cup Before(t, j) : i <= Previous(t, j)
<1> DEFINE I == {1} \cup Before(t, j)
<1>1. Len(t) \in Nat /\ Before(t, j) \subseteq 1..Len(t)
  BY StopsAre DEF Before
<1>2. I \in SUBSET (0..(Len(t) + 1)) /\ I # {} /\ Len(t) + 1 \in Nat
  BY <1>1
<1>3. Max(I) \in I /\ \A i \in I : i <= Max(I)
  <2> HIDE DEF I
  <2> QED
    BY <1>2, MaximumExists
<1> QED
  BY <1>3 DEF Previous

LEMMA NextPlace ==
  ASSUME NEW t \in Seq(Character), NEW k \in 0..Len(t)
  PROVE  \E j \in Places(t) : FirstAfter(t, k, j)
<1> DEFINE I == {i \in Places(t) : k < i}
<1>1. Len(t) \in Nat /\ Places(t) \subseteq 1..(Len(t) + 1) /\ Stops(t) \subseteq Places(t)
  BY StopsAre DEF Places
<1>2. I \in SUBSET Nat /\ I # {}
  <2>1. Len(t) + 1 \in I
    BY <1>1 DEF Places
  <2> QED
    BY <1>1, <2>1
<1>3. Min(I) \in I /\ \A i \in I : Min(I) <= i
  <2> HIDE DEF I
  <2> QED
    BY <1>2, MinimumExists
<1> QED
  BY <1>1, <1>3 DEF FirstAfter

LEMMA FirstPlace ==
  ASSUME NEW t \in Seq(Character), NEW j, FirstAfter(t, 0, j), NEW c
  PROVE  Before(t, j) = {} /\ Previous(t, j) = 1 /\ ItemsBefore(c, t, j) = 0
<1>1. Stops(t) \subseteq 1..Len(t) /\ j \in 1..(Len(t) + 1) /\ Len(t) \in Nat
  BY StopsAre DEF FirstAfter
<1>2. Before(t, j) = {}
  BY <1>1 DEF Before, FirstAfter
<1>3. Previous(t, j) = 1
  BY <1>2, PreviousIs
<1>4. {i \in ItemEnds(c, t) : i < j} = {}
  BY <1>2, StopsAre DEF Before
<1>5. ItemsBefore(c, t, j) = 0
  BY <1>4, FS_EmptySet DEF ItemsBefore
<1> QED
  BY <1>2, <1>3, <1>5

LEMMA PlaceAfter ==
  ASSUME NEW t \in Seq(Character), NEW k \in Stops(t), NEW j, FirstAfter(t, k, j), NEW c
  PROVE  /\ Before(t, j) = Before(t, k) \cup {k} /\ Previous(t, j) = k
         /\ ItemsBefore(c, t, k) \in Nat
         /\ ItemsBefore(c, t, j) = IF k \in ItemEnds(c, t) THEN ItemsBefore(c, t, k) + 1
                                                           ELSE ItemsBefore(c, t, k)
<1>1. /\ Stops(t) \subseteq 1..Len(t) /\ j \in 1..(Len(t) + 1) /\ Len(t) \in Nat /\ k \in 1..Len(t) /\ k < j
      /\ IsFiniteSet(Stops(t)) /\ ItemEnds(c, t) \subseteq Stops(t)
  BY StopsAre DEF FirstAfter
<1>2. \A i \in Stops(t) : i < j <=> i < k \/ i = k
  BY <1>1 DEF FirstAfter
<1>3. Before(t, j) = Before(t, k) \cup {k}
  BY <1>2 DEF Before
<1>4. Previous(t, j) = k
  <2>1. /\ Previous(t, j) \in {1} \cup Before(t, j)
        /\ \A i \in {1} \cup Before(t, j) : i <= Previous(t, j)
    BY PreviousIs
  <2>2. Previous(t, j) <= k
    BY <1>1, <1>3, <2>1 DEF Before
  <2>3. k <= Previous(t, j)
    BY <1>3, <2>1
  <2>4. Previous(t, j) \in Nat
    BY <1>1, <2>1 DEF Before
  <2> QED
    BY <1>1, <2>2, <2>3, <2>4
<1> DEFINE A == {i \in ItemEnds(c, t) : i < k}
           B == {i \in ItemEnds(c, t) : i < j}
<1>5. ItemsBefore(c, t, k) = Cardinality(A) /\ ItemsBefore(c, t, j) = Cardinality(B)
  BY DEF ItemsBefore
<1>6. IsFiniteSet(A) /\ Cardinality(A) \in Nat
  <2>1. A \subseteq Stops(t)
    BY <1>1
  <2>2. IsFiniteSet(A)
    BY <1>1, <2>1, FS_Subset
  <2> QED
    BY <2>2, FS_CardinalityType
<1>7. k \notin A /\ B = IF k \in ItemEnds(c, t) THEN A \cup {k} ELSE A
  BY <1>1, <1>2
<1> HIDE DEF A, B
<1>8. CASE k \in ItemEnds(c, t)
  <2>1. Cardinality(B) = Cardinality(A) + 1
    BY <1>6, <1>7, <1>8, FS_AddElement
  <2> QED
    BY <1>3, <1>4, <1>5, <1>6, <1>8, <2>1
<1>9. CASE k \notin ItemEnds(c, t)
  BY <1>3, <1>4, <1>5, <1>6, <1>7, <1>9
<1> QED
  BY <1>8, <1>9

LEMMA ItemsCounted ==
  ASSUME NEW t \in Seq(Character), NEW c, NEW j
  PROVE  ItemsBefore(c, t, j) \in Nat
<1>1. {i \in ItemEnds(c, t) : i < j} \subseteq Stops(t) /\ IsFiniteSet(Stops(t))
  BY StopsAre
<1>2. IsFiniteSet({i \in ItemEnds(c, t) : i < j})
  BY <1>1, FS_Subset
<1> QED
  BY <1>2, FS_CardinalityType DEF ItemsBefore

(* A list that goes on comes to the next place.                            *)
LEMMA ReachesNext ==
  ASSUME NEW t \in Seq(Character), NEW c, NEW k \in Stops(t), Reaches(c, t, k), GoesOn(c, t, k),
         NEW j, FirstAfter(t, k, j)
  PROVE  Reaches(c, t, j)
<1>1. Before(t, j) = Before(t, k) \cup {k}
  BY PlaceAfter
<1> QED
  BY <1>1 DEF Reaches

(* The first place where it does not go on decides.                        *)
LEMMA FirstFault ==
  ASSUME NEW t \in Seq(Character), NEW c, NEW j \in Places(t), Reaches(c, t, j),
         NEW i \in Places(t), Reaches(c, t, i), ~GoesOn(c, t, i)
  PROVE  j = i \/ GoesOn(c, t, j)
<1>1. Len(t) \in Nat /\ Places(t) \subseteq 1..(Len(t) + 1) /\ Places(t) = Stops(t) \cup {Len(t) + 1}
  BY StopsAre DEF Places
<1>2. ~(i < j)
  <2> SUFFICES ASSUME i < j
               PROVE  FALSE
    OBVIOUS
  <2>1. i \in Stops(t)
    BY <1>1
  <2>2. i \in Before(t, j)
    BY <2>1 DEF Before
  <2> QED
    BY <2>2 DEF Reaches
<1>3. CASE j < i
  <2>1. j \in Stops(t)
    BY <1>1, <1>3
  <2>2. j \in Before(t, i)
    BY <1>3, <2>1 DEF Before
  <2> QED
    BY <2>2 DEF Reaches
<1> QED
  BY <1>1, <1>2, <1>3

LEMMA FaultsEnd ==
  ASSUME NEW t \in Seq(Character), NEW c, NEW j,
         Completes(c, t, j) \/ FailsBefore(c, t, j) \/ FailsAtNewline(c, t, j)
  PROVE  ~GoesOn(c, t, j)
<1>1. Len(t) \in Nat /\ Stops(t) \subseteq 1..Len(t) /\ ItemEnds(c, t) \subseteq Stops(t)
  BY StopsAre
<1>2. CASE Completes(c, t, j)
  BY <1>2 DEF Completes, GoesOn, EndsItem
<1>3. CASE FailsBefore(c, t, j)
  BY <1>3 DEF FailsBefore, GoesOn, EndsString
<1>4. CASE FailsAtNewline(c, t, j)
  <2>1. CASE c = "WRITE" /\ NoString(c, t, j)
    BY <2>1 DEF GoesOn, EndsString
  <2>2. CASE c = "WRITE" /\ EndsItem(c, t, j) /\ j = Len(t)
    <3>1. After(c, j) = Len(t) + 1
      BY <2>2 DEF After
    <3>2. ~(After(c, j) <= Len(t))
      BY <1>1, <3>1
    <3>3. j \in ItemEnds(c, t)
      BY <2>2 DEF EndsItem
    <3> QED
      BY <3>2, <3>3 DEF GoesOn
  <2>3. CASE j = Len(t) + 1
    <3>1. Len(t) + 1 \notin 1..Len(t)
      BY <1>1
    <3>2. j \notin Stops(t)
      BY <1>1, <2>3, <3>1, Zenon
    <3> QED
      BY <3>2, Zenon DEF GoesOn, EndsString
  <2>4. \/ c = "WRITE" /\ NoString(c, t, j)
        \/ c = "WRITE" /\ EndsItem(c, t, j) /\ j = Len(t)
        \/ j = Len(t) + 1
    BY <1>4, Zenon DEF FailsAtNewline
  <2> QED
    BY <2>1, <2>2, <2>3, <2>4, Zenon
<1> QED
  BY <1>2, <1>3, <1>4

-----------------------------------------------------------------------------
(* Positions in the file.                                                  *)
LineFacts(f, n) ==
  /\ f[n] \in Nat \ {0} /\ f[n + 1] \in Nat \ {0} /\ Len(script[n].chars) \in Nat
  /\ f[n + 1] = f[n] + Len(script[n].chars) + 1
  /\ End \in Nat /\ Len(text) \in Nat /\ End = Len(text) + 1
  /\ f[n + 1] - 1 <= End
  /\ Terminated(n) \in BOOLEAN /\ (n < Len(script) => Terminated(n))
  /\ Terminated(n) => f[n + 1] <= End /\ text[f[n + 1] - 1] = Newline
  /\ ~Terminated(n) => n = Len(script) /\ End = f[n + 1] - 1

LEMMA LineIs ==
  ASSUME NEW f, FileIs(f), NEW n \in 1..Len(script)
  PROVE  LineFacts(f, n)
<1>1. PICK m : m = Len(script)
  OBVIOUS
<1>2. /\ m \in Nat \ {0} /\ complete \in BOOLEAN
      /\ f \in [1..(m + 1) -> Nat \ {0}]
      /\ End = (IF complete THEN f[m + 1] ELSE f[m + 1] - 1)
      /\ LineAt(f, n) /\ n \in 1..m
      /\ \A j, k \in 1..(m + 1) : j < k => f[j] < f[k]
      /\ text \in Seq(Character)
  BY <1>1 DEF FileIs
<1>3. Len(text) \in Nat /\ End = Len(text) + 1 /\ End \in Nat
  BY <1>2, LenProperties DEF End
<1>4. n \in 1..(m + 1) /\ n + 1 \in 1..(m + 1) /\ m + 1 \in 1..(m + 1) /\ (n < m => n + 1 < m + 1)
      /\ (~(n < m) => n = m)
  BY <1>2
<1>5. Len(script[n].chars) \in Nat /\ f[n + 1] = f[n] + Len(script[n].chars) + 1
  BY <1>2, LenProperties DEF LineAt, IsLine
<1>6. f[n] \in Nat \ {0} /\ f[n + 1] \in Nat \ {0} /\ f[m + 1] \in Nat \ {0}
  BY <1>2, <1>4
<1>7. n < m => f[n + 1] < f[m + 1]
  BY <1>2, <1>4
<1>8. Terminated(n) <=> (n < m \/ complete)
  BY <1>1 DEF Terminated
<1>9. PICK e, last : e = f[n + 1] /\ last = f[m + 1]
  OBVIOUS
<1>10. /\ e \in Nat \ {0} /\ last \in Nat \ {0} /\ (n < m => e < last) /\ (~(n < m) => e = last)
       /\ (complete => End = last) /\ (~complete => End = last - 1)
  BY <1>2, <1>4, <1>6, <1>7, <1>9
<1>11. e - 1 <= End /\ (n < m \/ complete => e <= End) /\ (~(n < m \/ complete) => n = m /\ End = e - 1)
  <2>1. CASE n < m
    <3>1. e < last /\ last - 1 <= End
      BY <1>2, <1>3, <1>10, <2>1
    <3> QED
      BY <1>3, <1>10, <2>1, <3>1
  <2>2. CASE ~(n < m)
    BY <1>2, <1>3, <1>4, <1>10, <2>2
  <2> QED
    BY <2>1, <2>2
<1>12. Terminated(n) => text[f[n + 1] - 1] = Newline
  BY <1>2 DEF LineAt
<1>13. Terminated(n) \in BOOLEAN /\ (n < Len(script) => Terminated(n))
  BY <1>1, <1>2, <1>8 DEF Terminated
<1> QED
  BY <1>1, <1>3, <1>5, <1>6, <1>8, <1>9, <1>11, <1>12, <1>13 DEF LineFacts

\* Where the file is read on.
LEMMA StartIs ==
  ASSUME NEW f, FileIs(f), NEW k \in 1..(Len(script) + 1)
  PROVE  StartOf(f, k) \in 1..End
<1>1. Len(script) \in Nat \ {0} /\ text \in Seq(Character)
  BY DEF FileIs
<1>2. End \in Nat \ {0}
  BY <1>1, LenProperties DEF End
<1>3. CASE k \in 1..Len(script)
  <2>1. LineFacts(f, k)
    BY <1>3, LineIs
  <2>2. PICK a, e, l : a = f[k] /\ e = f[k + 1] /\ l = Len(script[k].chars)
    OBVIOUS
  <2>3. a \in Nat \ {0} /\ l \in Nat /\ e = a + l + 1 /\ e - 1 <= End
    BY <2>1, <2>2 DEF LineFacts
  <2>4. a \in 1..End
    BY <1>2, <2>3
  <2> QED
    BY <1>3, <2>2, <2>4 DEF StartOf
<1>4. CASE k \notin 1..Len(script)
  BY <1>2, <1>4 DEF StartOf
<1> QED
  BY <1>3, <1>4

LEMMA StartNext ==
  ASSUME NEW f, FileIs(f), NEW n \in 1..Len(script)
  PROVE  /\ Terminated(n) => StartOf(f, n + 1) = f[n + 1]
         /\ ~Terminated(n) => StartOf(f, n + 1) = End
<1>1. LineFacts(f, n) /\ Len(script) \in Nat
  BY LineIs DEF FileIs
<1>2. PICK m : m = Len(script)
  OBVIOUS
<1>3. m \in Nat /\ n \in 1..m /\ (n + 1 \in 1..m <=> n < m)
  BY <1>1, <1>2
<1>4. CASE n < m
  BY <1>1, <1>2, <1>3, <1>4 DEF LineFacts, StartOf
<1>5. CASE ~(n < m)
  <2>1. StartOf(f, n + 1) = End /\ n = m
    BY <1>2, <1>3, <1>5 DEF StartOf
  <2>2. Terminated(n) <=> complete
    BY <1>2, <1>5 DEF Terminated
  <2>3. complete => End = f[n + 1]
    BY <1>2, <2>1 DEF FileIs
  <2> QED
    BY <2>1, <2>2, <2>3
<1> QED
  BY <1>4, <1>5

LEMMA SeekFirst ==
  ASSUME text \in Seq(Character), NEW p \in 1..End, NEW chars
  PROVE  /\ Seek(p, chars) \in p..End
         /\ Seek(p, chars) # End => text[Seek(p, chars)] \in chars
         /\ \A i \in p..(End - 1) : text[i] \in chars => Seek(p, chars) <= i
<1> DEFINE I == {i \in p..Len(text) : text[i] \in chars} \cup {End}
<1>1. Len(text) \in Nat /\ End = Len(text) + 1
  BY DEF End
<1>2. I \in SUBSET Nat /\ I # {}
  BY <1>1
<1>3. Min(I) \in I /\ \A i \in I : Min(I) <= i
  <2> HIDE DEF I
  <2> QED
    BY <1>2, MinimumExists
<1> QED
  BY <1>1, <1>3 DEF Seek

(* cleanup goes to the next line.                                          *)
LEMMA CleanupInLine ==
  ASSUME NEW f, FileIs(f), NEW n \in 1..Len(script), NEW p \in f[n]..(f[n + 1] - 1)
  PROVE  cleanup(p) = StartOf(f, n + 1)
<1>1. LineFacts(f, n) /\ text \in Seq(Character) /\ LineAt(f, n)
  BY LineIs DEF FileIs
<1>2. PICK a, e, l : a = f[n] /\ e = f[n + 1] /\ l = Len(script[n].chars)
  OBVIOUS
<1>3. /\ a \in Nat \ {0}
      /\ e \in Nat
      /\ l \in Nat
      /\ e = a + l + 1
      /\ End \in Nat
      /\ e - 1 <= End
      /\ p \in a..(e - 1)
      /\ (Terminated(n) => e <= End /\ text[e - 1] = Newline) /\ (~Terminated(n) => End = e - 1)
  BY <1>1, <1>2 DEF LineFacts
<1>4. p \in 1..End
  BY <1>3
<1>5. \A i \in p..(e - 2) : text[i] \notin {Newline}
  <2> SUFFICES ASSUME NEW i \in p..(e - 2)
               PROVE  text[i] # Newline
    OBVIOUS
  <2>1. PICK x : x = i - a + 1
    OBVIOUS
  <2>2. x \in 1..l /\ a + x - 1 = i
    BY <1>3, <2>1
  <2>3. text[a + x - 1] = script[n].chars[x] /\ script[n].chars[x] # Newline
    BY <1>1, <1>2, <2>2 DEF LineAt, IsLine
  <2> QED
    BY <2>2, <2>3
<1>6. PICK s : s = Seek(p, {Newline})
  OBVIOUS
<1>7. s \in p..End /\ (s # End => text[s] \in {Newline})
      /\ \A i \in p..(End - 1) : text[i] \in {Newline} => s <= i
  BY <1>1, <1>4, <1>6, SeekFirst
<1>8. s \in 1..End /\ Passed(s, 1) = IF s + 1 <= End THEN s + 1 ELSE End
  <2>1. s \in 1..End /\ 1 \in Nat
    BY <1>4, <1>7
  <2> QED
    BY <1>1, <2>1, PassedIs
<1>9. cleanup(p) = Passed(s, 1)
  BY <1>6 DEF cleanup
<1>10. CASE Terminated(n)
  <2>1. e - 1 \in p..(End - 1) /\ text[e - 1] \in {Newline}
    BY <1>3, <1>10
  <2>2. s <= e - 1
    BY <1>7, <2>1
  <2>3. ~(s <= e - 2)
    <3> SUFFICES ASSUME s <= e - 2
                 PROVE  FALSE
      OBVIOUS
    <3>1. s # End /\ s \in p..(e - 2)
      BY <1>3, <1>7, <1>10
    <3> QED
      BY <1>5, <1>7, <3>1
  <2>4. s = e - 1
    BY <1>3, <1>7, <2>2, <2>3
  <2>5. Passed(s, 1) = e
    BY <1>3, <1>8, <1>10, <2>4
  <2> QED
    BY <1>2, <1>9, <1>10, <2>5, StartNext
<1>11. CASE ~Terminated(n)
  <2>1. ~(s <= e - 2)
    <3> SUFFICES ASSUME s <= e - 2
                 PROVE  FALSE
      OBVIOUS
    <3>1. s # End /\ s \in p..(e - 2)
      BY <1>3, <1>7, <1>11
    <3> QED
      BY <1>5, <1>7, <3>1
  <2>2. Passed(s, 1) = End
    BY <1>3, <1>7, <1>8, <1>11, <2>1
  <2> QED
    BY <1>9, <1>11, <2>2, StartNext
<1> QED
  BY <1>10, <1>11

LEMMA CleanupAtStart ==
  ASSUME NEW f, FileIs(f), NEW n \in 1..(Len(script) + 1)
  PROVE  cleanup(StartOf(f, n)) = StartOf(f, n + 1)
<1>1. Len(script) \in Nat \ {0} /\ text \in Seq(Character)
  BY DEF FileIs
<1>2. CASE n \in 1..Len(script)
  <2>1. LineFacts(f, n)
    BY <1>2, LineIs
  <2>2. PICK a, e, l : a = f[n] /\ e = f[n + 1] /\ l = Len(script[n].chars)
    OBVIOUS
  <2>3. a \in Nat \ {0} /\ l \in Nat /\ e = a + l + 1 
    BY <2>1, <2>2 DEF LineFacts
  <2>4. a \in a..(e - 1)
    BY <2>3
  <2>5. StartOf(f, n) = a
    BY <1>2, <2>2 DEF StartOf
  <2> QED
    BY <1>2, <2>2, <2>4, <2>5, CleanupInLine
<1>3. CASE n \notin 1..Len(script)
  <2>1. StartOf(f, n) = End /\ StartOf(f, n + 1) = End
    <3>1. n + 1 \notin 1..Len(script)
      BY <1>1, <1>3
    <3> QED
      BY <1>3, <3>1 DEF StartOf
  <2>2. End \in 1..End /\ End \in Nat
    BY <1>1, LenProperties DEF End
  <2>3. cleanup(End) \in End..End
    BY <1>1, <2>2, CleanupLeaves
  <2> QED
    BY <2>1, <2>2, <2>3
<1> QED
  BY <1>2, <1>3

-----------------------------------------------------------------------------
(* Reading strings of a line.                                              *)
Space == " "
Delimiters == {" ", ",", ")", "]"}

\* t is in the text from b + 1 on, before the end of the text or a newline.
OnText(b, t, ends) ==
  /\ b \in Nat /\ t \in Seq(Character) /\ Len(t) \in Nat /\ ends \in BOOLEAN
  /\ \A i \in 1..Len(t) : text[b + i] = t[i] /\ t[i] # Newline
  /\ ends => b + Len(t) + 1 < End /\ text[b + Len(t) + 1] = Newline
  /\ ~ends => End = b + Len(t) + 1
  /\ b + Len(t) + 1 <= End
  /\ End \in Nat /\ End = Len(text) + 1 /\ text \in Seq(Character)

\* No string of the line ends between i and j.
Within(t, i, j) ==
  /\ i \in 1..(Len(t) + 1) /\ j \in Places(t) /\ i <= j
  /\ \A k \in Stops(t) : k < i \/ j <= k

LEMMA NewlineIsNone == Newline \notin Delimiters
  BY DEF Newline, Delimiters

LEMMA SeekInLine ==
  ASSUME NEW b \in Nat, NEW t \in Seq(Character), NEW ends, OnText(b, t, ends), NEW i \in Nat,
         NEW j \in Nat, Within(t, i, j)
  PROVE  /\ b + i \in 1..End /\ Seek(b + i, Delimiters) \in (b + i)..End
         /\ b + j <= Seek(b + i, Delimiters)
         /\ j \in Stops(t) => Seek(b + i, Delimiters) = b + j /\ text[b + j] = t[j] /\ b + j < End
         /\ j \notin Stops(t) => j = Len(t) + 1 /\ (ends => b + j < Seek(b + i, Delimiters))
<1>1. /\ b \in Nat /\ Len(t) \in Nat /\ ends \in BOOLEAN /\ End \in Nat /\ b + Len(t) + 1 <= End
      /\ t \in Seq(Character) /\ text \in Seq(Character)
      /\ ends => b + Len(t) + 1 < End
  BY DEF OnText
<1>2. /\ i \in 1..(Len(t) + 1) /\ i <= j /\ j \in 1..(Len(t) + 1)
      /\ Stops(t) \subseteq 1..Len(t) /\ (j \notin Stops(t) => j = Len(t) + 1)
  BY StopsAre, <1>1 DEF Within, Places
<1>3. PICK p, s : p = b + i /\ s = Seek(b + i, Delimiters)
  OBVIOUS
<1>4. p \in 1..End
  BY <1>1, <1>2, <1>3
<1>5. /\ s \in p..End /\ (s # End => text[s] \in Delimiters)
      /\ \A k \in p..(End - 1) : text[k] \in Delimiters => s <= k
  BY <1>1, <1>3, <1>4, SeekFirst
<1>6. ASSUME NEW k \in p..(b + j - 1)
      PROVE  k < End /\ text[k] \notin Delimiters
  <2>1. PICK x : x = k - b
    OBVIOUS
  <2>2. x \in i..(j - 1) /\ b + x = k /\ x \in 1..Len(t) /\ k < End
    BY <1>1, <1>2, <1>3, <2>1
  <2>3. x \notin Stops(t)
    BY <1>2, <2>2 DEF Within
  <2>4. t[x] \notin Delimiters
    BY <1>1, <2>2, <2>3, LenProperties DEF Stops, Delimiters
  <2> QED
    BY <2>2, <2>4 DEF OnText
<1>7. b + j <= s
  <2> SUFFICES ASSUME s < b + j
               PROVE  FALSE
    BY <1>1, <1>2, <1>5
  <2>1. s \in p..(b + j - 1)
    BY <1>1, <1>2, <1>4, <1>5
  <2> QED
    BY <1>1, <1>5, <1>6, <2>1
<1>8. j \in Stops(t) => s = b + j /\ text[b + j] = t[j] /\ b + j < End
  <2> SUFFICES ASSUME j \in Stops(t)
               PROVE  s = b + j /\ text[b + j] = t[j] /\ b + j < End
    OBVIOUS
  <2>1. j \in 1..Len(t)
    BY <1>2
  <2>2. text[b + j] = t[j] /\ t[j] \in Delimiters
    BY <2>1 DEF OnText, Stops, Delimiters
  <2>3. b + j \in p..(End - 1)
    BY <1>1, <1>2, <1>3, <2>1
  <2>4. s <= b + j
    BY <1>5, <2>2, <2>3
  <2> QED
    BY <1>1, <1>2, <1>5, <1>7, <2>2, <2>3, <2>4
<1>9. j \notin Stops(t) => j = Len(t) + 1 /\ (ends => b + j < s)
  <2> SUFFICES ASSUME j \notin Stops(t), ends
               PROVE  b + j < s
    BY <1>2
  <2>1. text[b + j] = Newline /\ b + j < End
    BY <1>1, <1>2 DEF OnText
  <2>2. s # b + j
    BY <1>5, <2>1, NewlineIsNone
  <2> QED
    BY <1>1, <1>2, <1>5, <1>7, <2>2
<1> QED
  BY <1>2, <1>3, <1>4, <1>5, <1>7, <1>8, <1>9

(* The part of a text that a line is.                                      *)
LEMMA PartOfText ==
  ASSUME NEW b \in Nat, NEW t \in Seq(Character), NEW ends, OnText(b, t, ends),
         NEW i \in 1..(Len(t) + 1), NEW j \in i..(Len(t) + 1)
  PROVE  SubSeq(text, b + i, b + j - 1) = SubSeq(t, i, j - 1)
<1>1. /\ b \in Nat /\ Len(t) \in Nat /\ End \in Nat /\ b + Len(t) + 1 <= End /\ End = Len(text) + 1
      /\ t \in Seq(Character) /\ text \in Seq(Character) /\ Len(text) \in Nat
  BY LenProperties DEF OnText
<1>2. PICK p, q : p = b + i /\ q = b + j - 1
  OBVIOUS
<1>3. PICK r : r = j - 1
  OBVIOUS
<1>4. /\ p \in Nat /\ q \in Int /\ i \in Nat /\ r \in Int /\ i \in 1..(Len(t) + 1) /\ i <= r + 1
      /\ p <= q + 1 /\ q - p = r - i /\ 1 <= p /\ q <= Len(text) /\ r <= Len(t)
  BY <1>1, <1>2, <1>3
<1>5. \A k \in p..q : text[k] \in Character
  <2>1. \A k \in p..q : k \in 1..Len(text)
    BY <1>1, <1>4
  <2> QED
    BY <1>1, <2>1, ElementOfSeq
<1>6. \A k \in i..r : t[k] \in Character
  <2>1. \A k \in i..r : k \in 1..Len(t)
    BY <1>1, <1>4
  <2> QED
    BY <1>1, <2>1, ElementOfSeq
<1>7. PICK u, v : u = SubSeq(text, p, q) /\ v = SubSeq(t, i, r)
  OBVIOUS
<1>8. /\ u \in Seq(Character) /\ Len(u) = (IF p <= q THEN q - p + 1 ELSE 0)
      /\ \A k \in 1..(q - p + 1) : u[k] = text[p + k - 1]
  BY <1>4, <1>5, <1>7, SubSeqProperties
<1>9. /\ v \in Seq(Character) /\ Len(v) = (IF i <= r THEN r - i + 1 ELSE 0)
      /\ \A k \in 1..(r - i + 1) : v[k] = t[i + k - 1]
  BY <1>4, <1>6, <1>7, SubSeqProperties
<1>10. PICK n : n = r - i + 1
  OBVIOUS
<1>11. n \in Nat /\ Len(u) = n /\ Len(v) = n /\ q - p + 1 = n
  <2>1. n \in Nat /\ q - p + 1 = n /\ (p <= q <=> n # 0) /\ (i <= r <=> n # 0)
    BY <1>4, <1>10
  <2>2. Len(u) = (IF n # 0 THEN n ELSE 0) /\ Len(v) = (IF n # 0 THEN n ELSE 0)
    BY <1>8, <1>9, <1>10, <2>1
  <2> QED
    BY <2>1, <2>2
<1>12. ASSUME NEW k \in 1..n
       PROVE  u[k] = v[k]
  <2>1. PICK x : x = i + k - 1
    OBVIOUS
  <2>2. x \in 1..Len(t) /\ p + k - 1 = b + x
    BY <1>1, <1>2, <1>4, <1>10, <1>11, <2>1
  <2>3. text[b + x] = t[x]
    BY <2>2 DEF OnText
  <2> QED
    BY <1>8, <1>9, <1>10, <1>11, <2>1, <2>2, <2>3
<1>13. u = v
  BY <1>8, <1>9, <1>11, <1>12, SeqEqual
<1> QED
  BY <1>2, <1>3, <1>7, <1>13

(* A string that ends where it may.                                        *)
LEMMA ReadsString ==
  ASSUME NEW b \in Nat, NEW t \in Seq(Character), NEW ends, OnText(b, t, ends), NEW i \in Nat,
         NEW j \in Nat, Within(t, i, j),
         j \in Stops(t), j < i + MAX_STRING_SIZE, t[j] # Space
  PROVE  read_string(b + i) = [at |-> t[j], str |-> SubSeq(t, i, j - 1), next |-> b + j + 1]
<1>1. /\ b \in Nat /\ Len(t) \in Nat /\ End \in Nat /\ b + Len(t) + 1 <= End /\ t \in Seq(Character)
  BY DEF OnText
<1>2. i \in 1..(Len(t) + 1) /\ i <= j /\ j \in 1..Len(t) /\ i \in Nat /\ j \in Nat
  <2>1. i \in 1..(Len(t) + 1) /\ i <= j /\ j \in 1..Len(t)
    BY <1>1, StopsAre DEF Within
  <2> QED
    BY <1>1, <2>1
<1>3. MAX_STRING_SIZE \in Nat \ {0}
  BY ParserAssumption
<1>4. Seek(b + i, Delimiters) = b + j /\ text[b + j] = t[j] /\ b + j < End
  BY SeekInLine
<1>5. ~(b + j >= b + i + MAX_STRING_SIZE) /\ ~AtEnd(b + j) /\ ~IsChar(b + j, {Space})
  <2>1. ~(b + j >= b + i + MAX_STRING_SIZE)
    BY <1>1, <1>2, <1>3
  <2>2. ~AtEnd(b + j)
    BY <1>1, <1>2, <1>4 DEF AtEnd
  <2>3. ~IsChar(b + j, {Space})
    BY <1>4 DEF IsChar
  <2> QED
    BY <2>1, <2>2, <2>3
<1>6. SubSeq(text, b + i, b + j - 1) = SubSeq(t, i, j - 1)
  <2>1. j \in i..(Len(t) + 1)
    BY <1>1, <1>2
  <2> QED
    BY <1>2, <2>1, PartOfText
<1>7. Seek(b + i, {" ", ",", ")", "]"}) = b + j
  BY <1>4 DEF Delimiters
<1>8. IsChar(b + j, {" "}) <=> IsChar(b + j, {Space})
  BY Zenon DEF Space
<1>9. ~(b + j >= b + i + MAX_STRING_SIZE \/ AtEnd(b + j) \/ IsChar(b + j, {" "}))
  BY <1>5, <1>8, Zenon
<1>10. read_string(b + i) = [at |-> text[b + j], str |-> SubSeq(text, b + i, b + j - 1), next |-> b + j + 1]
  <2>1. PICK p, stop : p = b + i /\ stop = b + j
    OBVIOUS
  <2>2. stop = Seek(p, {" ", ",", ")", "]"})
    BY <1>7, <2>1, Zenon
  <2>3. ~(stop >= p + MAX_STRING_SIZE \/ AtEnd(stop) \/ IsChar(stop, {" "}))
    BY <1>9, <2>1, Zenon
  <2>4. read_string(p) = [at |-> text[stop], str |-> SubSeq(text, p, stop - 1), next |-> stop + 1]
    BY <2>2, <2>3 DEF read_string
  <2> QED
    BY <2>1, <2>4
<1> QED
  BY <1>4, <1>6, <1>10, Zenon

(* One that does not: nothing is read beyond the newline,                  *)
LEMMA ReadsNoString ==
  ASSUME NEW b \in Nat, NEW t \in Seq(Character), NEW ends, OnText(b, t, ends), NEW i \in Nat,
         NEW j \in Nat, Within(t, i, j),
         j >= i + MAX_STRING_SIZE \/ (j \in Stops(t) /\ t[j] = Space)
  PROVE  read_string(b + i).at = "none" /\ read_string(b + i).next \in (b + i)..(b + Len(t) + 1)
<1>1. /\ b \in Nat /\ Len(t) \in Nat /\ End \in Nat /\ b + Len(t) + 1 <= End /\ t \in Seq(Character)
      /\ text \in Seq(Character)
  BY DEF OnText
<1>2. i \in 1..(Len(t) + 1) /\ i <= j /\ j \in 1..(Len(t) + 1) /\ Stops(t) \subseteq 1..Len(t)
  BY <1>1, StopsAre DEF Within
<1>3. MAX_STRING_SIZE \in Nat \ {0}
  BY ParserAssumption
<1>4. PICK p, s : p = b + i /\ s = Seek(b + i, Delimiters)
  OBVIOUS
<1>5. /\ p \in 1..End /\ s \in p..End /\ b + j <= s
      /\ j \in Stops(t) => s = b + j /\ text[b + j] = t[j] /\ b + j < End
  <2>1. /\ b + i \in 1..End /\ Seek(b + i, Delimiters) \in (b + i)..End
        /\ b + j <= Seek(b + i, Delimiters)
        /\ j \in Stops(t) => Seek(b + i, Delimiters) = b + j /\ text[b + j] = t[j] /\ b + j < End
    BY SeekInLine, Zenon
  <2> QED
    BY <1>4, <2>1, Zenon
<1>6. s >= p + MAX_STRING_SIZE \/ IsChar(s, {Space})
  <2>1. CASE j >= i + MAX_STRING_SIZE
    BY <1>1, <1>2, <1>3, <1>4, <1>5, <2>1
  <2>2. CASE j \in Stops(t) /\ t[j] = Space
    BY <1>1, <1>2, <1>5, <2>2 DEF IsChar, AtEnd
  <2> QED
    BY <2>1, <2>2
<1>7. PICK m : m = Min({s, p + MAX_STRING_SIZE - 1})
  OBVIOUS
<1>8. read_string(b + i) = [at |-> "none", str |-> <<>>, next |-> Passed(m, 1)]
  <2>1. IsChar(s, {" "}) <=> IsChar(s, {Space})
    BY Zenon DEF Space
  <2>2. s = Seek(b + i, {" ", ",", ")", "]"})
    BY <1>4, Zenon DEF Delimiters
  <2> QED
    BY <1>4, <1>6, <1>7, <2>1, <2>2, Zenon DEF read_string
<1>9. m \in {s, p + MAX_STRING_SIZE - 1} /\ m <= s /\ m <= p + MAX_STRING_SIZE - 1
  <2> DEFINE I == {s, p + MAX_STRING_SIZE - 1}
  <2>1. I \in SUBSET Nat /\ I # {}
    BY <1>1, <1>3, <1>5
  <2>2. Min(I) \in I /\ \A x \in I : Min(I) <= x
    <3> HIDE DEF I
    <3> QED
      BY <2>1, MinimumExists
  <2> QED
    BY <1>7, <2>2
<1>10. m \in p..(b + Len(t))
  <2>1. CASE j >= i + MAX_STRING_SIZE
    BY <1>1, <1>2, <1>3, <1>4, <1>5, <1>9, <2>1
  <2>2. CASE j \in Stops(t) /\ t[j] = Space
    <3>1. j <= Len(t) /\ s = b + j
      BY <1>2, <1>5, <2>2
    <3> QED
      BY <1>1, <1>2, <1>3, <1>4, <1>5, <1>9, <3>1
  <2> QED
    BY <2>1, <2>2
<1>11. m \in 1..End /\ 1 \in Nat
  BY <1>1, <1>5, <1>10
<1>12. Passed(m, 1) = IF m + 1 <= End THEN m + 1 ELSE End
  BY <1>1, <1>11, PassedIs
<1>13. Passed(m, 1) \in p..(b + Len(t) + 1)
  BY <1>1, <1>5, <1>10, <1>12
<1> QED
  BY <1>4, <1>8, <1>13

(* except by a name that is just too long with it.                         *)
LEMMA ReadsNewline ==
  ASSUME NEW b \in Nat, NEW t \in Seq(Character), OnText(b, t, TRUE), NEW i \in Nat, NEW j \in Nat,
         Within(t, i, j),
         j = Len(t) + 1, j + 1 = i + MAX_STRING_SIZE
  PROVE  read_string(b + i).at = "none" /\ read_string(b + i).next = b + Len(t) + 2
<1>1. /\ b \in Nat /\ Len(t) \in Nat /\ End \in Nat /\ b + Len(t) + 1 < End /\ t \in Seq(Character)
      /\ text \in Seq(Character)
  BY DEF OnText
<1>2. i \in 1..(Len(t) + 1) /\ j \notin Stops(t)
  <2>1. Stops(t) \subseteq 1..Len(t) /\ Len(t) + 1 \notin 1..Len(t)
    BY <1>1, StopsAre
  <2> QED
    BY <2>1 DEF Within
<1>3. MAX_STRING_SIZE \in Nat \ {0}
  BY ParserAssumption
<1>4. PICK p, s : p = b + i /\ s = Seek(b + i, Delimiters)
  OBVIOUS
<1>5. p \in 1..End /\ s \in p..End /\ b + j < s
  BY <1>2, <1>4, SeekInLine
<1>6. s >= p + MAX_STRING_SIZE
  BY <1>1, <1>2, <1>3, <1>4, <1>5
<1>7. PICK m : m = Min({s, p + MAX_STRING_SIZE - 1})
  OBVIOUS
<1>8. read_string(b + i) = [at |-> "none", str |-> <<>>, next |-> Passed(m, 1)]
  <2>1. IsChar(s, {" "}) <=> IsChar(s, {Space})
    BY Zenon DEF Space
  <2>2. s = Seek(b + i, {" ", ",", ")", "]"})
    BY <1>4, Zenon DEF Delimiters
  <2> QED
    BY <1>4, <1>6, <1>7, <2>1, <2>2, Zenon DEF read_string
<1>9. m \in {s, p + MAX_STRING_SIZE - 1} /\ m <= s /\ m <= p + MAX_STRING_SIZE - 1
  <2> DEFINE I == {s, p + MAX_STRING_SIZE - 1}
  <2>1. I \in SUBSET Nat /\ I # {}
    BY <1>1, <1>3, <1>5
  <2>2. Min(I) \in I /\ \A x \in I : Min(I) <= x
    <3> HIDE DEF I
    <3> QED
      BY <2>1, MinimumExists
  <2> QED
    BY <1>7, <2>2
<1>10. m = b + Len(t) + 1
  BY <1>1, <1>2, <1>3, <1>4, <1>5, <1>6, <1>9
<1>11. m \in 1..End /\ 1 \in Nat
  BY <1>1, <1>10
<1>12. Passed(m, 1) = IF m + 1 <= End THEN m + 1 ELSE End
  BY <1>1, <1>11, PassedIs
<1>13. Passed(m, 1) = b + Len(t) + 2
  BY <1>1, <1>10, <1>12
<1> QED
  BY <1>8, <1>13

-----------------------------------------------------------------------------
(* Sequences.                                                              *)
LEMMA TextEnd ==
  ASSUME text \in Seq(Character)
  PROVE  Len(text) \in Nat /\ End = Len(text) + 1
BY LenProperties DEF End

LEMMA WiderSeq ==
  ASSUME NEW S, NEW T, S \subseteq T, NEW s \in Seq(S)
  PROVE  s \in Seq(T)
OBVIOUS

LEMMA IsPrefixIs ==
  ASSUME NEW S, NEW w \in Seq(S), NEW T, NEW s \in Seq(T)
  PROVE  IsPrefix(w, s) <=> Len(w) <= Len(s) /\ \A i \in 1..Len(w) : s[i] = w[i]
<1>1. Len(w) \in Nat /\ Len(s) \in Nat
  BY LenProperties
<1>2. IsPrefix(w, s) <=> Len(w) <= Len(s) /\ SubSeq(w, 1, Len(w)) = SubSeq(s, 1, Len(w))
  BY DEF IsPrefix
<1>3. CASE Len(w) <= Len(s)
  <2> DEFINE u == SubSeq(w, 1, Len(w))
             v == SubSeq(s, 1, Len(w))
  <2>1. \A i \in 1..Len(w) : w[i] \in S \cup T /\ s[i] \in S \cup T
    <3>1. ASSUME NEW i \in 1..Len(w)
          PROVE  w[i] \in S /\ s[i] \in T
      <4>1. i \in 1..Len(s)
        BY <1>1, <1>3
      <4> QED
        BY <4>1, ElementOfSeq
    <3> QED
      BY <3>1
  <2>2. PICK n : n = Len(w)
    OBVIOUS
  <2>3. Len(w) = 0 => n = 0
    BY <2>2
  <2>4. 1 \in Int /\ n \in Nat /\ n \in Int /\ n - 1 + 1 = n /\ (1 <= n \/ n = 0) /\ ~(1 <= 0)
    BY <1>1, <2>2
  <2>5. /\ u \in Seq(S \cup T) /\ Len(u) = n
        /\ \A i \in 1..n : u[i] = w[1 + i - 1]
    <3>1. \A i \in 1..n : w[i] \in S \cup T
      BY <2>1, <2>2
    <3>2. /\ SubSeq(w, 1, n) \in Seq(S \cup T)
          /\ Len(SubSeq(w, 1, n)) = IF 1 <= n THEN n - 1 + 1 ELSE 0
          /\ \A i \in 1..(n - 1 + 1) : SubSeq(w, 1, n)[i] = w[1 + i - 1]
      BY <2>4, <3>1, SubSeqProperties
    <3> QED
      BY <2>2, <2>4, <3>2
  <2>6. /\ v \in Seq(S \cup T) /\ Len(v) = n
        /\ \A i \in 1..n : v[i] = s[1 + i - 1]
    <3>1. \A i \in 1..n : s[i] \in S \cup T
      BY <2>1, <2>2
    <3>2. /\ SubSeq(s, 1, n) \in Seq(S \cup T)
          /\ Len(SubSeq(s, 1, n)) = IF 1 <= n THEN n - 1 + 1 ELSE 0
          /\ \A i \in 1..(n - 1 + 1) : SubSeq(s, 1, n)[i] = s[1 + i - 1]
      BY <2>4, <3>1, SubSeqProperties
    <3> QED
      BY <2>2, <2>4, <3>2
  <2>7. \A i \in 1..n : 1 + i - 1 = i
    BY <2>4
  <2> HIDE DEF u, v
  <2>8. u = v <=> \A i \in 1..n : u[i] = v[i]
    <3>1. ASSUME \A i \in 1..n : u[i] = v[i]
          PROVE  u = v
      BY <2>5, <2>6, <3>1, SeqEqual
    <3> QED
      BY <3>1
  <2>9. u = v <=> \A i \in 1..n : s[i] = w[i]
    BY <2>5, <2>6, <2>7, <2>8
  <2> QED
    BY <1>2, <1>3, <2>2, <2>9 DEF u, v
<1> QED
  BY <1>2, <1>3

LEMMA WholeSequence ==
  ASSUME NEW S, NEW r \in Seq(S), NEW l, l = Len(r)
  PROVE  SubSeq(r, 1, l) = r
<1>1. l \in Nat
  BY LenProperties
<1>2. PICK u : u = SubSeq(r, 1, l)
  OBVIOUS
<1>3. /\ 1 \in Int
      /\ l \in Int
      /\ l - 1 + 1 = l
      /\ (1 <= l \/ l = 0)
      /\ (l = 0 => ~(1 <= l))
      /\ \A i \in 1..l : 1 + i - 1 = i
  BY <1>1
<1>4. \A i \in 1..l : r[i] \in S
  BY ElementOfSeq
<1>5. /\ u \in Seq(S) /\ Len(u) = (IF 1 <= l THEN l - 1 + 1 ELSE 0)
      /\ \A i \in 1..(l - 1 + 1) : u[i] = r[1 + i - 1]
  BY <1>2, <1>3, <1>4, SubSeqProperties
<1>6. Len(u) = l /\ \A i \in 1..l : u[i] = r[i]
  BY <1>3, <1>5
<1>7. u = r
  BY <1>5, <1>6, SeqEqual
<1> QED
  BY <1>2, <1>7

-----------------------------------------------------------------------------
(* Commands.                                                               *)
LEMMA Keywords ==
  /\ DOMAIN Keyword = {"WRITE", "READ", "DELETE", "WAIT", "SHOW", "HELP", "BACKUP"}
  /\ Len(Keyword["WRITE"]) = 6 /\ Len(Keyword["READ"]) = 5 /\ Len(Keyword["DELETE"]) = 7
  /\ Len(Keyword["WAIT"]) = 5 /\ Len(Keyword["SHOW"]) = 4 /\ Len(Keyword["HELP"]) = 4
  /\ Len(Keyword["BACKUP"]) = 6
  /\ Keyword["WRITE"][1] = "W" /\ Keyword["READ"][1] = "R" /\ Keyword["DELETE"][1] = "D"
  /\ Keyword["WAIT"][1] = "W" /\ Keyword["SHOW"][1] = "S" /\ Keyword["HELP"][1] = "H"
  /\ Keyword["BACKUP"][1] = "B"
  /\ Keyword["WRITE"][2] = "R" /\ Keyword["WAIT"][2] = "A"
BY DEF Keyword

\* The characters of the keywords.
Letters == {"W", "R", "I", "T", "E", " ", "A", "D", "L", "S", "H", "O", "P", "B", "C", "K", "U"}

LEMMA KeywordTyped ==
  ASSUME NEW c \in DOMAIN Keyword
  PROVE  /\ Keyword[c] \in Seq(Letters) /\ Len(Keyword[c]) \in 4..7
         /\ \A i \in 1..Len(Keyword[c]) : Keyword[c][i] # Newline
         /\ Keyword[c][1] # "#"
<1> DEFINE L == Letters
<1> USE DEF Letters
<1>1. Newline \notin L
  BY DEF Newline
<1>2. c \in {"WRITE", "READ", "DELETE", "WAIT", "SHOW", "HELP", "BACKUP"}
  BY Keywords
<1>3. Len(Keyword[c]) \in 4..7 /\ Keyword[c][1] # "#"
  BY <1>2, Keywords
<1>4. Keyword[c] \in Seq(L)
  <2>1. CASE c = "WRITE"
    BY <2>1 DEF Keyword
  <2>2. CASE c = "READ"
    BY <2>2 DEF Keyword
  <2>3. CASE c = "DELETE"
    BY <2>3 DEF Keyword
  <2>4. CASE c = "WAIT"
    BY <2>4 DEF Keyword
  <2>5. CASE c = "SHOW"
    BY <2>5 DEF Keyword
  <2>6. CASE c = "HELP"
    BY <2>6 DEF Keyword
  <2>7. CASE c = "BACKUP"
    BY <2>7 DEF Keyword
  <2> QED
    BY <1>2, <2>1, <2>2, <2>3, <2>4, <2>5, <2>6, <2>7
<1> HIDE DEF L, Letters
<1>5. PICK w : w = Keyword[c]
  OBVIOUS
<1>6. w \in Seq(L)
  BY <1>4, <1>5
<1>7. \A i \in 1..Len(w) : w[i] \in L
  BY <1>6, ElementOfSeq
<1> QED
  BY <1>1, <1>3, <1>5, <1>6, <1>7 DEF L

(* A word, element by element.                                             *)
LEMMA MatchesIs ==
  ASSUME text \in Seq(Character), NEW p \in 1..End, NEW S, NEW w \in Seq(S), Len(w) # 0
  PROVE  Matches(p, w) <=> /\ p + Len(w) <= End
                           /\ \A i \in 1..Len(w) : text[p + i - 1] = w[i]
<1>1. Len(text) \in Nat /\ End = Len(text) + 1 /\ Len(w) \in Nat
  BY TextEnd, LenProperties
<1>2. CASE ~(p + Len(w) <= End)
  BY <1>2 DEF Matches
<1>3. CASE p + Len(w) <= End
  <2> DEFINE m == p + Len(w) - 1
             u == SubSeq(text, p, m)
  <2>1. m \in Nat /\ p \in Nat \ {0} /\ p <= m /\ m <= Len(text) /\ m - p + 1 = Len(w)
    BY <1>1, <1>3
  <2>2. \A i \in p..m : text[i] \in Character
    BY <1>1, <2>1, ElementOfSeq
  <2> HIDE DEF m
  <2>3. u \in Seq(Character) /\ Len(u) = m - p + 1 /\ \A i \in 1..(m - p + 1) : u[i] = text[p + i - 1]
    BY <2>1, <2>2, SubSeqProperties
  <2>4. Len(u) = Len(w) /\ \A i \in 1..Len(w) : u[i] = text[p + i - 1]
    BY <2>1, <2>3
  <2>5. u = w <=> \A i \in 1..Len(w) : u[i] = w[i]
    <3>1. ASSUME \A i \in 1..Len(w) : u[i] = w[i]
          PROVE  u = w
      <4>1. u \in Seq(Character \cup S) /\ w \in Seq(Character \cup S)
        BY <2>3
      <4> QED
        BY <2>4, <3>1, <4>1, SeqEqual
    <3> QED
      BY <3>1
  <2>6. Matches(p, w) <=> u = w
    BY <1>3 DEF Matches, m
  <2> HIDE DEF u
  <2> QED
    BY <1>3, <2>4, <2>5, <2>6
<1> QED
  BY <1>2, <1>3

LEMMA RestIs ==
  ASSUME NEW s \in Seq(Character), NEW c \in DOMAIN Keyword, Len(Keyword[c]) <= Len(s)
  PROVE  /\ Rest(c, s) \in Seq(Character) /\ Len(Rest(c, s)) = Len(s) - Len(Keyword[c])
         /\ Len(Rest(c, s)) \in Nat
         /\ \A i \in 1..Len(Rest(c, s)) : Rest(c, s)[i] = s[Len(Keyword[c]) + i]
<1>1. PICK a, n : a = Len(Keyword[c]) /\ n = Len(s)
  OBVIOUS
<1>2. a \in 4..7
  BY <1>1, KeywordTyped
<1>3. n \in Nat /\ a \in Nat /\ a <= n
  BY <1>1, <1>2, LenProperties
<1>4. \A i \in (a + 1)..n : s[i] \in Character
  <2>1. \A i \in (a + 1)..n : i \in 1..n
    BY <1>3
  <2> QED
    BY <1>1, <2>1, ElementOfSeq
<1>5. PICK r : r = SubSeq(s, a + 1, n)
  OBVIOUS
<1>6. PICK b : b = a + 1
  OBVIOUS
<1>7. b \in Int /\ n \in Int /\ n - b + 1 = n - a /\ (b <= n \/ n - a = 0)
  BY <1>3, <1>6
<1>8. /\ r \in Seq(Character) /\ Len(r) = (IF b <= n THEN n - b + 1 ELSE 0)
      /\ \A i \in 1..(n - b + 1) : r[i] = s[b + i - 1]
  <2>1. \A i \in b..n : s[i] \in Character
    BY <1>4, <1>6
  <2> QED
    BY <1>5, <1>6, <1>7, <2>1, SubSeqProperties
<1>9. Len(r) = n - a /\ n - a \in Nat
  <2>1. b <= n \/ n - a = 0
    BY <1>7
  <2>2. n - a = 0 => ~(b <= n)
    BY <1>3, <1>6
  <2> QED
    BY <1>3, <1>7, <1>8, <2>1, <2>2
<1>10. \A i \in 1..(n - a) : r[i] = s[a + i]
  <2>1. \A i \in 1..(n - a) : b + i - 1 = a + i
    BY <1>3, <1>6
  <2> QED
    BY <1>7, <1>8, <2>1
<1>11. r = Rest(c, s)
  BY <1>1, <1>5 DEF Rest
<1> QED
  BY <1>1, <1>8, <1>9, <1>10, <1>11

LEMMA DigitsOf ==
  ASSUME NEW r \in Seq(Character), NEW m \in 0..Len(r), ToSet(SubSeq(r, 1, m)) \subseteq Digits
  PROVE  \A i \in 1..m : r[i] \in Digits
<1>1. PICK u : u = SubSeq(r, 1, m)
  OBVIOUS
<1>2. Len(r) \in Nat
  BY LenProperties
<1>3. 1 \in Int /\ m \in Int /\ m - 1 + 1 = m /\ (1 <= m \/ m = 0) /\ (m = 0 => ~(1 <= m))
      /\ \A i \in 1..m : i \in 1..Len(r) /\ 1 + i - 1 = i
  BY <1>2
<1>4. \A i \in 1..m : r[i] \in Character
  BY <1>3, ElementOfSeq
<1>5. /\ u \in Seq(Character) /\ Len(u) = (IF 1 <= m THEN m - 1 + 1 ELSE 0)
      /\ \A i \in 1..(m - 1 + 1) : u[i] = r[1 + i - 1]
  BY <1>1, <1>3, <1>4, SubSeqProperties
<1>6. Len(u) = m /\ \A i \in 1..m : u[i] = r[i]
  BY <1>3, <1>5
<1>7. DOMAIN u = 1..m
  BY <1>5, <1>6, LenProperties
<1>8. \A i \in DOMAIN u : u[i] \in ToSet(u)
  BY DEF ToSet
<1> QED
  BY <1>1, <1>6, <1>7, <1>8

LEMMA StopIs ==
  ASSUME text \in Seq(Character), NEW p \in 1..End, NEW q, q = read_uint(p).stop
  PROVE  /\ q \in p..End /\ (q # End => text[q] \notin Digits)
         /\ \A i \in p..Len(text) : text[i] \notin Digits => q <= i
         /\ q < End => read_uint(p).numbers = {Number(SubSeq(text, p, q - 1))}
<1> DEFINE I == {i \in p..Len(text) : text[i] \notin Digits} \cup {End}
<1>1. Len(text) \in Nat /\ End = Len(text) + 1
  BY TextEnd
<1>2. I \in SUBSET Nat /\ I # {} /\ I \subseteq p..End
  BY <1>1
<1>3. Min(I) \in I /\ \A i \in I : Min(I) <= i
  BY <1>2, MinimumExists
<1>4. q = Min(I)
  BY DEF read_uint
<1>5. q < End => ~AtEnd(q)
  <2>1. q \in Nat
    BY <1>2, <1>3, <1>4
  <2> QED
    BY <1>1, <2>1 DEF AtEnd
<1>6. q < End => read_uint(p).numbers = {Number(SubSeq(text, p, q - 1))}
  <2> HIDE DEF I
  <2>1. read_uint(p).numbers = IF AtEnd(q) THEN {Number(SubSeq(text, p, q - 1) \o g) : g \in StaleDigits}
                                           ELSE {Number(SubSeq(text, p, q - 1))}
    BY DEF read_uint
  <2> QED
    BY <1>5, <2>1
<1> QED
  BY <1>2, <1>3, <1>4, <1>6

-----------------------------------------------------------------------------
(* Where a line is in the text.                                            *)
LEMMA LineOnText ==
  ASSUME NEW f, FileIs(f), NEW n \in 1..Len(script)
  PROVE  /\ f[n] \in Nat \ {0} /\ f[n] - 1 \in Nat /\ script[n].chars \in Seq(Character)
         /\ Terminated(n) \in BOOLEAN
         /\ OnText(f[n] - 1, script[n].chars, Terminated(n))
<1>1. LineFacts(f, n) /\ text \in Seq(Character) /\ LineAt(f, n)
  BY LineIs DEF FileIs
<1>2. PICK a, e, l, s, ends :
        /\ a = f[n]
        /\ e = f[n + 1]
        /\ l = Len(script[n].chars)
        /\ s = script[n].chars
        /\ ends = Terminated(n)
  OBVIOUS
<1>3. /\ a \in Nat \ {0}
      /\ e \in Nat
      /\ l \in Nat
      /\ e = a + l + 1
      /\ End \in Nat
      /\ End = Len(text) + 1
      /\ e - 1 <= End
      /\ ends \in BOOLEAN
      /\ (ends => e <= End /\ text[e - 1] = Newline) /\ (~ends => End = e - 1)
  BY <1>1, <1>2 DEF LineFacts
<1>4. s \in Seq(Character) /\ l = Len(s) /\ \A i \in 1..l : text[a + i - 1] = s[i] /\ s[i] # Newline
  BY <1>1, <1>2 DEF LineAt, IsLine
<1>5. PICK b : b = a - 1
  OBVIOUS
<1>6. /\ b \in Nat /\ b + l + 1 = e - 1 /\ \A i \in 1..l : b + i = a + i - 1
  BY <1>3, <1>5
<1>7. \A i \in 1..l : text[b + i] = s[i] /\ s[i] # Newline
  BY <1>4, <1>6
<1>8. /\ ends => b + l + 1 < End /\ text[b + l + 1] = Newline
      /\ ~ends => End = b + l + 1
      /\ b + l + 1 <= End
  BY <1>3, <1>6
<1>9. OnText(b, s, ends)
  BY <1>1, <1>3, <1>4, <1>6, <1>7, <1>8 DEF OnText
<1> QED
  BY <1>2, <1>3, <1>4, <1>5, <1>6, <1>9

(* What follows the command on it.                                         *)
LEMMA RestOnText ==
  ASSUME NEW b \in Nat, NEW s \in Seq(Character), NEW ends, OnText(b, s, ends),
         NEW c \in DOMAIN Keyword, Len(Keyword[c]) <= Len(s)
  PROVE  /\ OnText(b + Len(Keyword[c]), Rest(c, s), ends) /\ b + Len(Keyword[c]) \in Nat
         /\ Rest(c, s) \in Seq(Character)
         /\ Len(Rest(c, s)) = Len(s) - Len(Keyword[c])
<1>1. PICK k : k = Len(Keyword[c])
  OBVIOUS
<1>2. k \in 4..7
  BY <1>1, KeywordTyped
<1>3. PICK t : t = Rest(c, s)
  OBVIOUS
<1>4. t \in Seq(Character) /\ Len(t) = Len(s) - k /\ Len(t) \in Nat /\ \A i \in 1..Len(t) : t[i] = s[k + i]
  BY <1>1, <1>3, RestIs
<1>5. PICK l, m : l = Len(s) /\ m = Len(t)
  OBVIOUS
<1>6. /\ ends \in BOOLEAN /\ l \in Nat /\ \A i \in 1..l : text[b + i] = s[i] /\ s[i] # Newline
      /\ ends => b + l + 1 < End /\ text[b + l + 1] = Newline
      /\ ~ends => End = b + l + 1
      /\ b + l + 1 <= End
      /\ End \in Nat /\ End = Len(text) + 1 /\ text \in Seq(Character)
  BY <1>5 DEF OnText
<1>7. k \in Nat /\ m \in Nat /\ m = l - k /\ k <= l
  BY <1>1, <1>2, <1>4, <1>5
<1>8. PICK d : d = b + k
  OBVIOUS
<1>9. d \in Nat /\ d + m + 1 = b + l + 1
  BY <1>6, <1>7, <1>8
<1>10. ASSUME NEW i \in 1..m
       PROVE  text[d + i] = t[i] /\ t[i] # Newline
  <2>1. PICK j : j = k + i
    OBVIOUS
  <2>2. j \in 1..l /\ b + j = d + i
    BY <1>6, <1>7, <1>8, <2>1
  <2>3. text[b + j] = s[j] /\ s[j] # Newline
    BY <1>6, <2>2
  <2>4. t[i] = s[j]
    BY <1>4, <1>5, <2>1
  <2> QED
    BY <2>2, <2>3, <2>4
<1>11. OnText(d, t, ends)
  BY <1>4, <1>5, <1>6, <1>7, <1>9, <1>10 DEF OnText
<1> QED
  BY <1>1, <1>3, <1>4, <1>8, <1>9, <1>11

(* The command on a line, if there is one, is where get_next looks for it. *)
LEMMA MatchesLine ==
  ASSUME NEW b \in Nat, NEW s \in Seq(Character), NEW ends, OnText(b, s, ends),
         NEW c \in DOMAIN Keyword
  PROVE  Matches(b + 1, Keyword[c]) <=> IsPrefix(Keyword[c], s)
<1>1. PICK w, n, l : w = Keyword[c] /\ n = Len(w) /\ l = Len(s)
  OBVIOUS
<1>2. w \in Seq(Letters) /\ n \in 4..7 /\ n \in Nat /\ n # 0 /\ \A i \in 1..n : w[i] # Newline
  <2>1. w \in Seq(Letters) /\ n \in 4..7 /\ \A i \in 1..n : w[i] # Newline
    BY <1>1, KeywordTyped
  <2>2. n \in Nat /\ n # 0
    BY <2>1
  <2> QED
    BY <2>1, <2>2
<1>3. /\ ends \in BOOLEAN /\ l \in Nat /\ \A i \in 1..l : text[b + i] = s[i] /\ s[i] # Newline
      /\ ends => b + l + 1 < End /\ text[b + l + 1] = Newline
      /\ ~ends => End = b + l + 1
      /\ b + l + 1 <= End
      /\ End \in Nat /\ End = Len(text) + 1 /\ text \in Seq(Character)
  BY <1>1 DEF OnText
<1>4. PICK p : p = b + 1
  OBVIOUS
<1>5. p \in 1..End
  BY <1>3, <1>4
<1>6. Matches(p, w) <=> p + n <= End /\ \A i \in 1..n : text[p + i - 1] = w[i]
  BY <1>1, <1>2, <1>3, <1>5, MatchesIs
<1>7. IsPrefix(w, s) <=> n <= l /\ \A i \in 1..n : s[i] = w[i]
  BY <1>1, <1>2, IsPrefixIs
<1>8. \A i \in 1..n : p + i - 1 = b + i
  BY <1>4
<1>9. ASSUME p + n <= End, \A i \in 1..n : text[b + i] = w[i]
      PROVE  n <= l
  <2> SUFFICES ASSUME n > l
               PROVE  FALSE
    BY <1>2, <1>3
  <2>1. ends
    BY <1>2, <1>3, <1>4, <1>9
  <2>2. PICK i : i = l + 1
    OBVIOUS
  <2>3. i \in 1..n /\ b + i = b + l + 1
    BY <1>2, <1>3, <2>2
  <2> QED
    BY <1>2, <1>3, <1>9, <2>1, <2>3
<1>10. ASSUME n <= l
       PROVE  p + n <= End /\ \A i \in 1..n : i \in 1..l
  BY <1>2, <1>3, <1>4, <1>10
<1>11. ASSUME n <= l, NEW i \in 1..n
       PROVE  text[b + i] = s[i]
  BY <1>3, <1>10, <1>11
<1>12. Matches(p, w) <=> p + n <= End /\ \A i \in 1..n : text[b + i] = w[i]
  BY <1>6, <1>8
<1>13. Matches(p, w) <=> IsPrefix(w, s)
  BY <1>7, <1>9, <1>10, <1>11, <1>12
<1> QED
  BY <1>1, <1>4, <1>13

LEMMA CommandFacts ==
  ASSUME NEW s \in Seq(Character), NEW c \in CommandsOf(s)
  PROVE  /\ c \in DOMAIN Keyword /\ Len(Keyword[c]) <= Len(s) /\ Len(Keyword[c]) \in 4..7
         /\ s # << >> /\ s[1] = Keyword[c][1] /\ s[1] # "#" /\ s[2] = Keyword[c][2]
         /\ c \in Bare => s = Keyword[c]
<1>1. c \in DOMAIN Keyword /\ IsPrefix(Keyword[c], s) /\ (c \in Bare => s = Keyword[c])
  BY DEF CommandsOf
<1>2. PICK w, n, l : w = Keyword[c] /\ n = Len(w) /\ l = Len(s)
  OBVIOUS
<1>3. w \in Seq(Letters) /\ n \in 4..7 /\ w[1] # "#"
  BY <1>1, <1>2, KeywordTyped
<1>4. IsPrefix(w, s) <=> n <= l /\ \A i \in 1..n : s[i] = w[i]
  BY <1>2, <1>3, IsPrefixIs
<1>5. n <= l /\ \A i \in 1..n : s[i] = w[i]
  BY <1>1, <1>2, <1>4
<1>6. 1 \in 1..n /\ 2 \in 1..n
  BY <1>3
<1>7. s # << >>
  <2>1. l # 0
    BY <1>3, <1>5
  <2> QED
    BY <1>2, <2>1
<1>8. s[1] = w[1] /\ s[2] = w[2]
  BY <1>5, <1>6
<1> QED
  BY <1>1, <1>2, <1>3, <1>5, <1>7, <1>8

LEMMA OneOfLine ==
  ASSUME NEW s \in Seq(Character), NEW c \in CommandsOf(s), NEW d \in CommandsOf(s)
  PROVE  c = d
<1>1. /\ Keyword[c][1] = Keyword[d][1] /\ Keyword[c][2] = Keyword[d][2]
      /\ c \in DOMAIN Keyword /\ d \in DOMAIN Keyword
  BY CommandFacts
<1>2. c \in {"WRITE", "READ", "DELETE", "WAIT", "SHOW", "HELP", "BACKUP"}
  BY <1>1, Keywords
<1>3. d \in {"WRITE", "READ", "DELETE", "WAIT", "SHOW", "HELP", "BACKUP"}
  BY <1>1, Keywords
<1> QED
  BY <1>1, <1>2, <1>3, Keywords

LEMMA CommandsOnText ==
  ASSUME NEW b \in Nat, NEW s \in Seq(Character), NEW ends, OnText(b, s, ends)
  PROVE  CommandAt(b + 1) = CommandsOf(s)
<1>1. PICK p, l : p = b + 1 /\ l = Len(s)
  OBVIOUS
<1>2. /\ ends \in BOOLEAN /\ l \in Nat /\ \A i \in 1..l : text[b + i] = s[i] /\ s[i] # Newline
      /\ ends => b + l + 1 < End /\ text[b + l + 1] = Newline
      /\ ~ends => End = b + l + 1
      /\ b + l + 1 <= End
      /\ End \in Nat /\ End = Len(text) + 1 /\ text \in Seq(Character)
  BY <1>1 DEF OnText
<1>3. ASSUME NEW c \in DOMAIN Keyword, IsPrefix(Keyword[c], s)
      PROVE  (AtEnd(p + Len(Keyword[c])) \/ text[p + Len(Keyword[c])] = Newline) <=> s = Keyword[c]
  <2>1. PICK w, n : w = Keyword[c] /\ n = Len(w)
    OBVIOUS
  <2>2. w \in Seq(Letters) /\ n \in Nat
    BY <2>1, KeywordTyped
  <2>3. n <= l /\ \A i \in 1..n : s[i] = w[i]
    <3>1. IsPrefix(w, s) <=> n <= l /\ \A i \in 1..n : s[i] = w[i]
      BY <1>1, <2>1, <2>2, IsPrefixIs
    <3> QED
      BY <1>3, <2>1, <3>1
  <2>4. PICK q : q = p + n
    OBVIOUS
  <2>5. (AtEnd(q) \/ text[q] = Newline) <=> n = l
    <3>1. CASE n = l
      <4>1. q = b + l + 1
        BY <1>1, <1>2, <2>4, <3>1
      <4>2. AtEnd(q) <=> q >= End
        BY DEF AtEnd
      <4> QED
        BY <1>2, <3>1, <4>1, <4>2
    <3>2. CASE n # l
      <4>1. PICK i : i = n + 1
        OBVIOUS
      <4>2. i \in 1..l /\ b + i = q /\ q < End /\ q \in Nat
        BY <1>1, <1>2, <2>2, <2>3, <2>4, <3>2, <4>1
      <4>3. ~AtEnd(q)
        BY <1>2, <4>2 DEF AtEnd
      <4> QED
        BY <1>2, <3>2, <4>2, <4>3
    <3> QED
      BY <3>1, <3>2
  <2>6. n = l <=> s = w
    <3>1. ASSUME n = l
          PROVE  s = w
      <4>1. s \in Seq(Character \cup Letters) /\ w \in Seq(Character \cup Letters) /\ Len(s) = Len(w)
        BY <1>1, <2>1, <2>2, <3>1, WiderSeq
      <4>2. \A i \in 1..Len(s) : s[i] = w[i]
        BY <1>1, <2>3, <3>1
      <4> QED
        BY <4>1, <4>2, SeqEqual
    <3> QED
      BY <1>1, <2>1, <3>1
  <2> QED
    BY <2>1, <2>4, <2>5, <2>6
<1>4. ASSUME NEW c \in DOMAIN Keyword
      PROVE  Matches(p, Keyword[c]) <=> IsPrefix(Keyword[c], s)
  BY <1>1, MatchesLine
<1>5. ASSUME NEW c \in DOMAIN Keyword
      PROVE  c \in CommandAt(p) <=> c \in CommandsOf(s)
  BY <1>3, <1>4 DEF CommandAt, CommandsOf
<1>6. (\A c \in CommandAt(p) : c \in DOMAIN Keyword) /\ \A c \in CommandsOf(s) : c \in DOMAIN Keyword
  BY DEF CommandAt, CommandsOf
<1>7. CommandAt(p) = CommandsOf(s)
  BY <1>5, <1>6
<1> QED
  BY <1>1, <1>7

-----------------------------------------------------------------------------
(* A number on a line: m digits.                                           *)
IsNumber(t, m) ==
  m \in 0..Len(t) /\ (\A i \in 1..m : t[i] \in Digits) /\ (m = Len(t) \/ t[m + 1] \notin Digits)

\* What read_uint makes of it.
NumberRead(b, t, ends, m) ==
  /\ read_uint(b + 1).stop = b + m + 1 /\ b + m + 1 <= End
  /\ m # Len(t) \/ ends => /\ b + m + 1 < End
                           /\ read_uint(b + 1).numbers = {Number(SubSeq(t, 1, m))}
  /\ m = Len(t) /\ ~ends => /\ b + m + 1 = End
                            /\ read_uint(b + 1).numbers = {Number(t \o g) : g \in StaleDigits}

LEMMA NumberOnText ==
  ASSUME NEW b \in Nat, NEW t \in Seq(Character), NEW ends, OnText(b, t, ends)
  PROVE  \E m : IsNumber(t, m) /\ NumberRead(b, t, ends, m)
<1>1. PICK p, l : p = b + 1 /\ l = Len(t)
  OBVIOUS
<1>2. /\ ends \in BOOLEAN /\ l \in Nat /\ \A i \in 1..l : text[b + i] = t[i] /\ t[i] # Newline
      /\ ends => b + l + 1 < End /\ text[b + l + 1] = Newline
      /\ ~ends => End = b + l + 1
      /\ b + l + 1 <= End
      /\ End \in Nat /\ End = Len(text) + 1 /\ text \in Seq(Character)
  BY <1>1 DEF OnText
<1>3. PICK q : q = read_uint(p).stop
  OBVIOUS
<1>4. p \in 1..End /\ p \in Nat
  BY <1>1, <1>2
<1>5. /\ q \in p..End /\ (q # End => text[q] \notin Digits)
      /\ \A i \in p..Len(text) : text[i] \notin Digits => q <= i
      /\ q < End => read_uint(p).numbers = {Number(SubSeq(text, p, q - 1))}
  BY <1>2, <1>3, <1>4, StopIs
<1>6. PICK m : m = q - p
  OBVIOUS
<1>7. m \in Nat /\ q = p + m /\ q = b + m + 1 /\ q \in Nat
  BY <1>1, <1>2, <1>4, <1>5, <1>6
<1>8. m <= l
  <2>1. CASE ends
    <3>1. Newline \notin Digits
      BY DEF Newline, Digits
    <3>2. b + l + 1 \in p..Len(text) /\ text[b + l + 1] \notin Digits
      BY <1>1, <1>2, <2>1, <3>1
    <3>3. q <= b + l + 1
      BY <1>5, <3>2
    <3> QED
      BY <1>2, <1>7, <3>3
  <2>2. CASE ~ends
    BY <1>2, <1>4, <1>5, <1>7, <2>2
  <2> QED
    BY <2>1, <2>2
<1>9. ASSUME NEW i \in 1..m
      PROVE  t[i] \in Digits
  <2>1. PICK k : k = b + i
    OBVIOUS
  <2>2. k \in p..Len(text) /\ ~(q <= k) /\ i \in 1..l
    BY <1>1, <1>2, <1>7, <1>8, <2>1
  <2>3. text[k] = t[i]
    BY <1>2, <2>1, <2>2
  <2> QED
    BY <1>5, <2>2, <2>3
<1>10. m = l \/ t[m + 1] \notin Digits
  <2> SUFFICES ASSUME m # l
               PROVE  t[m + 1] \notin Digits
    OBVIOUS
  <2>1. PICK i : i = m + 1
    OBVIOUS
  <2>2. i \in 1..l /\ b + i = q /\ q < End
    BY <1>2, <1>7, <1>8, <2>1
  <2> QED
    BY <1>2, <1>5, <2>1, <2>2
<1>11. IsNumber(t, m)
  <2>1. m \in 0..l
    BY <1>2, <1>7, <1>8
  <2> QED
    BY <1>1, <1>9, <1>10, <2>1 DEF IsNumber
<1>12. SubSeq(text, p, q - 1) = SubSeq(t, 1, m)
  <2>1. PICK j : j = m + 1
    OBVIOUS
  <2>2. 1 \in 1..(Len(t) + 1) /\ j \in 1..(Len(t) + 1) /\ b + j - 1 = q - 1 /\ j - 1 = m
    BY <1>1, <1>2, <1>7, <1>8, <2>1
  <2>3. SubSeq(text, b + 1, b + j - 1) = SubSeq(t, 1, j - 1)
    BY <2>2, PartOfText
  <2> QED
    BY <1>1, <2>2, <2>3
<1>13. m # l \/ ends => q < End /\ read_uint(p).numbers = {Number(SubSeq(t, 1, m))}
  <2>1. m # l \/ ends => q < End
    BY <1>2, <1>7, <1>8
  <2> QED
    BY <1>5, <1>12, <2>1
<1>14. ASSUME m = l, ~ends
       PROVE  q = End /\ read_uint(p).numbers = {Number(t \o g) : g \in StaleDigits}
  <2>1. q = End
    BY <1>2, <1>7, <1>14
  <2>2. AtEnd(q)
    BY <1>2, <2>1 DEF AtEnd
  <2>3. SubSeq(text, p, q - 1) = t
    BY <1>1, <1>12, <1>14, WholeSequence
  <2>4. read_uint(p).numbers = {Number(SubSeq(text, p, q - 1) \o g) : g \in StaleDigits}
    <3>1. PICK z : z = Min({i \in p..Len(text) : text[i] \notin Digits} \cup {End})
      OBVIOUS
    <3>2. z = q
      BY <1>3, <3>1 DEF read_uint
    <3>3. read_uint(p).numbers = IF AtEnd(z) THEN {Number(SubSeq(text, p, z - 1) \o g) : g \in StaleDigits}
                                             ELSE {Number(SubSeq(text, p, z - 1))}
      BY <3>1 DEF read_uint
    <3> QED
      BY <2>2, <3>2, <3>3
  <2> QED
    BY <2>1, <2>3, <2>4
<1>15. q <= End
  BY <1>2, <1>5, <1>7
<1>16. NumberRead(b, t, ends, m)
  BY <1>1, <1>3, <1>7, <1>13, <1>14, <1>15 DEF NumberRead
<1> QED
  BY <1>11, <1>16

(* A comment is read no further than its first character.                  *)
LEMMA ReadSizeOfComment == ReadSize("#") = 1
<1> DEFINE I == {1} \cup {Len(Keyword[c]) : c \in {d \in DOMAIN Keyword : Keyword[d][1] = "#"}}
<1>1. {d \in DOMAIN Keyword : Keyword[d][1] = "#"} = {}
  BY KeywordTyped
<1>2. I = {1}
  BY <1>1
<1>3. I \in SUBSET (0..1) /\ I # {} /\ 1 \in Nat
  BY <1>2
<1>4. Max(I) \in I
  <2> HIDE DEF I
  <2> QED
    BY <1>3, MaximumExists
<1> QED
  BY <1>2, <1>4 DEF ReadSize

-----------------------------------------------------------------------------
(* Where lines begin.                                                      *)
LEMMA PositionInLine ==
  ASSUME NEW f, FileIs(f), NEW p \in 1..(End - 1)
  PROVE  \E k \in 1..Len(script) : p \in f[k]..(f[k + 1] - 1)
<1>1. PICK n : n = Len(script)
  OBVIOUS
<1>2. /\ n \in Nat \ {0} /\ f \in [1..(n + 1) -> Nat \ {0}] /\ f[1] = 1
      /\ text \in Seq(Character) /\ complete \in BOOLEAN
      /\ End = (IF complete THEN f[n + 1] ELSE f[n + 1] - 1)
  BY <1>1 DEF FileIs
<1>3. End \in Nat /\ n + 1 \in 1..(n + 1) /\ 1 \in 1..(n + 1)
  BY <1>2, LenProperties DEF End
<1>4. f[n + 1] \in Nat /\ End <= f[n + 1]
  BY <1>2, <1>3
<1> DEFINE Upto == {k \in 1..(n + 1) : f[k] <= p}
<1>5. ~(1..(n + 1) \subseteq Upto)
  <2>1. ~(f[n + 1] <= p)
    BY <1>3, <1>4
  <2> QED
    BY <1>3, <2>1
<1>6. PICK k \in 1..(n + 1) : k \notin Upto /\ 1..(k - 1) \subseteq Upto
  <2> HIDE DEF Upto
  <2>1. n + 1 \in Nat
    BY <1>2
  <2> QED
    BY <1>5, <2>1, FirstFailure
<1>7. k # 1
  <2>1. 1 \in Upto
    BY <1>2, <1>3
  <2> QED
    BY <1>6, <2>1
<1>8. PICK j : j = k - 1
  OBVIOUS
<1>9. j \in 1..n /\ j \in 1..(k - 1) /\ j + 1 = k
  BY <1>2, <1>6, <1>7, <1>8
<1>10. f[j] <= p /\ ~(f[j + 1] <= p) /\ f[j] \in Nat /\ f[j + 1] \in Nat
  <2>1. j \in Upto /\ j \in 1..(n + 1)
    BY <1>2, <1>6, <1>9
  <2> QED
    BY <1>2, <1>6, <1>9, <2>1
<1>11. p \in f[j]..(f[j + 1] - 1)
  BY <1>3, <1>10
<1> QED
  BY <1>1, <1>9, <1>11

LEMMA StartAtLine ==
  ASSUME NEW f, FileIs(f), NEW p \in 1..End, LineStart(p)
  PROVE  \E k \in 1..(Len(script) + 1) : p = StartOf(f, k)
<1>1. PICK n : n = Len(script)
  OBVIOUS
<1>2. n \in Nat \ {0} /\ f[1] = 1 /\ text \in Seq(Character)
  BY <1>1 DEF FileIs
<1>3. End \in Nat
  BY <1>2, LenProperties DEF End
<1>4. CASE p = End
  <2>1. n + 1 \in 1..(n + 1) /\ n + 1 \notin 1..n
    BY <1>2
  <2> QED
    BY <1>1, <1>4, <2>1 DEF StartOf
<1>5. CASE p = 1
  <2>1. 1 \in 1..(n + 1) /\ 1 \in 1..n
    BY <1>2
  <2> QED
    BY <1>1, <1>2, <1>5, <2>1 DEF StartOf
<1>6. CASE p # 1 /\ p # End
  <2>1. PICK x : x = p - 1
    OBVIOUS
  <2>2. x \in 1..(End - 1) /\ text[x] = Newline /\ x + 1 = p /\ p < End
    BY <1>3, <1>6, <2>1 DEF LineStart
  <2>3. PICK k \in 1..n : x \in f[k]..(f[k + 1] - 1)
    BY <1>1, <2>2, PositionInLine
  <2>4. LineFacts(f, k) /\ LineAt(f, k)
    BY <1>1, LineIs DEF FileIs
  <2>5. PICK a, e, l : a = f[k] /\ e = f[k + 1] /\ l = Len(script[k].chars)
    OBVIOUS
  <2>6. a \in Nat /\ e \in Nat /\ l \in Nat /\ e = a + l + 1 /\ x \in a..(e - 1)
    BY <2>3, <2>4, <2>5 DEF LineFacts
  <2>7. x = e - 1
    <3> SUFFICES ASSUME x # e - 1
                 PROVE  FALSE
      OBVIOUS
    <3>1. PICK i : i = x - a + 1
      OBVIOUS
    <3>2. i \in 1..l /\ a + i - 1 = x
      BY <2>6, <3>1
    <3>3. text[a + i - 1] = script[k].chars[i] /\ script[k].chars[i] # Newline
      BY <2>4, <2>5, <3>2 DEF LineAt, IsLine
    <3> QED
      BY <2>2, <3>2, <3>3
  <2>8. p = e
    BY <2>2, <2>6, <2>7
  <2>9. Terminated(k)
    <3> SUFFICES ASSUME ~Terminated(k)
                 PROVE  FALSE
      OBVIOUS
    <3>1. End = e - 1
      BY <2>4, <2>5 DEF LineFacts
    <3> QED
      BY <1>3, <2>2, <2>6, <2>8, <3>1
  <2>10. StartOf(f, k + 1) = e
    BY <1>1, <2>5, <2>9, StartNext
  <2>11. k + 1 \in 1..(n + 1)
    BY <1>2
  <2> QED
    BY <1>1, <2>8, <2>10, <2>11
<1> QED
  BY <1>4, <1>5, <1>6

-----------------------------------------------------------------------------
(* The end of a call of get_next.                                          *)

\* The call on line n has been right to do what it did, and to leave the file
\* at q.
CallRight(f, n, q, what) ==
  /\ EntryOK(n, what) /\ q \in Nat /\ q > f[n]
  /\ Terminated(n) /\ script[n].class \in {"good", "blank", "bad"} => q = StartOf(f, n + 1)
  /\ Terminated(n) /\ script[n].class = "greedy" => q = StartOf(f, n + 2)

LEMMA SameFile ==
  ASSUME NEW f, FileIs(f), script' = script, complete' = complete, text' = text
  PROVE  /\ FileIs(f)' /\ LineNumbers' = LineNumbers /\ End' = End
         /\ \A n : (Terminated(n)' <=> Terminated(n)) /\ (Known(n)' <=> Known(n))
         /\ \A k : StartOf(f, k)' = StartOf(f, k)
         /\ \A n, what : EntryOK(n, what)' <=> EntryOK(n, what)
<1>1. End' = End /\ \A p : LineOf(p)' = LineOf(p)
  BY DEF End, LineOf
<1>2. \A n : Terminated(n)' <=> Terminated(n)
  BY DEF Terminated
<1>3. \A n : Known(n)' <=> Known(n)
  BY <1>2 DEF Known
<1>4. LineNumbers' = LineNumbers
  BY <1>2 DEF LineNumbers
<1>5. \A k : StartOf(f, k)' = StartOf(f, k)
  BY <1>1 DEF StartOf
<1>6. \A n, what : EntryOK(n, what)' <=> EntryOK(n, what)
  BY <1>2 DEF EntryOK
<1>7. \A k : LineAt(f, k) => LineAt(f, k)'
  BY <1>1, <1>2 DEF LineAt
<1>8. FileIs(f)'
  BY <1>1, <1>7 DEF FileIs
<1> QED
  BY <1>1, <1>2, <1>3, <1>4, <1>5, <1>6, <1>8

LEMMA NumberedLine ==
  ASSUME NEW f, FileIs(f), NEW n \in LineNumbers
  PROVE  /\ n \in 1..Len(script) /\ Len(script) \in Nat
         /\ f[n] \in Nat /\ f[n] < End /\ StartOf(f, n) = f[n] /\ f[n] < StartOf(f, n + 1)
         /\ n + 1 \in LineNumbers => Terminated(n) /\ StartOf(f, n + 1) = f[n + 1] /\ f[n] < f[n + 1]
<1>1. n \in 1..Len(script) /\ Len(script) \in Nat \ {0}
  BY DEF FileIs, LineNumbers
<1>2. LineFacts(f, n) /\ (Terminated(n) \/ script[n].chars # <<>>) /\ IsLine(script[n].chars)
  BY <1>1, LineIs DEF FileIs, LineNumbers, LineAt
<1>3. PICK a, e, l : a = f[n] /\ e = f[n + 1] /\ l = Len(script[n].chars)
  OBVIOUS
<1>4. /\ a \in Nat \ {0} /\ e \in Nat /\ l \in Nat /\ e = a + l + 1 /\ End \in Nat
      /\ (Terminated(n) => e <= End) /\ (~Terminated(n) => End = e - 1) /\ (~Terminated(n) => l # 0)
  <2>1. ~Terminated(n) => l # 0
    BY <1>2, <1>3 DEF IsLine
  <2> QED
    BY <1>2, <1>3, <2>1 DEF LineFacts
<1>5. a < End
  BY <1>4
<1>6. StartOf(f, n) = a
  BY <1>1, <1>3 DEF StartOf
<1>7. (Terminated(n) => StartOf(f, n + 1) = e) /\ (~Terminated(n) => StartOf(f, n + 1) = End)
  BY <1>1, <1>3, StartNext
<1>8. a < StartOf(f, n + 1)
  BY <1>4, <1>5, <1>7
<1>9. ASSUME n + 1 \in LineNumbers
      PROVE  Terminated(n) /\ StartOf(f, n + 1) = e /\ a < e
  <2>1. n + 1 \in 1..Len(script)
    BY <1>9 DEF FileIs, LineNumbers
  <2>2. n < Len(script)
    BY <1>1, <2>1
  <2>3. Terminated(n)
    BY <2>2 DEF Terminated
  <2> QED
    BY <1>4, <1>7, <2>3
<1> QED
  BY <1>1, <1>3, <1>4, <1>5, <1>6, <1>8, <1>9

LEMMA BegunAppended ==
  ASSUME NEW S, log \in Seq(S), NEW n, NEW what, log' = Append(log, <<n, what>>)
  PROVE  /\ Begun' = Begun \cup {n}
         /\ DOMAIN log' = 1..(Len(log) + 1) /\ DOMAIN log = 1..Len(log) /\ Len(log) \in Nat
         /\ \A i \in DOMAIN log : log'[i] = log[i]
         /\ log'[Len(log) + 1][1] = n /\ log'[Len(log) + 1][2] = what
<1> DEFINE entry == <<n, what>>
           T == S \cup {entry}
<1>1. /\ log' \in Seq(T) /\ Len(log') = Len(log) + 1 /\ Len(log) \in Nat
      /\ \A i \in 1..Len(log) : log'[i] = log[i]
      /\ log'[Len(log) + 1] = entry
  <2>1. log \in Seq(T) /\ entry \in T /\ log' = Append(log, entry)
    BY WiderSeq
  <2> HIDE DEF T, entry
  <2> QED
    BY <2>1, AppendProperties, LenProperties
<1>2. entry[1] = n /\ entry[2] = what
  OBVIOUS
<1> HIDE DEF T, entry
<1>3. DOMAIN log' = 1..(Len(log) + 1) /\ DOMAIN log = 1..Len(log)
  BY <1>1, LenProperties
<1>4. Begun' = {log'[i][1] : i \in 1..(Len(log) + 1)} /\ Begun = {log[i][1] : i \in 1..Len(log)}
  BY <1>3 DEF Begun
<1>5. 1..(Len(log) + 1) = 1..Len(log) \cup {Len(log) + 1}
  BY <1>1
<1>6. Begun' = Begun \cup {n}
  BY <1>1, <1>2, <1>4, <1>5
<1> QED
  BY <1>1, <1>2, <1>3, <1>6

LEMMA OrderKept ==
  ASSUME NEW f, FileIs(f), OrderOK(f), NEW n \in LineNumbers, f[n] = Here(f),
         NEW q, NEW what, CallRight(f, n, q, what),
         Begun' = Begun \cup {n}, Here(f)' = q, LineNumbers' = LineNumbers, script' = script
  PROVE  OrderOK(f)'
<1>1. PICK h : h = f[n]
  OBVIOUS
<1>2. /\ \A m \in Begun : m \in LineNumbers /\ f[m] < h
      /\ \A m \in LineNumbers : Due(m) => m \in Begun \/ h = f[m]
      /\ \A m \in Begun :
           script[m].class = "greedy" /\ m + 1 \in LineNumbers =>
             /\ m + 1 \notin Begun /\ f[m + 1] < h
             /\ m + 2 \in LineNumbers => m + 2 \in Begun \/ h = f[m + 2]
  BY <1>1 DEF OrderOK
<1>3. \A m \in LineNumbers : f[m] \in Nat /\ m \in 1..Len(script) /\ Len(script) \in Nat
  BY NumberedLine
<1>4. ASSUME NEW m \in LineNumbers, f[m] = h
      PROVE  m = n
  <2>1. m \in 1..(Len(script) + 1) /\ n \in 1..(Len(script) + 1) /\ m \in Nat /\ n \in Nat
    BY <1>3
  <2>2. ~(m < n) /\ ~(n < m)
    BY <1>1, <1>3, <1>4, <2>1 DEF FileIs
  <2> QED
    BY <2>1, <2>2
<1>5. q > h /\ q \in Nat /\ h \in Nat
  BY <1>1, <1>3 DEF CallRight
<1>6. \A m \in Begun' : m \in LineNumbers' /\ f[m] < q
  BY <1>1, <1>2, <1>3, <1>5
<1>7. ASSUME NEW m \in LineNumbers, Due(m)'
      PROVE  m \in Begun' \/ q = f[m]
  <2>1. CASE Due(m)
    BY <1>2, <1>4, <2>1
  <2>2. CASE ~Due(m)
    <3>1. m - 1 = n /\ script[n].class \in {"good", "blank", "bad"}
      BY <1>7, <2>2 DEF Due
    <3>2. n + 1 = m
      BY <1>3, <3>1
    <3>3. Terminated(n) /\ StartOf(f, n + 1) = f[m]
      BY <3>2, NumberedLine
    <3>4. q = StartOf(f, n + 1)
      BY <3>1, <3>3 DEF CallRight
    <3> QED
      BY <3>3, <3>4
  <2> QED
    BY <2>1, <2>2
<1>8. ASSUME NEW m \in Begun', script[m].class = "greedy", m + 1 \in LineNumbers
      PROVE  /\ m + 1 \notin Begun' /\ f[m + 1] < q
             /\ m + 2 \in LineNumbers => m + 2 \in Begun' \/ q = f[m + 2]
  <2>1. CASE m \in Begun
    <3>1. /\ m + 1 \notin Begun /\ f[m + 1] < h
          /\ m + 2 \in LineNumbers => m + 2 \in Begun \/ h = f[m + 2]
      BY <1>2, <1>8, <2>1
    <3>2. f[m + 1] \in Nat
      BY <1>3, <1>8
    <3>3. m + 1 # n
      BY <1>1, <1>5, <3>1
    <3>4. m + 2 \in LineNumbers /\ h = f[m + 2] => m + 2 = n
      BY <1>4
    <3> QED
      BY <1>5, <3>1, <3>2, <3>3, <3>4
  <2>2. CASE m = n
    <3>1. n \in Nat /\ n + 1 + 1 = n + 2
      BY <1>3
    <3>2. Terminated(n) /\ f[n] < f[n + 1] /\ f[n + 1] \in Nat
      BY <1>3, <1>8, <2>2, NumberedLine
    <3>3. q = StartOf(f, n + 2)
      BY <1>8, <2>2, <3>2 DEF CallRight
    <3>4. n + 1 \notin Begun'
      <4>1. n + 1 # n
        BY <3>1
      <4>2. n + 1 \notin Begun
        BY <1>1, <1>2, <1>5, <3>2
      <4> QED
        BY <4>1, <4>2
    <3>5. PICK k : k = n + 1
      OBVIOUS
    <3>6. k \in LineNumbers /\ k + 1 = n + 2
      BY <1>8, <2>2, <3>1, <3>5
    <3>7. f[k] < StartOf(f, k + 1) /\ (k + 1 \in LineNumbers => StartOf(f, k + 1) = f[k + 1])
      BY <3>6, NumberedLine
    <3> QED
      BY <2>2, <3>3, <3>4, <3>5, <3>6, <3>7
  <2> QED
    BY <2>1, <2>2
<1>9. \A m \in LineNumbers' : Due(m)' => m \in Begun' \/ q = f[m]
  BY <1>7
<1>10. \A m \in Begun' :
         script'[m].class = "greedy" /\ m + 1 \in LineNumbers' =>
           /\ m + 1 \notin Begun' /\ f[m + 1] < q
           /\ m + 2 \in LineNumbers' => m + 2 \in Begun' \/ q = f[m + 2]
  BY <1>8
<1> QED
  BY <1>6, <1>9, <1>10 DEF OrderOK

LEMMA CallDone ==
  ASSUME ParserInv, ParserInv', NEW f, LinesInv(f), NEW n \in LineNumbers, f[n] = Here(f),
         NEW q, NEW what, CallRight(f, n, q, what),
         pos' = q, pc' = "next", log' = Append(log, <<n, what>>),
         script' = script, complete' = complete, text' = text
  PROVE  LinesInv(f)'
<1>1. FileIs(f) /\ OrderOK(f) /\ LogOK
  BY DEF LinesInv
<1>2. /\ FileIs(f)' /\ LineNumbers' = LineNumbers /\ End' = End
      /\ \A k : StartOf(f, k)' = StartOf(f, k)
      /\ \A m, w : EntryOK(m, w)' <=> EntryOK(m, w)
  BY <1>1, SameFile
<1>3. PICK S : log \in Seq(S)
  BY DEF ParserInv, CallsOK
<1>4. /\ Begun' = Begun \cup {n}
      /\ DOMAIN log' = 1..(Len(log) + 1) /\ DOMAIN log = 1..Len(log) /\ Len(log) \in Nat
      /\ \A i \in DOMAIN log : log'[i] = log[i]
      /\ log'[Len(log) + 1][1] = n /\ log'[Len(log) + 1][2] = what
  BY <1>3, BegunAppended
<1>5. Here(f)' = q
  BY DEF Here
<1>6. OrderOK(f)'
  BY <1>1, <1>2, <1>4, <1>5, OrderKept
<1>7. LogOK'
  <2>1. \A i \in DOMAIN log' : EntryOK(log'[i][1], log'[i][2])
    <3> TAKE i \in DOMAIN log'
    <3>1. CASE i = Len(log) + 1
      BY <1>4, <3>1 DEF CallRight
    <3>2. CASE i # Len(log) + 1
      <4>1. i \in DOMAIN log
        BY <1>4, <3>2
      <4> QED
        BY <1>1, <1>4, <4>1 DEF LogOK
    <3> QED
      BY <3>1, <3>2
  <2>2. \A i \in DOMAIN log' : (EntryOK(log[i][1], log[i][2]))'
    BY <2>1 DEF EntryOK, Terminated
  <2> QED
    BY <2>2 DEF LogOK
<1>8. ReadingOK(f)'
  <2>1. text \in Seq(Character) /\ q \in 1..End /\ LineStart(q)
    <3>1. (text \in Seq(Character) /\ pos \in 1..End)'
      BY DEF ParserInv, TextOK, TypeOK
    <3>2. (pos \in {1, End} \/ text[pos - 1] = Newline)'
      BY DEF ParserInv, AtLineStart
    <3> QED
      BY <1>2, <3>1, <3>2 DEF LineStart
  <2>2. \E k \in 1..(Len(script) + 1) : q = StartOf(f, k)
    BY <1>1, <2>1, StartAtLine
  <2>3. \E k \in 1..(Len(script') + 1) : pos' = StartOf(f, k)'
    BY <1>2, <2>2
  <2>4. (pc = "next" => \E k \in 1..(Len(script) + 1) : pos = StartOf(f, k))'
    BY <2>3
  <2>5. pc' # "done" /\ pc' \notin {"open", "list"} /\ pc' # "open" /\ pc' # "list"
    OBVIOUS
  <2> QED
    BY <2>4, <2>5 DEF ReadingOK
<1> QED
  BY <1>2, <1>6, <1>7, <1>8 DEF LinesInv

-----------------------------------------------------------------------------
(* A call of get_next under way on line n: s is the line, and t, which is  *)
(* in the file after b, follows its command.                               *)
OnLine(f, n, s, t, b, ends) ==
  /\ n = line /\ n \in LineNumbers /\ ends = Terminated(n) /\ ends \in BOOLEAN
  /\ s = script[n].chars /\ s \in Seq(Character) /\ IsOfClass(script[n])
  /\ cmd \in CommandsOf(s) /\ cmd \notin Bare /\ cmd \in DOMAIN Keyword
  /\ t = Rest(cmd, s) /\ t \in Seq(Character) /\ b \in Nat /\ OnText(b, t, ends)
  /\ f[n] = Here(f) /\ f[n] < pos /\ f[n] \in Nat
  /\ b = f[n] + Len(Keyword[cmd]) - 1 /\ b + 1 >= f[n]
  /\ f[n + 1] = b + Len(t) + 2

LEMMA CallOnLine ==
  ASSUME NEW f, LinesInv(f), pc \in {"open", "list"}
  PROVE  \E n, s, t, b, ends : OnLine(f, n, s, t, b, ends)
<1>1. FileIs(f) /\ line \in LineNumbers /\ f[line] < pos /\ cmd \notin Bare
  BY DEF LinesInv, ReadingOK
<1>2. PICK n, s : n = line /\ s = script[line].chars
  OBVIOUS
<1>3. cmd \in CommandsOf(s) /\ n \in LineNumbers
  BY <1>1, <1>2 DEF LinesInv, ReadingOK
<1>4. n \in 1..Len(script)
  BY <1>1, <1>3, NumberedLine
<1>5. LineFacts(f, n) /\ script[n] \in Lines
  BY <1>1, <1>4, LineIs DEF FileIs, LineAt
<1>6. PICK ends : ends = Terminated(n)
  OBVIOUS
<1>7. /\ f[n] \in Nat \ {0} /\ f[n] - 1 \in Nat /\ s \in Seq(Character) /\ ends \in BOOLEAN
      /\ OnText(f[n] - 1, s, ends)
  BY <1>1, <1>2, <1>4, <1>6, LineOnText
<1>8. IsOfClass(script[n])
  BY <1>5, LinesAssumption
<1>9. PICK c : c = cmd
  OBVIOUS
<1>10. c \in DOMAIN Keyword /\ Len(Keyword[c]) <= Len(s) /\ Len(Keyword[c]) \in 4..7
  BY <1>3, <1>7, <1>9, CommandFacts
<1>11. PICK a, d, t, k : a = f[n] /\ d = a - 1 /\ t = Rest(c, s) /\ k = Len(Keyword[c])
  OBVIOUS
<1>12. /\ OnText(d + k, t, ends) /\ t \in Seq(Character) /\ Len(t) = Len(s) - k
  BY <1>7, <1>10, <1>11, RestOnText
<1>13. PICK b : b = d + k
  OBVIOUS
<1>14. PICK l, m : l = Len(s) /\ m = Len(t)
  OBVIOUS
<1>15. a \in Nat \ {0} /\ k \in 4..7 /\ l \in Nat /\ m = l - k /\ d = a - 1
  BY <1>7, <1>10, <1>11, <1>12, <1>14, LenProperties
<1>16. b \in Nat /\ b = a + k - 1 /\ b + 1 >= a /\ a + l + 1 = b + m + 2
  BY <1>13, <1>15
<1>17. f[n + 1] = a + l + 1
  BY <1>2, <1>5, <1>11, <1>14 DEF LineFacts
<1>18. f[n] = Here(f)
  BY <1>2 DEF Here
<1>19. OnLine(f, n, s, t, b, ends)
  BY <1>1, <1>2, <1>3, <1>6, <1>7, <1>8, <1>9, <1>10, <1>11, <1>12, <1>13, <1>14, <1>15, <1>16,
     <1>17, <1>18 DEF OnLine
<1> QED
  BY <1>19

(* Where a call that is rejected leaves the file.                          *)
LEMMA CleanupOfCall ==
  ASSUME NEW f, FileIs(f), NEW n, NEW s, NEW t, NEW b, NEW ends, OnLine(f, n, s, t, b, ends)
  PROVE  /\ \A x \in (b + 1)..(b + Len(t) + 1) :
              cleanup(x) = StartOf(f, n + 1) /\ cleanup(cleanup(x)) = StartOf(f, n + 2)
         /\ ends => StartOf(f, n + 1) = b + Len(t) + 2 /\ cleanup(b + Len(t) + 2) = StartOf(f, n + 2)
<1>1. /\ n \in LineNumbers /\ ends = Terminated(n) /\ f[n] \in Nat /\ b \in Nat /\ b + 1 >= f[n]
      /\ f[n + 1] = b + Len(t) + 2 /\ Len(t) \in Nat
  BY LenProperties DEF OnLine
<1>2. n \in 1..Len(script) /\ Len(script) \in Nat
  BY <1>1, NumberedLine
<1>3. n + 1 \in 1..(Len(script) + 1) /\ n + 1 + 1 = n + 2
  BY <1>2
<1>4. cleanup(StartOf(f, n + 1)) = StartOf(f, n + 2)
  <2>1. PICK k : k = n + 1
    OBVIOUS
  <2>2. cleanup(StartOf(f, k)) = StartOf(f, k + 1)
    BY <1>3, <2>1, CleanupAtStart
  <2> QED
    BY <1>3, <2>1, <2>2
<1>5. ASSUME NEW x \in (b + 1)..(b + Len(t) + 1)
      PROVE  cleanup(x) = StartOf(f, n + 1)
  <2>1. PICK a, l : a = f[n] /\ l = Len(t)
    OBVIOUS
  <2>2. a \in Nat /\ b \in Nat /\ l \in Nat /\ b + 1 >= a /\ x \in (b + 1)..(b + l + 1)
    BY <1>1, <2>1
  <2>3. x \in a..(b + l + 2 - 1)
    BY <2>2
  <2>4. x \in f[n]..(f[n + 1] - 1)
    BY <1>1, <2>1, <2>3
  <2> QED
    BY <1>2, <2>4, CleanupInLine
<1>6. ends => StartOf(f, n + 1) = b + Len(t) + 2
  BY <1>1, <1>2, StartNext
<1> QED
  BY <1>4, <1>5, <1>6

LEMMA RejectedCall ==
  ASSUME ParserInv, ParserInv', NEW f, LinesInv(f),
         NEW n, NEW s, NEW t, NEW b, NEW ends, OnLine(f, n, s, t, b, ends),
         NEW p \in pos..End, Reject(p),
         ends => /\ script[n].class \in {"bad", "greedy", "other"}
                 /\ script[n].class = "bad" => p = StartOf(f, n + 1)
                 /\ script[n].class = "greedy" => p = StartOf(f, n + 2),
         script' = script, complete' = complete, text' = text
  PROVE  LinesInv(f)'
<1>1. /\ n = line /\ n \in LineNumbers /\ ends = Terminated(n) /\ f[n] = Here(f) /\ f[n] < pos /\ f[n] \in Nat
      /\ s = script[n].chars /\ IsOfClass(script[n]) /\ s \in Seq(Character)
      /\ cmd \in CommandsOf(s) /\ cmd \notin Bare
  BY DEF OnLine
<1>2. pos' = p /\ pc' = "next" /\ log' = Append(log, <<n, Rejected>>)
  BY <1>1 DEF Reject, Done
<1>3. p \in Nat /\ p > f[n]
  BY <1>1, InvFacts
<1>4. EntryOK(n, Rejected)
  <2>1. CASE ends
    <3>1. script[n].class # "other" => script[n].class \in {"bad", "greedy"}
      BY <2>1
    <3>2. script[n].class # "other" => script[n].means = Rejected
      BY <1>1, <3>1 DEF IsOfClass
    <3> QED
      BY <1>1, <2>1, <3>2 DEF EntryOK, Same
  <2>2. CASE ~ends
    <3> SUFFICES ASSUME script[n].class = "good"
                 PROVE  DoneUnterminated(Rejected, script[n].means)
      BY <1>1, <2>2 DEF EntryOK
    <3>1. script[n].means.name \in CommandsOf(s)
      BY <1>1 DEF IsOfClass, Good
    <3>2. script[n].means.name = cmd
      BY <1>1, <3>1, OneOfLine
    <3> QED
      BY <1>1, <3>2 DEF DoneUnterminated, Same
  <2>3. ends \in BOOLEAN
    BY DEF OnLine
  <2> QED
    BY <2>1, <2>2, <2>3
<1>5. CallRight(f, n, p, Rejected)
  BY <1>1, <1>3, <1>4 DEF CallRight
<1> QED
  BY <1>1, <1>2, <1>5, CallDone

(* An error that shows before the newline, or with it.                     *)
LEMMA RejectedBefore ==
  ASSUME ParserInv, ParserInv', NEW f, LinesInv(f),
         NEW n, NEW s, NEW t, NEW b, NEW ends, OnLine(f, n, s, t, b, ends),
         NEW x \in pos..End, x \in (b + 1)..(b + Len(t) + 1), Reject(cleanup(x)),
         ends => script[n].class \in {"bad", "other"},
         script' = script, complete' = complete, text' = text
  PROVE  LinesInv(f)'
<1>1. cleanup(x) = StartOf(f, n + 1)
  BY CleanupOfCall DEF LinesInv
<1>2. cleanup(x) \in pos..End
  BY InvFacts, SkippedLater
<1>3. PICK p : p = cleanup(x)
  OBVIOUS
<1>4. ends => /\ script[n].class \in {"bad", "greedy", "other"}
              /\ script[n].class = "bad" => p = StartOf(f, n + 1)
              /\ script[n].class = "greedy" => p = StartOf(f, n + 2)
  BY <1>1, <1>3
<1>5. p \in pos..End /\ Reject(p)
  BY <1>2, <1>3
<1> QED
  BY <1>4, <1>5, RejectedCall

LEMMA RejectedAtNewline ==
  ASSUME ParserInv, ParserInv', NEW f, LinesInv(f),
         NEW n, NEW s, NEW t, NEW b, NEW ends, OnLine(f, n, s, t, b, ends),
         NEW p \in pos..End, Reject(p), ends => p = StartOf(f, n + 2),
         ends => script[n].class \in {"greedy", "other"},
         script' = script, complete' = complete, text' = text
  PROVE  LinesInv(f)'
<1>1. ends => /\ script[n].class \in {"bad", "greedy", "other"}
              /\ script[n].class = "bad" => p = StartOf(f, n + 1)
              /\ script[n].class = "greedy" => p = StartOf(f, n + 2)
  OBVIOUS
<1> QED
  BY <1>1, RejectedCall

(* A call that goes on.                                                    *)
LEMMA CallGoingOn ==
  ASSUME NEW f, LinesInv(f), log' = log, Here(f)' = Here(f), ReadingOK(f)',
         script' = script, complete' = complete, text' = text
  PROVE  LinesInv(f)'
<1>1. /\ FileIs(f)' /\ LineNumbers' = LineNumbers /\ \A m, w : EntryOK(m, w)' <=> EntryOK(m, w)
  BY SameFile DEF LinesInv
<1>2. Begun' = Begun
  BY DEF Begun
<1>3. \A m : Due(m)' <=> Due(m)
  BY <1>2 DEF Due
<1>4. OrderOK(f)'
  BY <1>1, <1>2, <1>3 DEF OrderOK, LinesInv
<1>5. LogOK'
  <2>1. \A i \in DOMAIN log : (EntryOK(log[i][1], log[i][2]))'
    BY DEF LinesInv, LogOK, EntryOK, Terminated
  <2> QED
    BY <2>1 DEF LogOK
<1> QED
  BY <1>1, <1>4, <1>5 DEF LinesInv

-----------------------------------------------------------------------------
(* What the class of its line says to a call.                              *)
BadRest(c, t) ==
  \/ c \in WithList /\ t # <<>> /\ t[1] # "["
  \/ c = "WRITE" /\ Len(t) > 1 /\ t[2] # "("
  \/ \E j \in Places(t) : Reaches(c, t, j) /\ FailsBefore(c, t, j)
  \/ /\ c = "WAIT"
     /\ \E n \in 0..(Len(t) - 1) :
          /\ ToSet(SubSeq(t, 1, n)) \subseteq Digits /\ t[n + 1] \notin Digits
          /\ t[n + 1] # " " \/ TooLarge(t, n)

GreedyRest(c, t) ==
  \/ c \in WithList /\ t = <<>>
  \/ c = "WRITE" /\ t = <<"[">>
  \/ \E j \in Places(t) : Reaches(c, t, j) /\ FailsAtNewline(c, t, j)
  \/ c = "WAIT" /\ TooLarge(t, Len(t))

LEMMA ClassOfCall ==
  ASSUME NEW f, NEW n, NEW s, NEW t, NEW b, NEW ends, OnLine(f, n, s, t, b, ends)
  PROVE  /\ script[n].class \in {"good", "bad", "greedy", "other"}
         /\ script[n].class = "good" =>
              /\ script[n].means.name = cmd
              /\ \/ cmd = "WAIT" /\ script[n].means.args = <<<<t>>>> /\ IsDelay(t)
                 \/ cmd \in WithList /\ IsList(cmd, t, script[n].means.args)
         /\ script[n].class = "bad" => BadRest(cmd, t)
         /\ script[n].class = "greedy" => GreedyRest(cmd, t)
<1>1. /\ s = script[n].chars /\ s \in Seq(Character) /\ IsOfClass(script[n]) /\ cmd \in CommandsOf(s)
      /\ cmd \notin Bare /\ t = Rest(cmd, s)
  BY DEF OnLine
<1>2. s # <<>> /\ s[1] # "#"
  BY <1>1, CommandFacts
<1>3. \A c \in CommandsOf(s) : c = cmd
  BY <1>1, OneOfLine
<1>4. script[n].class \in {"good", "bad", "greedy", "other"}
  BY <1>1, <1>2 DEF IsOfClass
<1>5. ASSUME script[n].class = "good"
      PROVE  /\ script[n].means.name = cmd
             /\ \/ cmd = "WAIT" /\ script[n].means.args = <<<<t>>>> /\ IsDelay(t)
                \/ cmd \in WithList /\ IsList(cmd, t, script[n].means.args)
  <2>1. Good(s, script[n].means)
    BY <1>1, <1>5 DEF IsOfClass
  <2>2. script[n].means.name = cmd
    BY <1>3, <2>1 DEF Good
  <2>3. \/ cmd = "WAIT" /\ script[n].means.args = <<<<t>>>> /\ IsDelay(t)
        \/ IsList(cmd, t, script[n].means.args)
    BY <1>1, <2>1, <2>2 DEF Good
  <2>4. IsList(cmd, t, script[n].means.args) => cmd \in WithList
    BY DEF IsList, Reaches
  <2> QED
    BY <2>2, <2>3, <2>4
<1>6. ASSUME script[n].class = "bad"
      PROVE  BadRest(cmd, t)
  <2>1. Bad(s)
    BY <1>1, <1>6 DEF IsOfClass
  <2>2. \E c \in CommandsOf(s) :
          LET r == Rest(c, s)
          IN  \/ c \in WithList /\ r # <<>> /\ r[1] # "["
              \/ c = "WRITE" /\ Len(r) > 1 /\ r[2] # "("
              \/ \E j \in Places(r) : Reaches(c, r, j) /\ FailsBefore(c, r, j)
              \/ /\ c = "WAIT"
                 /\ \E m \in 0..(Len(r) - 1) :
                      /\ ToSet(SubSeq(r, 1, m)) \subseteq Digits /\ r[m + 1] \notin Digits
                      /\ r[m + 1] # " " \/ TooLarge(r, m)
    BY <1>1, <2>1, Zenon DEF Bad
  <2>3. \E c \in CommandsOf(s) : BadRest(c, Rest(c, s))
    BY <2>2, Zenon DEF BadRest
  <2> QED
    BY <1>1, <1>3, <2>3, Zenon
<1>7. ASSUME script[n].class = "greedy"
      PROVE  GreedyRest(cmd, t)
  <2>1. Greedy(s)
    BY <1>1, <1>7 DEF IsOfClass
  <2>2. \E c \in CommandsOf(s) :
          LET r == Rest(c, s)
          IN  \/ c \in WithList /\ r = <<>>
              \/ c = "WRITE" /\ r = <<"[">>
              \/ \E j \in Places(r) : Reaches(c, r, j) /\ FailsAtNewline(c, r, j)
              \/ c = "WAIT" /\ TooLarge(r, Len(r))
    BY <1>1, <2>1, Zenon DEF Greedy
  <2>3. \E c \in CommandsOf(s) : GreedyRest(c, Rest(c, s))
    BY <2>2, Zenon DEF GreedyRest
  <2> QED
    BY <1>1, <1>3, <2>3, Zenon
<1> QED
  BY <1>4, <1>5, <1>6, <1>7

(* A list that has come to a place where it does not go on.                *)
LEMMA ClassOfList ==
  ASSUME NEW f, NEW n, NEW s, NEW t, NEW b, NEW ends, OnLine(f, n, s, t, b, ends),
         NEW j \in Places(t), Reaches(cmd, t, j), ~GoesOn(cmd, t, j)
  PROVE  /\ script[n].class \in {"good", "bad", "greedy", "other"}
         /\ script[n].class = "good" =>
              /\ Completes(cmd, t, j) /\ script[n].means.name = cmd
              /\ IsList(cmd, t, script[n].means.args)
         /\ script[n].class = "bad" => FailsBefore(cmd, t, j)
         /\ script[n].class = "greedy" => FailsAtNewline(cmd, t, j)
<1>1. cmd \in WithList /\ Opens(cmd, t) /\ t \in Seq(Character)
  BY DEF Reaches, OnLine
<1>2. cmd # "WAIT"
  BY <1>1 DEF WithList
<1>3. t # <<>> /\ t[1] = "[" /\ (cmd = "WRITE" => Len(t) > 1 /\ t[2] = "(")
  BY <1>1 DEF Opens
<1>4. ASSUME NEW i \in Places(t), Reaches(cmd, t, i),
             Completes(cmd, t, i) \/ FailsBefore(cmd, t, i) \/ FailsAtNewline(cmd, t, i)
      PROVE  i = j
  <2>1. ~GoesOn(cmd, t, i)
    BY <1>1, <1>4, FaultsEnd
  <2> QED
    BY <1>1, <1>4, <2>1, FirstFault
<1>5. ASSUME script[n].class = "good"
      PROVE  /\ Completes(cmd, t, j) /\ script[n].means.name = cmd
             /\ IsList(cmd, t, script[n].means.args)
  <2>1. script[n].means.name = cmd /\ IsList(cmd, t, script[n].means.args)
    BY <1>2, <1>5, ClassOfCall
  <2>2. PICK i \in Places(t) : Reaches(cmd, t, i) /\ Completes(cmd, t, i)
    BY <2>1 DEF IsList
  <2> QED
    BY <1>4, <2>1, <2>2
<1>6. ASSUME script[n].class = "bad"
      PROVE  FailsBefore(cmd, t, j)
  <2>1. BadRest(cmd, t)
    BY <1>6, ClassOfCall
  <2>2. \E i \in Places(t) : Reaches(cmd, t, i) /\ FailsBefore(cmd, t, i)
    BY <1>2, <1>3, <2>1 DEF BadRest
  <2> QED
    BY <1>4, <2>2
<1>7. ASSUME script[n].class = "greedy"
      PROVE  FailsAtNewline(cmd, t, j)
  <2>1. GreedyRest(cmd, t)
    BY <1>7, ClassOfCall
  <2>2. t # <<"[">> \/ cmd # "WRITE"
    <3>1. Len(<<"[">>) = 1 /\ ~(1 > 1)
      OBVIOUS
    <3> QED
      BY <1>3, <3>1
  <2>3. \E i \in Places(t) : Reaches(cmd, t, i) /\ FailsAtNewline(cmd, t, i)
    BY <1>2, <1>3, <2>1, <2>2 DEF GreedyRest
  <2> QED
    BY <1>4, <2>3
<1> QED
  BY <1>5, <1>6, <1>7, ClassOfCall

-----------------------------------------------------------------------------
(* A call of get_next that begins, on line n.                              *)
Begins(f, n, s, b, ends) ==
  /\ n \in LineNumbers /\ n \in 1..Len(script) /\ ends = Terminated(n) /\ ends \in BOOLEAN
  /\ s = script[n].chars /\ s \in Seq(Character) /\ IsOfClass(script[n])
  /\ pos = f[n] /\ f[n] = Here(f) /\ LineOf(pos) = n /\ f[n] \in Nat \ {0}
  /\ b \in Nat /\ pos = b + 1 /\ OnText(b, s, ends)
  /\ f[n + 1] = b + Len(s) + 2 /\ (ends => StartOf(f, n + 1) = b + Len(s) + 2)
  /\ CommandAt(pos) = CommandsOf(s)

LEMMA CallBegins ==
  ASSUME NEW f, LinesInv(f), pc = "next", ~AtEnd(pos)
  PROVE  \E n, s, b, ends : Begins(f, n, s, b, ends)
<1>1. FileIs(f) /\ Len(script) \in Nat /\ text \in Seq(Character)
  BY DEF LinesInv, FileIs
<1>2. PICK k \in 1..(Len(script) + 1) : pos = StartOf(f, k)
  BY DEF LinesInv, ReadingOK
<1>3. End \in Nat
  BY <1>1, LenProperties DEF End
<1>4. pos # End
  BY <1>3 DEF AtEnd
<1>5. k \in 1..Len(script) /\ pos = f[k]
  BY <1>2, <1>4 DEF StartOf
<1>6. PICK s, ends : s = script[k].chars /\ ends = Terminated(k)
  OBVIOUS
<1>7. /\ f[k] \in Nat \ {0} /\ f[k] - 1 \in Nat /\ s \in Seq(Character) /\ ends \in BOOLEAN
      /\ OnText(f[k] - 1, s, ends)
  BY <1>1, <1>5, <1>6, LineOnText
<1>8. PICK a, b, l : a = f[k] /\ b = a - 1 /\ l = Len(s)
  OBVIOUS
<1>9. LineFacts(f, k) /\ LineAt(f, k)
  BY <1>1, <1>5, LineIs DEF FileIs
<1>10. a \in Nat \ {0} /\ l \in Nat /\ b \in Nat /\ a = b + 1 /\ f[k + 1] = a + l + 1
       /\ (~ends => End = f[k + 1] - 1)
  BY <1>6, <1>7, <1>8, <1>9 DEF LineFacts
<1>11. LineOf(pos) = k
  <2>1. a \in a..(a + l + 1 - 1)
    BY <1>10
  <2> QED
    BY <1>5, <1>8, <1>9, <1>10, <2>1 DEF LineAt
<1>12. k \in LineNumbers
  <2> SUFFICES ASSUME ~ends, s = <<>>
               PROVE  FALSE
    BY <1>5, <1>6 DEF FileIs, LineNumbers, LinesInv
  <2>1. l = 0
    BY <1>8
  <2> QED
    BY <1>4, <1>5, <1>8, <1>10, <2>1
<1>13. IsOfClass(script[k])
  BY <1>9, LinesAssumption DEF LineAt
<1>14. f[k + 1] = b + l + 2
  BY <1>10
<1>15. ends => StartOf(f, k + 1) = b + l + 2
  BY <1>1, <1>5, <1>6, <1>14, StartNext
<1>16. CommandAt(b + 1) = CommandsOf(s)
  BY <1>7, <1>8, <1>10, CommandsOnText
<1>17. f[k] = Here(f)
  BY <1>5 DEF Here
<1>18. Begins(f, k, s, b, ends)
  BY <1>5, <1>6, <1>7, <1>8, <1>10, <1>11, <1>12, <1>13, <1>14, <1>15, <1>16, <1>17 DEF Begins
<1> QED
  BY <1>18

(* What the class of a line says when its command is all of it.            *)
LEMMA BareLine ==
  ASSUME NEW n, NEW s \in Seq(Character), s = script[n].chars, IsOfClass(script[n]),
         NEW c \in CommandsOf(s), c \in Bare
  PROVE  /\ script[n].class \in {"good", "other"}
         /\ script[n].class = "good" => script[n].means.name = c /\ script[n].means.args = <<>>
<1>1. s # <<>> /\ s[1] # "#"
  BY CommandFacts
<1>2. \A d \in CommandsOf(s) : d = c
  BY OneOfLine
<1>3. c \notin WithList /\ c # "WRITE" /\ c # "WAIT"
  BY DEF Bare, WithList
<1>4. CommandsOf(s) # {}
  OBVIOUS
<1>5. ~Bad(s)
  BY <1>2, <1>3, <1>4, Zenon DEF Bad, Reaches
<1>6. ~Greedy(s)
  BY <1>2, <1>3, <1>4, Zenon DEF Greedy, Reaches
<1>7. script[n].class \in {"good", "other"}
  BY <1>1, <1>5, <1>6 DEF IsOfClass
<1>8. ASSUME script[n].class = "good"
      PROVE  script[n].means.name = c /\ script[n].means.args = <<>>
  <2>1. Good(s, script[n].means)
    BY <1>8 DEF IsOfClass
  <2>2. script[n].means.name = c
    BY <1>2, <2>1 DEF Good
  <2>3. script[n].means.args = <<>>
    BY <1>3, <2>1, <2>2 DEF Good, IsList, Reaches
  <2> QED
    BY <2>2, <2>3
<1> QED
  BY <1>7, <1>8

LEMMA EndOfCommandsLines ==
  ASSUME ParserInv, ParserInv', NEW f, LinesInv(f), EndOfCommands,
         script' = script, complete' = complete, text' = text
  PROVE  LinesInv(f)'
<1>1. pc = "next" /\ AtEnd(pos) /\ pc' = "done" /\ pos' = pos /\ log' = log /\ line' = line
  BY DEF EndOfCommands
<1>2. pos = End /\ End' = End
  BY <1>1, InvFacts DEF AtEnd, End
<1>3. Here(f)' = Here(f)
  BY <1>1 DEF Here
<1>4. ReadingOK(f)'
  BY <1>1, <1>2 DEF ReadingOK
<1> QED
  BY <1>1, <1>3, <1>4, CallGoingOn

LEMMA NextCommandLines ==
  ASSUME ParserInv, ParserInv', NEW f, LinesInv(f), NextCommand,
         script' = script, complete' = complete, text' = text
  PROVE  LinesInv(f)'
<1>1. PICK c \in CommandAt(pos) :
        /\ line' = LineOf(pos) /\ cmd' = c /\ args' = <<>>
        /\ c \in Bare => /\ log' = Append(log, <<LineOf(pos), Command(c, <<>>)>>)
                         /\ pos' = Passed(pos, Len(Keyword[c]) + 1)
                         /\ pc' = pc
        /\ c \notin Bare => /\ pos' = pos + Len(Keyword[c])
                            /\ pc' = "open"
                            /\ log' = log
  BY DEF NextCommand
<1>2. pc = "next"
  BY DEF NextCommand
<1>3. text \in Seq(Character) /\ Len(text) \in Nat /\ End = Len(text) + 1 /\ pos \in 1..End
  BY InvFacts
<1>4. PICK k : k = Len(Keyword[c])
  OBVIOUS
<1>5. c \in DOMAIN Keyword /\ k \in 1..7
  BY <1>4, KeywordLengths DEF CommandAt
<1>6. ~AtEnd(pos)
  <2>1. pos + k <= End
    BY <1>4 DEF CommandAt, Matches
  <2> QED
    BY <1>3, <1>5, <2>1 DEF AtEnd
<1>7. PICK n, s, b, ends : Begins(f, n, s, b, ends)
  BY <1>2, <1>6, CallBegins
<1>8. /\ n \in LineNumbers /\ ends = Terminated(n) /\ ends \in BOOLEAN
      /\ s = script[n].chars /\ s \in Seq(Character) /\ IsOfClass(script[n])
      /\ pos = f[n] /\ f[n] = Here(f) /\ LineOf(pos) = n
      /\ b \in Nat /\ pos = b + 1 /\ (ends => StartOf(f, n + 1) = b + Len(s) + 2)
      /\ c \in CommandsOf(s)
  BY <1>7 DEF Begins
<1>9. FileIs(f) /\ End' = End /\ LineNumbers' = LineNumbers
  <2>1. FileIs(f)
    BY DEF LinesInv
  <2> QED
    BY <2>1, SameFile
<1>10. CASE c \in Bare
  <2>1. s = Keyword[c] /\ Len(s) = k
    BY <1>4, <1>8, <1>10, CommandFacts
  <2>2. PICK what, q : what = Command(c, <<>>) /\ q = Passed(pos, k + 1)
    OBVIOUS
  <2>3. /\ script[n].class \in {"good", "other"}
        /\ script[n].class = "good" => script[n].means.name = c /\ script[n].means.args = <<>>
    BY <1>8, <1>10, BareLine
  <2>4. what.name = c /\ what.args = <<>>
    BY <2>2 DEF Command
  <2>5. EntryOK(n, what)
    <3>1. script[n].class = "good" => Same(what, script[n].means)
      BY <2>3, <2>4 DEF Same
    <3>2. script[n].class = "good" => DoneUnterminated(what, script[n].means)
      BY <1>10, <2>3, <3>1 DEF DoneUnterminated
    <3> QED
      BY <2>3, <3>1, <3>2 DEF EntryOK
  <2>6. k + 1 \in Nat
    BY <1>5
  <2>7. q = IF pos + (k + 1) <= End THEN pos + (k + 1) ELSE End
    BY <1>3, <2>2, <2>6, PassedIs
  <2>8. q \in Nat /\ q > pos
    <3>1. pos < End
      BY <1>3, <1>6 DEF AtEnd
    <3> QED
      BY <1>3, <1>5, <2>7, <3>1
  <2>9. ends => q = b + Len(s) + 2
    <3> SUFFICES ASSUME ends
                 PROVE  q = b + Len(s) + 2
      OBVIOUS
    <3>1. b + Len(s) + 1 < End
      BY <1>7 DEF Begins, OnText
    <3> QED
      BY <1>3, <1>5, <1>8, <2>1, <2>7, <3>1
  <2>10. CallRight(f, n, q, what)
    BY <1>8, <2>3, <2>5, <2>8, <2>9 DEF CallRight
  <2>11. pos' = q /\ pc' = "next" /\ log' = Append(log, <<n, what>>)
    BY <1>1, <1>2, <1>4, <1>8, <1>10, <2>2
  <2> QED
    BY <1>8, <2>10, <2>11, CallDone
<1>11. CASE c \notin Bare
  <2>1. line' = n /\ cmd' = c /\ pos' = pos + k /\ pc' = "open" /\ log' = log
    BY <1>1, <1>4, <1>8, <1>11
  <2>2. Here(f)' = Here(f)
    BY <1>8, <2>1 DEF Here
  <2>3. f[n] < pos'
    BY <1>3, <1>5, <1>8, <2>1
  <2>4. ReadingOK(f)'
    <3>1. (/\ line \in LineNumbers /\ f[line] < pos
           /\ cmd \in CommandsOf(script[line].chars) /\ cmd \notin Bare)'
      BY <1>8, <1>9, <1>11, <2>1, <2>3
    <3>2. (pos = f[line] + Len(Keyword[cmd]))'
      BY <1>4, <1>8, <2>1
    <3>3. pc' # "next" /\ pc' # "done" /\ pc' # "list"
      BY <2>1
    <3> QED
      BY <3>1, <3>2, <3>3 DEF ReadingOK
  <2> QED
    BY <2>1, <2>2, <2>4, CallGoingOn
<1> QED
  BY <1>10, <1>11

LEMMA NoCommandLines ==
  ASSUME ParserInv, ParserInv', NEW f, LinesInv(f), NoCommand,
         script' = script, complete' = complete, text' = text
  PROVE  LinesInv(f)'
<1>1. /\ pc = "next" /\ ~AtEnd(pos) /\ CommandAt(pos) = {} /\ pc' = "next"
      /\ log' = Append(log, <<LineOf(pos), IF text[pos] \in {"#", Newline} THEN Skipped ELSE Rejected>>)
      /\ pos' = IF text[pos] = Newline THEN pos + 1 ELSE cleanup(Passed(pos, ReadSize(text[pos])))
  BY DEF NoCommand
<1>2. text \in Seq(Character) /\ Len(text) \in Nat /\ End = Len(text) + 1 /\ pos \in 1..End
  BY InvFacts
<1>3. PICK n, s, b, ends : Begins(f, n, s, b, ends)
  BY <1>1, CallBegins
<1>4. /\ n \in LineNumbers /\ n \in 1..Len(script) /\ ends = Terminated(n) /\ ends \in BOOLEAN
      /\ s = script[n].chars /\ s \in Seq(Character) /\ IsOfClass(script[n])
      /\ pos = f[n] /\ f[n] = Here(f) /\ LineOf(pos) = n /\ f[n] \in Nat
      /\ b \in Nat /\ pos = b + 1 /\ (ends => StartOf(f, n + 1) = b + Len(s) + 2)
      /\ CommandsOf(s) = {} /\ f[n + 1] = b + Len(s) + 2
  BY <1>1, <1>3 DEF Begins
<1>5. /\ ends \in BOOLEAN /\ Len(s) \in Nat /\ \A i \in 1..Len(s) : text[b + i] = s[i] /\ s[i] # Newline
      /\ ends => b + Len(s) + 1 < End /\ text[b + Len(s) + 1] = Newline
      /\ ~ends => End = b + Len(s) + 1
      /\ b + Len(s) + 1 <= End
  BY <1>3 DEF Begins, OnText
<1>6. FileIs(f) /\ Len(script) \in Nat
  BY DEF LinesInv, FileIs
<1>7. script[n].class \in {"blank", "bad", "greedy", "other"}
  <2>1. script[n].class # "good"
    BY <1>4 DEF IsOfClass, Good
  <2> QED
    BY <1>4, <2>1 DEF IsOfClass
<1>8. PICK what, q : /\ what = (IF text[pos] \in {"#", Newline} THEN Skipped ELSE Rejected)
                     /\ q = IF text[pos] = Newline THEN pos + 1 ELSE cleanup(Passed(pos, ReadSize(text[pos])))
  OBVIOUS
<1>9. q \in Nat /\ q > f[n]
  <2>1. LeftFor(pos, cleanup(Passed(pos, ReadSize(text[pos]))))
    <3>1. PICK x : x = Passed(pos, ReadSize(text[pos]))
      OBVIOUS
    <3>2. x \in pos..End
      BY <1>2, <3>1, ReadSizeIs, PassedIs
    <3> QED
      BY <1>2, <3>1, <3>2, SkippedLater
  <2>2. pos < End
    BY <1>1, <1>2 DEF AtEnd
  <2>3. CASE text[pos] = Newline
    BY <1>2, <1>4, <1>8, <2>3
  <2>4. CASE text[pos] # Newline
    BY <1>2, <1>4, <1>8, <2>1, <2>2, <2>4 DEF LeftFor
  <2> QED
    BY <2>3, <2>4
<1>10. ASSUME ~ends
       PROVE  CallRight(f, n, q, what)
  <2>1. EntryOK(n, what)
    BY <1>4, <1>7, <1>10 DEF EntryOK
  <2> QED
    BY <1>4, <1>9, <1>10, <2>1 DEF CallRight
<1>11. ASSUME ends, s = <<>>
       PROVE  CallRight(f, n, q, what)
  <2>1. Len(s) = 0
    BY <1>11
  <2>2. text[pos] = Newline
    BY <1>4, <1>5, <1>11, <2>1
  <2>3. what = Skipped /\ q = StartOf(f, n + 1)
    BY <1>4, <1>8, <1>11, <2>1, <2>2
  <2>4. script[n].class \in {"blank", "other"}
    <3>1. ~Bad(s) /\ ~Greedy(s)
      BY <1>4, <1>11 DEF Bad, Greedy
    <3> QED
      BY <1>4, <1>7, <3>1 DEF IsOfClass
  <2>5. script[n].class = "blank" => script[n].means = Skipped
    BY <1>4 DEF IsOfClass
  <2>6. EntryOK(n, what)
    BY <1>4, <1>11, <2>3, <2>4, <2>5 DEF EntryOK, Same
  <2> QED
    BY <1>9, <2>3, <2>4, <2>6 DEF CallRight
<1>12. ASSUME ends, s # <<>>
       PROVE  CallRight(f, n, q, what)
  <2>1. Len(s) # 0
    BY <1>4, <1>12
  <2>2. 1 \in 1..Len(s)
    BY <1>5, <2>1
  <2>3. text[pos] = s[1] /\ s[1] # Newline
    BY <1>4, <1>5, <2>2
  <2>4. PICK r, x, l : r = ReadSize(s[1]) /\ x = Passed(pos, r) /\ l = Len(s)
    OBVIOUS
  <2>5. r \in Nat /\ l \in Nat /\ l # 0 /\ q = cleanup(x)
    BY <1>5, <1>8, <2>1, <2>3, <2>4, ReadSizeIs
  <2>6. x = IF pos + r <= End THEN pos + r ELSE End
    BY <1>2, <2>4, <2>5, PassedIs
  <2>7. b + l + 1 < End
    BY <1>5, <1>12, <2>4
  <2>8. ASSUME r <= l
        PROVE  q = StartOf(f, n + 1)
    <3>1. x = b + 1 + r
      BY <1>2, <1>4, <2>5, <2>6, <2>7, <2>8
    <3>2. x \in f[n]..(f[n + 1] - 1)
      <4>1. PICK a, e : a = f[n] /\ e = f[n + 1]
        OBVIOUS
      <4>2. a = b + 1 /\ e = b + l + 2
        BY <1>4, <2>4, <4>1
      <4>3. x \in a..(e - 1)
        BY <1>4, <2>5, <2>8, <3>1, <4>2
      <4> QED
        BY <4>1, <4>3
    <3> QED
      BY <1>4, <1>6, <2>5, <3>2, CleanupInLine
  <2>9. ASSUME r = l + 1
        PROVE  q = StartOf(f, n + 2)
    <3>1. x = b + l + 2
      BY <1>2, <1>4, <2>5, <2>6, <2>7, <2>9
    <3>2. PICK k : k = n + 1
      OBVIOUS
    <3>3. k \in 1..(Len(script) + 1) /\ k + 1 = n + 2
      BY <1>4, <1>6, <3>2
    <3>4. cleanup(StartOf(f, k)) = StartOf(f, k + 1)
      BY <1>6, <3>3, CleanupAtStart
    <3>5. StartOf(f, k) = x
      BY <1>4, <1>12, <2>4, <3>1, <3>2
    <3> QED
      BY <2>5, <3>3, <3>4, <3>5
  <2>10. CASE s[1] = "#"
    <3>1. what = Skipped
      BY <1>8, <2>3, <2>10
    <3>2. r = 1
      BY <2>4, <2>10, ReadSizeOfComment
    <3>3. q = StartOf(f, n + 1)
      BY <2>5, <2>8, <3>2
    <3>4. script[n].class \in {"blank", "other"}
      <4>1. ~Bad(s) /\ ~Greedy(s)
        BY <1>4, <2>10 DEF Bad, Greedy
      <4> QED
        BY <1>4, <1>7, <4>1 DEF IsOfClass
    <3>5. script[n].class = "blank" => script[n].means = Skipped
      BY <1>4 DEF IsOfClass
    <3>6. EntryOK(n, what)
      BY <1>4, <1>12, <3>1, <3>4, <3>5 DEF EntryOK, Same
    <3> QED
      BY <1>9, <3>3, <3>4, <3>6 DEF CallRight
  <2>11. CASE s[1] # "#"
    <3>1. what = Rejected
      BY <1>8, <2>3, <2>11
    <3>2. script[n].class \in {"bad", "greedy", "other"}
      BY <1>4, <1>7, <1>12, <2>11 DEF IsOfClass
    <3>3. script[n].class \in {"bad", "greedy"} => script[n].means = Rejected
      BY <1>4 DEF IsOfClass
    <3>4. EntryOK(n, what)
      BY <1>4, <1>12, <3>1, <3>2, <3>3 DEF EntryOK, Same
    <3>5. script[n].class = "bad" => r <= l
      BY <1>4, <2>4 DEF IsOfClass, Bad
    <3>6. script[n].class = "greedy" => r = l + 1
      BY <1>4, <2>4 DEF IsOfClass, Greedy
    <3> QED
      BY <1>9, <2>8, <2>9, <3>2, <3>4, <3>5, <3>6 DEF CallRight
  <2> QED
    BY <2>10, <2>11
<1>13. CallRight(f, n, q, what)
  BY <1>4, <1>10, <1>11, <1>12
<1>14. pos' = q /\ log' = Append(log, <<n, what>>)
  BY <1>1, <1>4, <1>8
<1> QED
  BY <1>1, <1>4, <1>13, <1>14, CallDone

-----------------------------------------------------------------------------
(* Lists: how they open.                                                   *)
LEMMA ListContinues ==
  ASSUME NEW f, LinesInv(f), pc \in {"open", "list"},
         NEW n, NEW s, NEW t, NEW b, NEW ends, OnLine(f, n, s, t, b, ends),
         pc' = "list", cmd' = cmd, line' = line, log' = log, f[n] < pos',
         Known(n) => \E j \in Places(t) : ListAt(f, j)',
         script' = script, complete' = complete, text' = text
  PROVE  LinesInv(f)'
<1>1. /\ n = line /\ n \in LineNumbers /\ s = script[n].chars /\ cmd \in CommandsOf(s) /\ cmd \notin Bare
      /\ t = Rest(cmd, s)
  BY DEF OnLine
<1>2. LineNumbers' = LineNumbers /\ \A m : Known(m)' <=> Known(m)
  BY SameFile DEF LinesInv
<1>3. Here(f)' = Here(f)
  BY DEF Here
<1>4. (/\ line \in LineNumbers /\ f[line] < pos
       /\ cmd \in CommandsOf(script[line].chars) /\ cmd \notin Bare)'
  BY <1>1, <1>2
<1>5. (Known(line) => \E j \in Places(Rest(cmd, script[line].chars)) : ListAt(f, j))'
  BY <1>1, <1>2
<1>6. ReadingOK(f)'
  BY <1>4, <1>5 DEF ReadingOK
<1> QED
  BY <1>3, <1>6, CallGoingOn

LEMMA ListStarts ==
  ASSUME NEW c \in WithList, NEW t \in Seq(Character), Opens(c, t)
  PROVE  \E j \in Places(t) :
           /\ Reaches(c, t, j) /\ ItemsBefore(c, t, j) = 0
           /\ StringAt(c, t, j) = (IF c = "WRITE" THEN 3 ELSE 2) /\ StringAt(c, t, j) <= j
           /\ c = "WRITE" => t[Previous(t, j)] # ","
<1>1. Len(t) \in Nat /\ Places(t) \subseteq 1..(Len(t) + 1) /\ Places(t) = Stops(t) \cup {Len(t) + 1}
  BY StopsAre DEF Places
<1>2. t # <<>> /\ t[1] = "[" /\ (c = "WRITE" => Len(t) > 1 /\ t[2] = "(")
  BY DEF Opens
<1>3. Len(t) # 0
  BY <1>2
<1>4. 0 \in 0..Len(t)
  BY <1>1
<1>5. PICK j \in Places(t) : FirstAfter(t, 0, j)
  BY <1>4, NextPlace
<1>6. Before(t, j) = {} /\ Previous(t, j) = 1 /\ ItemsBefore(c, t, j) = 0
  BY <1>5, FirstPlace
<1>7. Reaches(c, t, j)
  BY <1>6 DEF Reaches
<1>8. t[Previous(t, j)] # ","
  BY <1>2, <1>6
<1>9. StringAt(c, t, j) = IF c = "WRITE" THEN 3 ELSE 2
  <2>1. CASE c = "WRITE"
    <3>1. StringAt(c, t, j) = Previous(t, j) + 2
      BY <1>8, <2>1 DEF StringAt
    <3> QED
      BY <1>6, <2>1, <3>1
  <2>2. CASE c # "WRITE"
    <3>1. StringAt(c, t, j) = Previous(t, j) + 1
      BY <2>2 DEF StringAt
    <3> QED
      BY <1>6, <2>2, <3>1
  <2> QED
    BY <2>1, <2>2
<1>10. 1 \notin Stops(t) /\ (c = "WRITE" => 2 \notin Stops(t))
  BY <1>2 DEF Stops
<1>11. StringAt(c, t, j) <= j
  <2>1. j \in 1..(Len(t) + 1) /\ (j \in Stops(t) \/ j = Len(t) + 1)
    BY <1>1
  <2>2. CASE c = "WRITE"
    <3>1. j # 1 /\ j # 2
      BY <1>1, <1>2, <1>10, <2>1, <2>2
    <3> QED
      BY <1>9, <2>1, <2>2, <3>1
  <2>3. CASE c # "WRITE"
    <3>1. j # 1
      BY <1>1, <1>3, <1>10, <2>1
    <3> QED
      BY <1>9, <2>1, <2>3, <3>1
  <2> QED
    BY <2>2, <2>3
<1> QED
  BY <1>6, <1>7, <1>8, <1>9, <1>11

LEMMA NotOpened ==
  ASSUME NEW f, NEW n, NEW s, NEW t, NEW b, NEW ends, OnLine(f, n, s, t, b, ends),
         cmd \in WithList, ~Opens(cmd, t)
  PROVE  /\ script[n].class \in {"bad", "greedy", "other"}
         /\ script[n].class = "bad" => t # <<>> /\ (t[1] # "[" \/ (cmd = "WRITE" /\ Len(t) > 1 /\ t[2] # "("))
         /\ script[n].class = "greedy" => t = <<>> \/ (cmd = "WRITE" /\ t = <<"[">>)
<1>1. cmd # "WAIT"
  BY DEF WithList
<1>2. script[n].class # "good"
  BY <1>1, ClassOfCall DEF IsList, Reaches
<1>3. ASSUME script[n].class = "bad"
      PROVE  t # <<>> /\ (t[1] # "[" \/ (cmd = "WRITE" /\ Len(t) > 1 /\ t[2] # "("))
  <2>1. BadRest(cmd, t)
    BY <1>3, ClassOfCall
  <2>2. \/ t # <<>> /\ t[1] # "["
        \/ cmd = "WRITE" /\ Len(t) > 1 /\ t[2] # "("
    BY <1>1, <2>1 DEF BadRest, Reaches
  <2>3. Len(t) > 1 => t # <<>>
    <3>1. Len(<< >>) = 0 /\ ~(0 > 1)
      OBVIOUS
    <3> QED
      BY <3>1
  <2> QED
    BY <2>2, <2>3
<1>4. ASSUME script[n].class = "greedy"
      PROVE  t = <<>> \/ (cmd = "WRITE" /\ t = <<"[">>)
  <2>1. GreedyRest(cmd, t)
    BY <1>4, ClassOfCall
  <2> QED
    BY <1>1, <2>1 DEF GreedyRest, Reaches
<1> QED
  BY <1>2, <1>3, <1>4, ClassOfCall

LEMMA OpenListLines ==
  ASSUME ParserInv, ParserInv', NEW f, LinesInv(f), OpenList,
         script' = script, complete' = complete, text' = text
  PROVE  LinesInv(f)'
<1>1. pc = "open" /\ cmd \in WithList
  BY DEF OpenList, WithList
<1>2. text \in Seq(Character) /\ Len(text) \in Nat /\ End = Len(text) + 1 /\ pos \in 1..End
  BY InvFacts
<1>3. PICK n, s, t, b, ends : OnLine(f, n, s, t, b, ends)
  BY <1>1, CallOnLine
<1>4. PICK l : l = Len(t)
  OBVIOUS
<1>5. /\ ends \in BOOLEAN /\ b \in Nat /\ l \in Nat /\ \A i \in 1..l : text[b + i] = t[i] /\ t[i] # Newline
      /\ ends => b + l + 1 < End /\ text[b + l + 1] = Newline
      /\ ~ends => End = b + l + 1
      /\ b + l + 1 <= End
  BY <1>3, <1>4 DEF OnLine, OnText
<1>6. /\ n = line /\ f[n] \in Nat /\ f[n] < pos /\ t \in Seq(Character) /\ pos = b + 1
      /\ s = script[n].chars /\ t = Rest(cmd, s) /\ b = f[n] + Len(Keyword[cmd]) - 1
  <2>1. /\ n = line /\ f[n] \in Nat /\ f[n] < pos /\ t \in Seq(Character)
        /\ b = f[n] + Len(Keyword[cmd]) - 1
        /\ s = script[n].chars /\ t = Rest(cmd, s) /\ cmd \in DOMAIN Keyword
    BY <1>3 DEF OnLine
  <2>2. pos = f[n] + Len(Keyword[cmd])
    BY <1>1, <2>1 DEF LinesInv, ReadingOK
  <2>3. Len(Keyword[cmd]) \in 4..7
    BY <2>1, KeywordTyped
  <2>4. pos = b + 1
    BY <2>1, <2>2, <2>3
  <2> QED
    BY <2>1, <2>4
<1>7. FileIs(f)
  BY DEF LinesInv
<1>8. /\ \A x \in (b + 1)..(b + l + 1) : cleanup(x) = StartOf(f, n + 1)
      /\ ends => cleanup(b + l + 2) = StartOf(f, n + 2)
  BY <1>3, <1>4, <1>7, CleanupOfCall
<1>9. PICK second, third : second = Passed(pos, 1) /\ third = Passed(second, 1)
  OBVIOUS
<1>10. second \in pos..End /\ second = IF pos + 1 <= End THEN pos + 1 ELSE End
  BY <1>2, <1>9, PassedIs
<1>11. second \in 1..End
  BY <1>2, <1>10
<1>12. third \in pos..End /\ third = IF second + 1 <= End THEN second + 1 ELSE End
  <2>1. third \in second..End /\ third = IF second + 1 <= End THEN second + 1 ELSE End
    BY <1>2, <1>9, <1>11, PassedIs
  <2> QED
    BY <1>2, <1>10, <2>1
<1>13. l # 0 <=> t # <<>>
  BY <1>4, <1>6
<1>14. "[" # Newline /\ "(" # Newline
  BY DEF Newline
<1>15. IsChar(pos, {"["}) <=> l # 0 /\ t[1] = "["
  <2>1. CASE l = 0
    <3>1. ends => text[pos] # "["
      BY <1>5, <1>6, <1>14, <2>1
    <3>2. ~ends => AtEnd(pos)
      BY <1>2, <1>5, <1>6, <2>1 DEF AtEnd
    <3> QED
      BY <1>5, <2>1, <3>1, <3>2 DEF IsChar
  <2>2. CASE l # 0
    <3>1. 1 \in 1..l
      BY <1>5, <2>2
    <3>2. text[b + 1] = t[1]
      BY <1>5, <3>1
    <3>3. ~(pos >= End)
      BY <1>2, <1>5, <1>6, <3>1
    <3>4. 1 \in 1..l /\ text[b + 1] = t[1] /\ ~(pos >= End)
      BY <3>1, <3>2, <3>3
    <3> QED
      BY <1>6, <2>2, <3>4 DEF IsChar, AtEnd
  <2> QED
    BY <2>1, <2>2
<1>16. l # 0 => second = b + 2 /\ (IsChar(second, {"("}) <=> l > 1 /\ t[2] = "(")
  <2> SUFFICES ASSUME l # 0
               PROVE  second = b + 2 /\ (IsChar(second, {"("}) <=> l > 1 /\ t[2] = "(")
    OBVIOUS
  <2>1. second = b + 2
    BY <1>2, <1>5, <1>6, <1>10
  <2>2. CASE l = 1
    <3>1. ends => text[second] # "("
      BY <1>5, <1>14, <2>1, <2>2
    <3>2. ~ends => AtEnd(second)
      BY <1>2, <1>5, <2>1, <2>2 DEF AtEnd
    <3>3. ~(l > 1)
      BY <2>2
    <3> QED
      BY <1>5, <2>1, <3>1, <3>2, <3>3 DEF IsChar
  <2>3. CASE l # 1
    <3>1. 2 \in 1..l /\ text[b + 2] = t[2] /\ ~(second >= End) /\ l > 1
      BY <1>2, <1>5, <2>1, <2>3
    <3> QED
      BY <2>1, <3>1 DEF IsChar, AtEnd
  <2> QED
    BY <2>1, <2>2, <2>3
<1>17. CASE ~IsChar(pos, {"["})
  <2>1. Reject(cleanup(second))
    BY <1>9, <1>17 DEF OpenList
  <2>2. ~Opens(cmd, t)
    BY <1>13, <1>15, <1>17 DEF Opens
  <2>3. cleanup(second) \in pos..End
    BY <1>2, <1>10, SkippedLater
  <2>4. CASE l = 0
    <3>1. t = <<>>
      BY <1>13, <2>4
    <3>2. ends => second = b + l + 2
      BY <1>2, <1>5, <1>6, <1>10, <2>4
    <3>3. ends => cleanup(second) = StartOf(f, n + 2)
      BY <1>8, <3>2
    <3>4. script[n].class \in {"greedy", "other"}
      BY <1>1, <1>3, <2>2, <3>1, NotOpened
    <3> QED
      BY <1>3, <2>1, <2>3, <3>3, <3>4, RejectedAtNewline
  <2>5. CASE l # 0
    <3>1. t[1] # "["
      BY <1>15, <1>17, <2>5
    <3>2. second \in (b + 1)..(b + l + 1)
      BY <1>5, <1>16, <2>5
    <3>3. script[n].class \in {"bad", "other"}
      <4>1. <<"[">>[1] = "["
        OBVIOUS
      <4>2. t # <<"[">> /\ t # <<>>
        BY <1>13, <2>5, <3>1, <4>1
      <4> QED
        BY <1>1, <1>3, <2>2, <4>2, NotOpened
    <3> QED
      BY <1>3, <1>4, <1>10, <2>1, <3>2, <3>3, RejectedBefore
  <2> QED
    BY <2>4, <2>5
<1>18. CASE IsChar(pos, {"["}) /\ cmd = "WRITE" /\ ~IsChar(second, {"("})
  <2>1. Reject(cleanup(third))
    BY <1>9, <1>18 DEF OpenList
  <2>2. l # 0 /\ t[1] = "[" /\ second = b + 2 /\ ~(l > 1 /\ t[2] = "(")
    BY <1>15, <1>16, <1>18
  <2>3. ~Opens(cmd, t)
    BY <1>4, <1>18, <2>2 DEF Opens
  <2>4. cleanup(third) \in pos..End
    BY <1>2, <1>12, SkippedLater
  <2>5. CASE l = 1
    <3>1. ends => third = b + l + 2
      BY <1>2, <1>5, <1>12, <2>2, <2>5
    <3>2. ends => cleanup(third) = StartOf(f, n + 2)
      BY <1>8, <3>1
    <3>3. ~(Len(t) > 1)
      BY <1>4, <2>5
    <3>4. script[n].class \in {"greedy", "other"}
      BY <1>1, <1>3, <2>2, <2>3, <3>3, NotOpened
    <3> QED
      BY <1>3, <2>1, <2>4, <3>2, <3>4, RejectedAtNewline
  <2>6. CASE l # 1
    <3>1. l > 1 /\ third \in (b + 1)..(b + l + 1)
      BY <1>2, <1>5, <1>12, <2>2, <2>6
    <3>2. t # <<"[">> /\ t # <<>>
      <4>1. Len(<<"[">>) = 1
        OBVIOUS
      <4> QED
        BY <1>4, <1>13, <2>2, <2>6, <4>1
    <3>3. script[n].class \in {"bad", "other"}
      BY <1>1, <1>3, <2>3, <3>2, NotOpened
    <3> QED
      BY <1>3, <1>4, <1>12, <2>1, <3>1, <3>3, RejectedBefore
  <2> QED
    BY <2>5, <2>6
<1>19. CASE IsChar(pos, {"["}) /\ (cmd = "WRITE" => IsChar(second, {"("}))
  <2>1. /\ pc' = "list" /\ pos' = (IF cmd = "WRITE" THEN second + 1 ELSE second)
        /\ cmd' = cmd /\ args' = args /\ line' = line /\ log' = log
    BY <1>9, <1>19 DEF OpenList
  <2>2. l # 0 /\ t[1] = "[" /\ second = b + 2 /\ (cmd = "WRITE" => l > 1 /\ t[2] = "(")
    BY <1>15, <1>16, <1>19
  <2>3. Opens(cmd, t)
    BY <1>4, <1>13, <2>2 DEF Opens
  <2>4. PICK j \in Places(t) :
          /\ Reaches(cmd, t, j) /\ ItemsBefore(cmd, t, j) = 0
          /\ StringAt(cmd, t, j) = (IF cmd = "WRITE" THEN 3 ELSE 2) /\ StringAt(cmd, t, j) <= j
          /\ cmd = "WRITE" => t[Previous(t, j)] # ","
    BY <1>1, <1>6, <2>3, ListStarts
  <2>5. pos' = b + StringAt(cmd, t, j)
    <3>1. CASE cmd = "WRITE"
      <4>1. StringAt(cmd, t, j) = 3 /\ pos' = second + 1
        BY <2>1, <2>4, <3>1
      <4>2. second + 1 = b + 3
        BY <1>5, <2>2
      <4> QED
        BY <4>1, <4>2
    <3>2. CASE cmd # "WRITE"
      <4>1. StringAt(cmd, t, j) = 2 /\ pos' = second
        BY <2>1, <2>4, <3>2
      <4> QED
        BY <2>2, <4>1
    <3> QED
      BY <3>1, <3>2
  <2>6. Len(args) = 0 /\ 1..0 = {}
    BY <1>1 DEF ParserInv, ArgsOK
  <2>7. ListAt(f, j)'
    <3>1. \A i \in 1..Len(args) : args[i] = script[line].means.args[i]
      BY <2>6
    <3>2. (/\ j \in Places(Rest(cmd, script[line].chars))
           /\ Reaches(cmd, Rest(cmd, script[line].chars), j)
           /\ StringAt(cmd, Rest(cmd, script[line].chars), j) <= j)'
      BY <1>6, <2>1, <2>4
    <3>3. (pos = f[line] + Len(Keyword[cmd]) - 1 + StringAt(cmd, Rest(cmd, script[line].chars), j))'
      BY <1>6, <2>1, <2>5
    <3>4. (/\ cmd = "WRITE" => Rest(cmd, script[line].chars)[Previous(Rest(cmd, script[line].chars), j)] # ","
           /\ Len(args) = ItemsBefore(cmd, Rest(cmd, script[line].chars), j))'
      BY <1>6, <2>1, <2>4, <2>6
    <3>5. (script[line].class = "good" => \A i \in 1..Len(args) : args[i] = script[line].means.args[i])'
      BY <2>1, <3>1
    <3> QED
      BY <3>2, <3>3, <3>4, <3>5 DEF ListAt
  <2>8. f[n] < pos'
    <3>1. PICK q : q = pos'
      OBVIOUS
    <3>2. q = second + 1 \/ q = second
      BY <2>1, <3>1
    <3>3. second \in Nat /\ second = pos + 1
      <4>1. b \in Nat /\ pos = b + 1 /\ second = b + 2
        BY <1>5, <1>6, <2>2
      <4> QED
        BY <4>1
    <3>4. q > pos
      BY <1>2, <3>2, <3>3
    <3>5. f[n] < q
      BY <1>2, <1>6, <3>2, <3>3, <3>4
    <3> QED
      BY <3>1, <3>5
  <2> QED
    BY <1>1, <1>3, <2>1, <2>7, <2>8, ListContinues
<1> QED
  BY <1>17, <1>18, <1>19

-----------------------------------------------------------------------------
(* WAIT.                                                                   *)
LEMMA ClassOfDelay ==
  ASSUME NEW f, NEW n, NEW s, NEW t, NEW b, NEW ends, OnLine(f, n, s, t, b, ends),
         cmd = "WAIT", NEW m, IsNumber(t, m)
  PROVE  /\ m # Len(t) =>
              /\ script[n].class \in {"bad", "other"}
              /\ script[n].class = "bad" => t[m + 1] # Space \/ Number(SubSeq(t, 1, m)) > UINT_MAX
         /\ m = Len(t) =>
              /\ SubSeq(t, 1, m) = t
              /\ script[n].class \in {"good", "greedy", "other"}
              /\ script[n].class = "good" =>
                   /\ script[n].means.name = cmd /\ script[n].means.args = <<<<t>>>>
                   /\ t = Decimal(Number(t)) /\ ~(Number(t) > UINT_MAX)
                   /\ \A g \in StaleDigits : IsPrefix(t, Decimal(Number(t \o g)))
              /\ script[n].class = "greedy" => Number(t) > UINT_MAX
<1>1. PICK l : l = Len(t)
  OBVIOUS
<1>2. t \in Seq(Character) /\ l \in Nat
  BY <1>1, LenProperties DEF OnLine
<1>3. SubSeq(t, 1, l) = t
  BY <1>1, <1>2, WholeSequence
<1>4. /\ m \in 0..l /\ \A i \in 1..m : t[i] \in Digits
      /\ m # l => t[m + 1] \notin Digits
  BY <1>1 DEF IsNumber
<1>5. cmd \notin WithList /\ cmd # "WRITE"
  BY DEF WithList
<1>6. ASSUME NEW k \in 0..l, ToSet(SubSeq(t, 1, k)) \subseteq Digits
      PROVE  k <= m
  <2>1. \A i \in 1..k : t[i] \in Digits
    BY <1>1, <1>2, <1>6, DigitsOf
  <2> SUFFICES ASSUME m < k
               PROVE  FALSE
    BY <1>2, <1>4
  <2>2. m + 1 \in 1..k /\ m # l
    BY <1>2, <1>4
  <2> QED
    BY <1>4, <2>1, <2>2
<1>7. ASSUME script[n].class = "good"
      PROVE  /\ m = l /\ script[n].means.name = cmd /\ script[n].means.args = <<<<t>>>>
             /\ t = Decimal(Number(t)) /\ ~(Number(t) > UINT_MAX)
             /\ \A g \in StaleDigits : IsPrefix(t, Decimal(Number(t \o g)))
  <2>1. script[n].means.name = cmd /\ script[n].means.args = <<<<t>>>> /\ IsDelay(t)
    BY <1>5, <1>7, ClassOfCall
  <2>2. ToSet(SubSeq(t, 1, l)) \subseteq Digits /\ ~TooLarge(t, l)
    BY <1>1, <1>3, <2>1 DEF IsDelay
  <2>3. ~(Number(t) > UINT_MAX)
    BY <1>3, <2>2 DEF TooLarge
  <2>4. l <= m
    BY <1>2, <1>6, <2>2
  <2>5. m = l
    BY <1>2, <1>4, <2>4
  <2>6. t = Decimal(Number(t)) /\ \A g \in StaleDigits : IsPrefix(t, Decimal(Number(t \o g)))
    BY <2>1, Zenon DEF IsDelay
  <2> QED
    BY <2>1, <2>3, <2>5, <2>6
<1>8. ASSUME script[n].class = "greedy"
      PROVE  m = l /\ Number(t) > UINT_MAX
  <2>1. GreedyRest(cmd, t)
    BY <1>8, ClassOfCall
  <2>2. TooLarge(t, l)
    BY <1>1, <1>5, <2>1 DEF GreedyRest, Reaches
  <2>3. ToSet(SubSeq(t, 1, l)) \subseteq Digits /\ Number(t) > UINT_MAX
    BY <1>3, <2>2 DEF TooLarge
  <2>4. l <= m
    BY <1>2, <1>6, <2>3
  <2> QED
    BY <1>2, <1>4, <2>3, <2>4
<1>9. ASSUME script[n].class = "bad"
      PROVE  m # l /\ (t[m + 1] # Space \/ Number(SubSeq(t, 1, m)) > UINT_MAX)
  <2>1. BadRest(cmd, t)
    BY <1>9, ClassOfCall
  <2>2. \E k \in 0..(Len(t) - 1) :
          /\ ToSet(SubSeq(t, 1, k)) \subseteq Digits /\ t[k + 1] \notin Digits
          /\ t[k + 1] # " " \/ TooLarge(t, k)
    BY <1>5, <2>1, Zenon DEF BadRest, Reaches
  <2>3. PICK k \in 0..(Len(t) - 1) :
          /\ ToSet(SubSeq(t, 1, k)) \subseteq Digits /\ t[k + 1] \notin Digits
          /\ t[k + 1] # " " \/ TooLarge(t, k)
    BY <2>2, Zenon
  <2>4. k \in 0..(l - 1) /\ k \in 0..l
    BY <1>1, <1>2
  <2>5. k <= m
    BY <1>6, <2>3, <2>4
  <2>6. ~(k < m)
    <3>1. k < m => k + 1 \in 1..m
      BY <1>2, <1>4, <2>4
    <3> QED
      BY <1>4, <2>3, <3>1
  <2>7. k = m /\ m # l
    BY <1>2, <1>4, <2>4, <2>5, <2>6
  <2>8. t[m + 1] # Space \/ Number(SubSeq(t, 1, m)) > UINT_MAX
    BY <2>3, <2>7, Zenon DEF Space, TooLarge
  <2> QED
    BY <2>7, <2>8
<1>10. script[n].class \in {"good", "bad", "greedy", "other"}
  BY ClassOfCall
<1> QED
  BY <1>1, <1>3, <1>7, <1>8, <1>9, <1>10

LEMMA ParseWaitLines ==
  ASSUME ParserInv, ParserInv', NEW f, LinesInv(f), ParseWait,
         script' = script, complete' = complete, text' = text
  PROVE  LinesInv(f)'
<1>1. pc = "open" /\ cmd = "WAIT"
  BY DEF ParseWait
<1>2. text \in Seq(Character) /\ Len(text) \in Nat /\ End = Len(text) + 1 /\ pos \in 1..End
  BY InvFacts
<1>3. PICK n, s, t, b, ends : OnLine(f, n, s, t, b, ends)
  BY <1>1, CallOnLine
<1>4. PICK l : l = Len(t)
  OBVIOUS
<1>5. /\ ends \in BOOLEAN /\ b \in Nat /\ l \in Nat
      /\ \A i \in 1..l : text[b + i] = t[i] /\ t[i] # Newline
      /\ ends => b + l + 1 < End /\ text[b + l + 1] = Newline
      /\ ~ends => End = b + l + 1
      /\ b + l + 1 <= End /\ OnText(b, t, ends)
  BY <1>3, <1>4 DEF OnLine, OnText
<1>6. /\ n = line /\ n \in LineNumbers /\ f[n] \in Nat /\ f[n] = Here(f) /\ f[n] < pos
      /\ t \in Seq(Character) /\ ends = Terminated(n) /\ b = f[n] + Len(Keyword[cmd]) - 1
      /\ cmd \in DOMAIN Keyword
  BY <1>3 DEF OnLine
<1>7. pos = b + 1
  <2>1. pos = f[n] + Len(Keyword[cmd])
    BY <1>1, <1>6 DEF LinesInv, ReadingOK
  <2>2. Len(Keyword[cmd]) \in 4..7
    BY <1>6, KeywordTyped
  <2> QED
    BY <1>6, <2>1, <2>2
<1>8. PICK m : IsNumber(t, m) /\ NumberRead(b, t, ends, m)
  BY <1>5, <1>6, NumberOnText
<1>9. PICK stop, after : stop = read_uint(pos).stop /\ after = Passed(stop, 1)
  OBVIOUS
<1>10. /\ m \in 0..l /\ stop = b + m + 1 /\ stop <= End
       /\ m # l \/ ends => stop < End /\ read_uint(pos).numbers = {Number(SubSeq(t, 1, m))}
       /\ m = l /\ ~ends => stop = End /\ read_uint(pos).numbers = {Number(t \o g) : g \in StaleDigits}
  BY <1>4, <1>7, <1>8, <1>9 DEF IsNumber, NumberRead
<1>11. stop \in pos..End /\ stop \in 1..End
  BY <1>2, <1>5, <1>7, <1>10
<1>12. after \in stop..End /\ after = IF stop + 1 <= End THEN stop + 1 ELSE End
  BY <1>2, <1>9, <1>11, PassedIs
<1>13. after \in pos..End /\ cleanup(after) \in pos..End
  <2>1. after \in pos..End
    BY <1>2, <1>11, <1>12
  <2> QED
    BY <1>2, <2>1, SkippedLater
<1>14. m # l \/ ends => after = b + m + 2
  BY <1>2, <1>5, <1>10, <1>12
<1>15. PICK v \in read_uint(pos).numbers :
         IF v > UINT_MAX THEN Reject(cleanup(after))
         ELSE IF IsChar(stop, {" "}) THEN Execute(<<<<Decimal(v)>>>>, cleanup(after))
         ELSE IF AtEnd(stop) \/ IsChar(stop, {Newline}) THEN Execute(<<<<Decimal(v)>>>>, after)
         ELSE Reject(cleanup(after))
  BY <1>9, Zenon DEF ParseWait
<1>16. PICK w : w = <<<<Decimal(v)>>>>
  OBVIOUS
<1>17. /\ m # l =>
            /\ script[n].class \in {"bad", "other"}
            /\ script[n].class = "bad" => t[m + 1] # Space \/ Number(SubSeq(t, 1, m)) > UINT_MAX
       /\ m = l =>
            /\ SubSeq(t, 1, m) = t
            /\ script[n].class \in {"good", "greedy", "other"}
            /\ script[n].class = "good" =>
                 /\ script[n].means.name = cmd /\ script[n].means.args = <<<<t>>>>
                 /\ t = Decimal(Number(t)) /\ ~(Number(t) > UINT_MAX)
                 /\ \A g \in StaleDigits : IsPrefix(t, Decimal(Number(t \o g)))
            /\ script[n].class = "greedy" => Number(t) > UINT_MAX
  <2>1. PICK k : k = m
    OBVIOUS
  <2>2. IsNumber(t, k)
    BY <1>8, <2>1
  <2> QED
    BY <1>1, <1>3, <1>4, <2>1, <2>2, ClassOfDelay
<1>18. ASSUME NEW q \in pos..End, Execute(w, q), EntryOK(n, Command(cmd, w)),
              ends => /\ script[n].class \in {"good", "other"}
                      /\ script[n].class = "good" => q = StartOf(f, n + 1)
       PROVE  LinesInv(f)'
  <2>1. q \in Nat /\ q > f[n]
    BY <1>2, <1>6
  <2>2. CallRight(f, n, q, Command(cmd, w))
    BY <1>6, <1>18, <2>1 DEF CallRight
  <2>3. pos' = q /\ pc' = "next" /\ log' = Append(log, <<n, Command(cmd, w)>>)
    BY <1>6, <1>18 DEF Execute, Done
  <2> QED
    BY <1>6, <2>2, <2>3, CallDone
<1>19. FileIs(f)
  BY DEF LinesInv
<1>20. /\ \A x \in (b + 1)..(b + l + 1) : cleanup(x) = StartOf(f, n + 1)
       /\ ends => cleanup(b + l + 2) = StartOf(f, n + 2)
  BY <1>3, <1>4, <1>19, CleanupOfCall
<1>21. CASE ~ends
  <2>1. ASSUME NEW q \in pos..End, Reject(q)
        PROVE  LinesInv(f)'
    BY <1>3, <1>21, <2>1, RejectedCall
  <2>2. EntryOK(n, Command(cmd, w))
    <3> SUFFICES ASSUME script[n].class = "good"
                 PROVE  DoneUnterminated(Command(cmd, w), script[n].means)
      BY <1>6, <1>21 DEF EntryOK
    <3>1. m = l
      BY <1>17
    <3>2. PICK g \in StaleDigits : v = Number(t \o g)
      BY <1>10, <1>15, <1>21, <3>1
    <3>3. script[n].means.name = "WAIT" /\ script[n].means.args = <<<<t>>>> /\ IsPrefix(t, Decimal(v))
      BY <1>1, <1>17, <3>1, <3>2
    <3>4. script[n].means.args[1][1] = t
      BY <3>3
    <3>5. w[1][1] = Decimal(v)
      <4>1. PICK d : d = Decimal(v)
        OBVIOUS
      <4>2. w = <<<<d>>>>
        BY <1>16, <4>1
      <4> QED
        BY <4>1, <4>2
    <3>6. Command(cmd, w).name = "WAIT" /\ Command(cmd, w).args = w
      BY <1>1 DEF Command
    <3> QED
      BY <3>3, <3>4, <3>5, <3>6 DEF DoneUnterminated
  <2>3. \/ Reject(cleanup(after)) \/ Execute(w, cleanup(after)) \/ Execute(w, after)
    BY <1>15, <1>16, Zenon
  <2> QED
    BY <1>13, <1>18, <1>21, <2>1, <2>2, <2>3
<1>22. CASE ends
  <2>1. v = Number(SubSeq(t, 1, m)) /\ stop < End /\ ~AtEnd(stop)
    <3>1. stop < End /\ v = Number(SubSeq(t, 1, m))
      BY <1>10, <1>15, <1>22
    <3>2. stop \in Nat /\ End \in Nat
      BY <1>2, <1>11
    <3>3. ~(stop >= End)
      BY <3>1, <3>2
    <3> QED
      BY <3>1, <3>3 DEF AtEnd
  <2>2. CASE m # l
    <3>1. m + 1 \in 1..l
      BY <1>5, <1>10, <2>2
    <3>2. text[stop] = t[m + 1] /\ text[stop] # Newline
      <4>1. PICK k : k = m + 1
        OBVIOUS
      <4>2. k \in 1..l /\ b + k = stop
        BY <1>5, <1>10, <3>1, <4>1
      <4> QED
        BY <1>5, <4>1, <4>2
    <3>3. after \in (b + 1)..(b + l + 1)
      BY <1>2, <1>5, <1>10, <1>14, <2>2
    <3>4. ASSUME Reject(cleanup(after))
          PROVE  LinesInv(f)'
      BY <1>3, <1>4, <1>13, <1>17, <2>2, <3>3, <3>4, RejectedBefore
    <3>5. ASSUME ~(v > UINT_MAX), IsChar(stop, {" "})
          PROVE  LinesInv(f)'
      <4>1. t[m + 1] = Space
        BY <3>2, <3>5 DEF IsChar, Space
      <4>2. script[n].class = "other"
        BY <1>17, <2>1, <2>2, <3>5, <4>1
      <4>3. EntryOK(n, Command(cmd, w))
        BY <1>6, <1>22, <4>2 DEF EntryOK
      <4>4. Execute(w, cleanup(after))
        BY <1>15, <1>16, <3>5, Zenon
      <4> QED
        BY <1>13, <1>18, <4>2, <4>3, <4>4
    <3>6. ~IsChar(stop, {Newline})
      BY <3>2 DEF IsChar
    <3> QED
      BY <1>15, <2>1, <3>4, <3>5, <3>6, Zenon
  <2>3. CASE m = l
    <3>1. text[stop] = Newline /\ after = b + l + 2
      BY <1>5, <1>10, <1>14, <1>22, <2>3
    <3>2. /\ v = Number(t)
      BY <1>17, <2>1, <2>3
    <3>3. StartOf(f, n + 1) = after /\ cleanup(after) = StartOf(f, n + 2)
      <4>1. n \in 1..Len(script) /\ Terminated(n) /\ f[n + 1] = b + Len(t) + 2
        BY <1>3, <1>6, <1>22, <1>19, NumberedLine DEF OnLine
      <4>2. StartOf(f, n + 1) = f[n + 1]
        BY <1>19, <4>1, StartNext
      <4>3. b + Len(t) + 2 = after
        BY <1>4, <3>1
      <4>4. cleanup(after) = StartOf(f, n + 2)
        BY <1>22, <1>20, <3>1
      <4> QED
        BY <4>1, <4>2, <4>3, <4>4
    <3>4. CASE v > UINT_MAX
      <4>1. Reject(cleanup(after))
        BY <1>15, <3>4, Zenon
      <4>2. script[n].class \in {"greedy", "other"}
        BY <1>17, <2>3, <3>2, <3>4
      <4> QED
        BY <1>3, <1>13, <3>3, <4>1, <4>2, RejectedAtNewline
    <3>5. CASE ~(v > UINT_MAX)
      <4>1. ~IsChar(stop, {" "}) /\ IsChar(stop, {Newline})
        <5>1. Newline \notin {" "}
          BY DEF Newline
        <5> QED
          BY <2>1, <3>1, <5>1 DEF IsChar
      <4>2. Execute(w, after)
        BY <1>15, <1>16, <3>5, <4>1, Zenon
      <4>3. script[n].class \in {"good", "other"}
        BY <1>17, <2>3, <3>2, <3>5
      <4>4. EntryOK(n, Command(cmd, w))
        <5> SUFFICES ASSUME script[n].class # "other"
                     PROVE  Same(Command(cmd, w), script[n].means)
          BY <1>6, <1>22 DEF EntryOK
        <5>1. script[n].class = "good"
          BY <4>3
        <5>2. script[n].means.name = cmd /\ script[n].means.args = <<<<t>>>> /\ t = Decimal(v)
          BY <1>17, <2>3, <3>2, <5>1
        <5>3. script[n].means.args = w
          BY <1>16, <5>2
        <5> QED
          BY <5>2, <5>3 DEF Same, Command
      <4> QED
        BY <1>13, <1>18, <3>3, <4>2, <4>3, <4>4
    <3> QED
      BY <3>4, <3>5
  <2> QED
    BY <2>2, <2>3
<1> QED
  BY <1>5, <1>21, <1>22

-----------------------------------------------------------------------------
(* The strings of a list.                                                  *)
LEMMA ListWithin ==
  ASSUME NEW t \in Seq(Character), NEW c, NEW j \in Places(t), StringAt(c, t, j) <= j
  PROVE  /\ Previous(t, j) \in Nat /\ StringAt(c, t, j) \in Nat /\ j \in Nat
         /\ Within(t, StringAt(c, t, j), j)
<1>1. /\ Len(t) \in Nat /\ Stops(t) \subseteq 1..Len(t) /\ Places(t) \subseteq 1..(Len(t) + 1)
  BY StopsAre
<1>2. PICK q : q = Previous(t, j)
  OBVIOUS
<1>3. /\ q \in {1} \cup Before(t, j) /\ \A i \in {1} \cup Before(t, j) : i <= q
  BY <1>2, PreviousIs
<1>4. q \in Nat \ {0}
  BY <1>1, <1>3 DEF Before
<1>5. PICK i : i = StringAt(c, t, j)
  OBVIOUS
<1>6. i = q + 2 \/ i = q + 1
  BY <1>2, <1>5 DEF StringAt
<1>7. j \in 1..(Len(t) + 1) /\ i <= j
  BY <1>1, <1>5
<1>8. i \in 1..(Len(t) + 1)
  BY <1>1, <1>4, <1>6, <1>7
<1>9. ASSUME NEW k \in Stops(t)
      PROVE  k < i \/ j <= k
  <2>1. k \in Nat
    BY <1>1
  <2>2. k < j => k \in Before(t, j)
    BY DEF Before
  <2>3. k < j => k <= q
    BY <1>3, <2>2
  <2> QED
    BY <1>4, <1>6, <1>7, <2>1, <2>3
<1> QED
  BY <1>2, <1>4, <1>5, <1>7, <1>8, <1>9 DEF Within

LEMMA StopsHold ==
  ASSUME NEW t \in Seq(Character), NEW j \in Stops(t)
  PROVE  j \in 1..Len(t) /\ t[j] \in {Space, ",", ")", "]"}
<1>1. j \in 1..Len(t)
  BY StopsAre
<1>2. t[j] \in {Space, ",", ")", "]"}
  BY DEF Stops, Space
<1> QED
  BY <1>1, <1>2

LEMMA MayEndIs ==
  ASSUME NEW c, NEW t, NEW j
  PROVE  /\ MayEnd(c, t, j) \subseteq {",", ")", "]"}
         /\ c # "WRITE" => MayEnd(c, t, j) = {",", "]"}
         /\ c = "WRITE" /\ t[Previous(t, j)] = "," => MayEnd(c, t, j) = {")"}
         /\ c = "WRITE" /\ t[Previous(t, j)] # "," => MayEnd(c, t, j) = {","}
BY DEF MayEnd

LEMMA NoSpace == Space # "," /\ Space # ")" /\ Space # "]" /\ "none" \notin {",", ")", "]"}
BY DEF Space

\* What read_string says of the string of t that ends at j.
FoundAt(r, t, b, j) ==
  /\ j \in 1..Len(t) /\ t[j] \in MayEnd(cmd, t, j) /\ r.at = t[j]
  /\ r.str = SubSeq(t, StringAt(cmd, t, j), j - 1) /\ r.next = b + j + 1

LEMMA StringFound ==
  ASSUME NEW f, NEW n, NEW s, NEW t, NEW b, NEW ends, OnLine(f, n, s, t, b, ends),
         NEW j \in Places(t), StringAt(cmd, t, j) <= j, EndsString(cmd, t, j)
  PROVE  FoundAt(read_string(b + StringAt(cmd, t, j)), t, b, j)
<1>1. t \in Seq(Character) /\ b \in Nat /\ OnText(b, t, ends)
  BY DEF OnLine
<1>2. PICK i : i = StringAt(cmd, t, j)
  OBVIOUS
<1>3. i \in Nat /\ j \in Nat /\ Within(t, i, j)
  BY <1>1, <1>2, ListWithin
<1>4. j \in Stops(t) /\ ~(j >= i + MAX_STRING_SIZE) /\ t[j] \in MayEnd(cmd, t, j)
  BY <1>2 DEF EndsString, NoString, TooLong
<1>5. j < i + MAX_STRING_SIZE
  BY <1>3, <1>4, ParserAssumption
<1>6. t[j] # Space
  BY <1>4, MayEndIs, NoSpace
<1>7. read_string(b + i) = [at |-> t[j], str |-> SubSeq(t, i, j - 1), next |-> b + j + 1]
  BY <1>1, <1>3, <1>4, <1>5, <1>6, ReadsString
<1>8. j \in 1..Len(t)
  BY <1>1, <1>4, StopsHold
<1>9. PICK r : r = read_string(b + i)
  OBVIOUS
<1>10. r.at = t[j] /\ r.str = SubSeq(t, i, j - 1) /\ r.next = b + j + 1
  BY <1>7, <1>9
<1> QED
  BY <1>2, <1>4, <1>8, <1>9, <1>10 DEF FoundAt

\* What a call may reject, at the newline or before it.
LEMMA KnownFault ==
  ASSUME NEW f, NEW n, NEW s, NEW t, NEW b, NEW ends, OnLine(f, n, s, t, b, ends), Known(n),
         NEW j \in Places(t), Reaches(cmd, t, j), ~GoesOn(cmd, t, j), ~Completes(cmd, t, j)
  PROVE  /\ ends
         /\ \/ script[n].class = "bad" /\ FailsBefore(cmd, t, j)
            \/ script[n].class = "greedy" /\ FailsAtNewline(cmd, t, j)
<1>1. /\ script[n].class \in {"good", "bad", "greedy", "other"}
      /\ script[n].class = "good" => Completes(cmd, t, j)
      /\ script[n].class = "bad" => FailsBefore(cmd, t, j)
      /\ script[n].class = "greedy" => FailsAtNewline(cmd, t, j)
  BY ClassOfList
<1>2. script[n].class # "other" /\ (ends \/ script[n].class = "good")
  BY DEF Known, OnLine
<1> QED
  BY <1>1, <1>2

LEMMA StringMissed ==
  ASSUME NEW f, NEW n, NEW s, NEW t, NEW b, NEW ends, OnLine(f, n, s, t, b, ends), Known(n),
         NEW j \in Places(t), Reaches(cmd, t, j), StringAt(cmd, t, j) <= j, ~EndsString(cmd, t, j),
         NEW r, r = read_string(b + StringAt(cmd, t, j))
  PROVE  /\ ends /\ r.at \notin MayEnd(cmd, t, j)
         /\ \/ /\ r.next \in (b + 1)..(b + Len(t) + 1)
               /\ script[n].class = (IF cmd = "WRITE" THEN "greedy" ELSE "bad")
            \/ /\ cmd # "WRITE" /\ r.next = b + Len(t) + 2
               /\ script[n].class = "greedy"
<1>1. t \in Seq(Character) /\ b \in Nat /\ OnText(b, t, ends) /\ Len(t) \in Nat
  BY LenProperties DEF OnLine
<1>2. PICK i, l : i = StringAt(cmd, t, j) /\ l = Len(t)
  OBVIOUS
<1>3. i \in Nat /\ j \in Nat /\ Within(t, i, j) /\ l \in Nat
  BY <1>1, <1>2, ListWithin
<1>4. j \in 1..(l + 1) /\ i \in 1..(l + 1) /\ (j \in Stops(t) \/ j = l + 1)
  BY <1>2, <1>3, <1>1, StopsAre DEF Within, Places
<1>5. r = read_string(b + i) /\ MAX_STRING_SIZE \in Nat
  BY <1>2, ParserAssumption
<1>6. ~GoesOn(cmd, t, j) /\ ~Completes(cmd, t, j) /\ ~EndsItem(cmd, t, j)
  BY DEF GoesOn, Completes, EndsItem
<1>7. /\ ends
      /\ \/ script[n].class = "bad" /\ FailsBefore(cmd, t, j)
         \/ script[n].class = "greedy" /\ FailsAtNewline(cmd, t, j)
  BY <1>6, KnownFault
<1>8. /\ FailsBefore(cmd, t, j) => cmd # "WRITE" /\ NoString(cmd, t, j)
      /\ FailsAtNewline(cmd, t, j) =>
           \/ cmd = "WRITE" /\ NoString(cmd, t, j)
           \/ cmd # "WRITE" /\ j = l + 1 /\ j + 1 = i + MAX_STRING_SIZE
  BY <1>2, <1>6 DEF FailsBefore, FailsAtNewline
<1>9. CASE NoString(cmd, t, j)
  <2>1. j >= i + MAX_STRING_SIZE \/ (j \in Stops(t) /\ t[j] \notin MayEnd(cmd, t, j))
    BY <1>2, <1>9 DEF NoString, TooLong
  <2>2. script[n].class = (IF cmd = "WRITE" THEN "greedy" ELSE "bad")
    <3>1. ~(cmd # "WRITE" /\ j = l + 1 /\ j + 1 = i + MAX_STRING_SIZE)
      <4> SUFFICES ASSUME j = l + 1, j + 1 = i + MAX_STRING_SIZE
                   PROVE  FALSE
        OBVIOUS
      <4>1. j \notin Stops(t)
        <5>1. j \in Stops(t) => j \in 1..l
          BY <1>1, <1>2, StopsHold
        <5> QED
          BY <1>3, <5>1
      <4>2. ~(j >= i + MAX_STRING_SIZE)
        BY <1>3, <1>5
      <4> QED
        BY <2>1, <4>1, <4>2
    <3> QED
      BY <1>7, <1>8, <3>1
  <2>3. CASE j >= i + MAX_STRING_SIZE \/ (j \in Stops(t) /\ t[j] = Space)
    <3>1. r.at = "none" /\ r.next \in (b + i)..(b + l + 1)
      BY <1>1, <1>2, <1>3, <1>5, <2>3, ReadsNoString
    <3>2. r.next \in (b + 1)..(b + l + 1)
      BY <1>1, <1>3, <1>4, <3>1
    <3>3. r.at \notin MayEnd(cmd, t, j)
      BY <3>1, MayEndIs, NoSpace
    <3> QED
      BY <1>2, <1>7, <2>2, <3>2, <3>3
  <2>4. CASE ~(j >= i + MAX_STRING_SIZE \/ (j \in Stops(t) /\ t[j] = Space))
    <3>1. j \in Stops(t) /\ t[j] \notin MayEnd(cmd, t, j) /\ t[j] # Space
      BY <2>1, <2>4
    <3>2. j < i + MAX_STRING_SIZE
      BY <1>3, <1>5, <2>4
    <3>3. r = [at |-> t[j], str |-> SubSeq(t, i, j - 1), next |-> b + j + 1]
      BY <1>1, <1>3, <1>5, <3>1, <3>2, ReadsString
    <3>4. r.at = t[j] /\ r.next = b + j + 1
      BY <3>3
    <3>5. j \in 1..l
      BY <1>1, <1>2, <3>1, StopsHold
    <3>6. r.next \in (b + 1)..(b + l + 1)
      BY <1>1, <1>3, <3>4, <3>5
    <3> QED
      BY <1>2, <1>7, <2>2, <3>1, <3>4, <3>6
  <2> QED
    BY <2>3, <2>4
<1>10. CASE ~NoString(cmd, t, j)
  <2>1. cmd # "WRITE" /\ j = l + 1 /\ j + 1 = i + MAX_STRING_SIZE /\ script[n].class = "greedy"
    BY <1>7, <1>8, <1>10
  <2>2. OnText(b, t, TRUE)
    BY <1>1, <1>7 DEF OnText
  <2>3. r.at = "none" /\ r.next = b + l + 2
    <3>1. j = Len(t) + 1
      BY <1>2, <2>1
    <3>2. read_string(b + i).at = "none" /\ read_string(b + i).next = b + Len(t) + 2
      BY <1>1, <1>3, <2>1, <2>2, <3>1, ReadsNewline
    <3> QED
      BY <1>2, <1>5, <3>2
  <2>4. r.at \notin MayEnd(cmd, t, j)
    BY <2>3, MayEndIs, NoSpace
  <2> QED
    BY <1>2, <1>7, <2>1, <2>3, <2>4
<1> QED
  BY <1>9, <1>10

-----------------------------------------------------------------------------
(* Lists on lines that do not say what happens to them.                    *)
LEMMA UnknownClass ==
  ASSUME NEW f, NEW n, NEW s, NEW t, NEW b, NEW ends, OnLine(f, n, s, t, b, ends), ~Known(n)
  PROVE  /\ ends => script[n].class = "other"
         /\ \A what : EntryOK(n, what)
<1>1. /\ ends = Terminated(n) /\ ends \in BOOLEAN
  BY DEF OnLine
<1>2. script[n].class = "other" \/ (~ends /\ script[n].class # "good")
  BY <1>1 DEF Known
<1>3. \A what : EntryOK(n, what)
  BY <1>1, <1>2 DEF EntryOK
<1> QED
  BY <1>2, <1>3

LEMMA UnknownRejected ==
  ASSUME ParserInv, ParserInv', NEW f, LinesInv(f),
         NEW n, NEW s, NEW t, NEW b, NEW ends, OnLine(f, n, s, t, b, ends), ~Known(n),
         NEW p \in pos..End, Reject(p),
         script' = script, complete' = complete, text' = text
  PROVE  LinesInv(f)'
<1>1. ends => script[n].class = "other"
  BY UnknownClass
<1>2. ends => /\ script[n].class \in {"bad", "greedy", "other"}
              /\ script[n].class = "bad" => p = StartOf(f, n + 1)
              /\ script[n].class = "greedy" => p = StartOf(f, n + 2)
  BY <1>1
<1> QED
  BY <1>2, RejectedCall

LEMMA UnknownRound ==
  ASSUME ParserInv, ParserInv', NEW f, LinesInv(f), pc = "list",
         NEW n, NEW s, NEW t, NEW b, NEW ends, OnLine(f, n, s, t, b, ends), ~Known(n),
         NEW p \in pos..End, NEW read, NEW closed, EndRound(read, closed, p),
         script' = script, complete' = complete, text' = text
  PROVE  LinesInv(f)'
<1>1. text \in Seq(Character) /\ Len(text) \in Nat /\ End = Len(text) + 1 /\ pos \in 1..End
  BY InvFacts
<1>2. n = line /\ n \in LineNumbers /\ f[n] \in Nat /\ f[n] = Here(f) /\ f[n] < pos /\ ends = Terminated(n)
  BY DEF OnLine
<1>3. \/ /\ args' = read /\ pos' = p /\ UNCHANGED <<pc, cmd, line, log>>
      \/ Reject(cleanup(p))
      \/ IsChar(p, {Newline}) /\ Execute(read, p + 1)
      \/ Reject(cleanup(Passed(p, 1)))
  BY DEF EndRound
<1>4. cleanup(p) \in pos..End /\ Passed(p, 1) \in pos..End
  BY <1>1, SkippedLater
<1>5. cleanup(Passed(p, 1)) \in pos..End
  <2>1. PICK q : q = Passed(p, 1)
    OBVIOUS
  <2>2. q \in pos..End
    BY <1>4, <2>1
  <2>3. cleanup(q) \in pos..End
    BY <1>1, <2>2, SkippedLater
  <2> QED
    BY <2>1, <2>3
<1>6. CASE args' = read /\ pos' = p /\ UNCHANGED <<pc, cmd, line, log>>
  <2>1. f[n] < pos'
    <3>1. f[n] < p
      BY <1>1, <1>2
    <3> QED
      BY <1>6, <3>1
  <2>2. pc' = "list" /\ cmd' = cmd /\ line' = line /\ log' = log
    BY <1>6
  <2> QED
    BY <2>1, <2>2, ListContinues
<1>7. CASE Execute(read, p + 1)
  <2>1. PICK q, w : q = p + 1 /\ w = Command(cmd, read)
    OBVIOUS
  <2>2. q \in Nat /\ q > f[n]
    BY <1>1, <1>2, <2>1
  <2>3. CallRight(f, n, q, w)
    BY <1>2, <2>2, UnknownClass DEF CallRight
  <2>4. pos' = q /\ pc' = "next" /\ log' = Append(log, <<n, w>>)
    BY <1>2, <1>7, <2>1 DEF Execute, Done
  <2> QED
    BY <1>2, <2>3, <2>4, CallDone
<1> QED
  BY <1>3, <1>4, <1>5, <1>6, <1>7, UnknownRejected

-----------------------------------------------------------------------------
(* A round of a list whose line is known: the name or the pair that ends   *)
(* at j has been read, and after it the character at a.                    *)
LEMMA LastItem ==
  ASSUME NEW t \in Seq(Character), NEW c, NEW j \in Stops(t), Completes(c, t, j)
  PROVE  /\ IsFiniteSet(ItemEnds(c, t))
         /\ Cardinality(ItemEnds(c, t)) = ItemsBefore(c, t, j) + 1
<1>1. /\ IsFiniteSet(Stops(t))
      /\ Stops(t) \subseteq 1..Len(t)
      /\ ItemEnds(c, t) \subseteq Stops(t)
      /\ Len(t) \in Nat
  BY StopsAre
<1>2. IsFiniteSet(ItemEnds(c, t))
  BY <1>1, FS_Subset
<1>3. PICK a : a = After(c, j)
  OBVIOUS
<1>4. j \in ItemEnds(c, t) /\ a = Len(t) /\ t[a] = "]"
  BY <1>3 DEF Completes, EndsItem
<1>5. ASSUME NEW i \in ItemEnds(c, t)
      PROVE  i <= j
  <2>1. i \in 1..Len(t) /\ j \in 1..Len(t)
    BY <1>1
  <2>2. CASE c = "WRITE"
    <3>1. a = j + 1
      BY <1>3, <2>2 DEF After
    <3>2. t[i] = ")"
      BY <2>2 DEF ItemEnds
    <3>3. i # a
      BY <1>4, <3>2
    <3> QED
      BY <1>4, <2>1, <3>1, <3>3
  <2>3. CASE c # "WRITE"
    <3>1. a = j
      BY <1>3, <2>3 DEF After
    <3> QED
      BY <1>4, <2>1, <3>1
  <2> QED
    BY <2>2, <2>3
<1> DEFINE B == {i \in ItemEnds(c, t) : i < j}
<1>6. ItemEnds(c, t) = B \cup {j} /\ j \notin B
  <2>1. \A i \in ItemEnds(c, t) : i \in Nat /\ j \in Nat
    BY <1>1
  <2>2. \A i \in ItemEnds(c, t) : i < j \/ i = j
    BY <1>5, <2>1
  <2>3. ~(j < j)
    BY <1>1
  <2> QED
    BY <1>4, <2>2, <2>3
<1>7. IsFiniteSet(B)
  BY <1>2, FS_Subset
<1>8. Cardinality(B) = ItemsBefore(c, t, j)
  BY DEF ItemsBefore
<1> HIDE DEF B
<1>9. Cardinality(B \cup {j}) = Cardinality(B) + 1
  BY <1>6, <1>7, FS_AddElement
<1> QED
  BY <1>2, <1>6, <1>8, <1>9

LEMMA NextString ==
  ASSUME NEW t \in Seq(Character), NEW c \in WithList, NEW j \in Stops(t), Reaches(c, t, j), GoesOn(c, t, j),
         EndsItem(c, t, j)
  PROVE  \E k \in Places(t) :
           /\ Reaches(c, t, k) /\ StringAt(c, t, k) = After(c, j) + 1 /\ StringAt(c, t, k) <= k
           /\ c = "WRITE" => t[Previous(t, k)] # ","
           /\ ItemsBefore(c, t, k) = ItemsBefore(c, t, j) + 1
<1>1. Stops(t) \subseteq 1..Len(t) /\ Len(t) \in Nat /\ Places(t) = Stops(t) \cup {Len(t) + 1}
  BY StopsAre DEF Places
<1>2. j \in 0..Len(t) /\ j \in Nat
  BY <1>1
<1>3. PICK k \in Places(t) : FirstAfter(t, j, k)
  BY <1>2, NextPlace
<1>4. j \in ItemEnds(c, t)
  BY DEF EndsItem
<1>5. Previous(t, k) = j /\ ItemsBefore(c, t, k) = ItemsBefore(c, t, j) + 1
  BY <1>3, <1>4, PlaceAfter
<1>6. Reaches(c, t, k)
  BY <1>3, ReachesNext
<1>7. k \in Nat /\ j < k /\ (k \in Stops(t) \/ k = Len(t) + 1)
  BY <1>1, <1>3 DEF FirstAfter
<1>8. CASE c = "WRITE"
  <2>1. t[j] = ")" /\ t[j] # ","
    BY <1>4, <1>8 DEF ItemEnds
  <2>2. StringAt(c, t, k) = j + 2 /\ After(c, j) = j + 1
    BY <1>5, <1>8, <2>1 DEF StringAt, After
  <2>3. After(c, j) <= Len(t) /\ t[After(c, j)] = "("
    BY <1>4, <1>8 DEF GoesOn
  <2>4. j + 1 \notin Stops(t) /\ j + 1 <= Len(t)
    BY <2>2, <2>3 DEF Stops
  <2>5. k # j + 1
    BY <1>1, <1>2, <1>7, <2>4
  <2>6. j + 2 <= k /\ j + 2 = j + 1 + 1
    BY <1>2, <1>7, <2>5
  <2>7. StringAt(c, t, k) <= k /\ StringAt(c, t, k) = After(c, j) + 1
    BY <2>2, <2>6
  <2>8. t[Previous(t, k)] # ","
    BY <1>5, <2>1
  <2> QED
    BY <1>5, <1>6, <2>7, <2>8
<1>9. CASE c # "WRITE"
  <2>1. StringAt(c, t, k) = j + 1 /\ After(c, j) = j
    BY <1>5, <1>9 DEF StringAt, After
  <2>2. j + 1 <= k
    BY <1>2, <1>7
  <2>3. StringAt(c, t, k) <= k /\ StringAt(c, t, k) = After(c, j) + 1
    BY <2>1, <2>2
  <2> QED
    BY <1>5, <1>6, <1>9, <2>3
<1> QED
  BY <1>8, <1>9

\* The list of line n stands at j, and the name or the pair that ends there
\* has been read, and after it the character at a.
ItemRead(f, n, t, b, j, a, read) ==
  /\ j \in Stops(t) /\ Reaches(cmd, t, j) /\ EndsItem(cmd, t, j)
  /\ a = After(cmd, j) /\ a \in 1..Len(t) /\ t[a] \in {IF cmd = "WRITE" THEN "(" ELSE ",", "]"}
  /\ b + a + 1 \in pos..End
  /\ \E S : read \in Seq(S)
  /\ Len(read) = ItemsBefore(cmd, t, j) + 1 /\ Len(read) \in 1..MAX_WRITE_SIZE
  /\ script[n].class = "good" => \A i \in 1..Len(read) : read[i] = script[n].means.args[i]

LEMMA RoundGoesOn ==
  ASSUME NEW f, LinesInv(f), pc = "list", cmd \in WithList,
         NEW n, NEW s, NEW t, NEW b, NEW ends, OnLine(f, n, s, t, b, ends),
         NEW j, NEW a, NEW read, ItemRead(f, n, t, b, j, a, read),
         Len(read) < MAX_WRITE_SIZE, t[a] # "]",
         args' = read, pos' = b + a + 1, UNCHANGED <<pc, cmd, line, log>>,
         pos \in 1..End, End \in Nat,
         script' = script, complete' = complete, text' = text
  PROVE  LinesInv(f)'
<1>1. /\ n = line /\ s = script[n].chars /\ t = Rest(cmd, s) /\ t \in Seq(Character) /\ b \in Nat
      /\ b = f[n] + Len(Keyword[cmd]) - 1 /\ f[n] \in Nat /\ f[n] < pos
  BY DEF OnLine
<1>2. /\ j \in Stops(t) /\ Reaches(cmd, t, j) /\ EndsItem(cmd, t, j)
      /\ a = After(cmd, j) /\ a \in 1..Len(t) /\ b + a + 1 \in pos..End
      /\ Len(read) = ItemsBefore(cmd, t, j) + 1
      /\ script[n].class = "good" => \A i \in 1..Len(read) : read[i] = script[n].means.args[i]
  BY DEF ItemRead
<1>3. t[a] = IF cmd = "WRITE" THEN "(" ELSE ","
  BY DEF ItemRead
<1>4. GoesOn(cmd, t, j)
  <2>1. Room(cmd, t, j)
    BY <1>2 DEF Room
  <2>2. EndsString(cmd, t, j)
    BY <1>2 DEF EndsItem
  <2>3. a <= Len(t)
    BY <1>2
  <2> QED
    BY <1>2, <1>3, <2>1, <2>2, <2>3 DEF GoesOn
<1>5. PICK k \in Places(t) :
           /\ Reaches(cmd, t, k) /\ StringAt(cmd, t, k) = After(cmd, j) + 1 /\ StringAt(cmd, t, k) <= k
           /\ cmd = "WRITE" => t[Previous(t, k)] # ","
           /\ ItemsBefore(cmd, t, k) = ItemsBefore(cmd, t, j) + 1
  BY <1>1, <1>2, <1>4, NextString
<1>6. pc' = "list" /\ cmd' = cmd /\ line' = line /\ log' = log
  OBVIOUS
<1>7. pos' = f[n] + Len(Keyword[cmd]) - 1 + StringAt(cmd, t, k)
  <2>1. PICK q, d : q = StringAt(cmd, t, k) /\ d = f[n] + Len(Keyword[cmd]) - 1
    OBVIOUS
  <2>2. q = a + 1 /\ d = b /\ a \in Nat
    <3>1. Len(t) \in Nat
      BY <1>1, LenProperties
    <3>2. a \in Nat
      BY <1>2, <3>1
    <3>3. q = a + 1
      BY <1>2, <1>5, <2>1
    <3>4. d = b
      BY <1>1, <2>1
    <3> QED
      BY <3>2, <3>3, <3>4
  <2>3. b + a + 1 = d + q
    BY <1>1, <2>2
  <2> QED
    BY <2>1, <2>3
<1>8. ListAt(f, k)'
  <2>1. (/\ k \in Places(Rest(cmd, script[line].chars))
         /\ Reaches(cmd, Rest(cmd, script[line].chars), k)
         /\ StringAt(cmd, Rest(cmd, script[line].chars), k) <= k)'
    BY <1>1, <1>5, <1>6
  <2>2. (pos = f[line] + Len(Keyword[cmd]) - 1 + StringAt(cmd, Rest(cmd, script[line].chars), k))'
    BY <1>1, <1>6, <1>7
  <2>3. (/\ cmd = "WRITE" => Rest(cmd, script[line].chars)[Previous(Rest(cmd, script[line].chars), k)] # ","
         /\ Len(args) = ItemsBefore(cmd, Rest(cmd, script[line].chars), k))'
    BY <1>1, <1>2, <1>5, <1>6
  <2>4. (script[line].class = "good" => \A i \in 1..Len(args) : args[i] = script[line].means.args[i])'
    BY <1>1, <1>2, <1>6
  <2> QED
    BY <2>1, <2>2, <2>3, <2>4 DEF ListAt
<1>9. f[n] < pos'
  <2>1. PICK q : q = b + a + 1
    OBVIOUS
  <2>2. q \in pos..End
    BY <1>2, <2>1
  <2>3. f[n] < q
    BY <1>1, <2>2
  <2> QED
    BY <2>1, <2>3
<1> QED
  BY <1>5, <1>6, <1>8, <1>9, ListContinues

LEMMA RoundFails ==
  ASSUME NEW f, NEW n, NEW s, NEW t, NEW b, NEW ends, OnLine(f, n, s, t, b, ends), Known(n),
         NEW j, NEW a, NEW read, ItemRead(f, n, t, b, j, a, read),
         ~GoesOn(cmd, t, j), ~Completes(cmd, t, j)
  PROVE  script[n].class = "bad"
<1>1. /\ j \in Stops(t) /\ Reaches(cmd, t, j) /\ EndsItem(cmd, t, j)
      /\ a = After(cmd, j) /\ a \in 1..Len(t)
  BY DEF ItemRead
<1>2. t \in Seq(Character) /\ Len(t) \in Nat
  BY LenProperties DEF OnLine
<1>3. j \in Places(t) /\ j \in 1..Len(t)
  BY <1>1, <1>2, StopsHold DEF Places
<1>4. \/ script[n].class = "bad"
      \/ script[n].class = "greedy" /\ FailsAtNewline(cmd, t, j)
  BY <1>1, <1>3, KnownFault
<1>5. ~NoString(cmd, t, j)
  BY <1>1 DEF EndsItem, EndsString
<1>6. ~(cmd = "WRITE" /\ j = Len(t))
  <2> SUFFICES ASSUME cmd = "WRITE", j = Len(t)
               PROVE  FALSE
    OBVIOUS
  <2>1. a = j + 1
    BY <1>1 DEF After
  <2> QED
    BY <1>1, <1>2, <2>1
<1>7. j # Len(t) + 1
  BY <1>2, <1>3
<1>8. ~FailsAtNewline(cmd, t, j)
  BY <1>5, <1>6, <1>7 DEF FailsAtNewline
<1> QED
  BY <1>4, <1>8

LEMMA RoundCompletes ==
  ASSUME NEW f, NEW n, NEW s, NEW t, NEW b, NEW ends, OnLine(f, n, s, t, b, ends), Known(n),
         NEW j, NEW a, NEW read, ItemRead(f, n, t, b, j, a, read), Completes(cmd, t, j)
  PROVE  script[n].class = "good" /\ Same(Command(cmd, read), script[n].means)
<1>1. /\ j \in Stops(t) /\ Reaches(cmd, t, j) /\ EndsItem(cmd, t, j)
      /\ a = After(cmd, j) /\ a \in 1..Len(t)
      /\ Len(read) = ItemsBefore(cmd, t, j) + 1
      /\ script[n].class = "good" => \A i \in 1..Len(read) : read[i] = script[n].means.args[i]
  BY DEF ItemRead
<1>2. t \in Seq(Character) /\ Len(t) \in Nat
  BY LenProperties DEF OnLine
<1>3. j \in Places(t)
  BY <1>1 DEF Places
<1>4. ~GoesOn(cmd, t, j) /\ ~FailsBefore(cmd, t, j) /\ ~FailsAtNewline(cmd, t, j)
  <2>1. ~GoesOn(cmd, t, j)
    BY <1>2, FaultsEnd
  <2>2. ~NoString(cmd, t, j)
    BY <1>1 DEF EndsItem, EndsString
  <2>3. ~FailsBefore(cmd, t, j)
    BY <2>2 DEF FailsBefore
  <2>4. j # Len(t) + 1 /\ (cmd = "WRITE" => j # Len(t))
    <3>1. j \in 1..Len(t) /\ a = Len(t)
      BY <1>1, <1>2, StopsHold DEF Completes
    <3>2. cmd = "WRITE" => a = j + 1
      BY <1>1 DEF After
    <3> QED
      BY <1>2, <3>1, <3>2
  <2>5. ~FailsAtNewline(cmd, t, j)
    BY <2>2, <2>4 DEF FailsAtNewline
  <2> QED
    BY <2>1, <2>3, <2>5
<1>5. /\ script[n].class \in {"good", "bad", "greedy", "other"}
      /\ script[n].class = "good" => script[n].means.name = cmd /\ IsList(cmd, t, script[n].means.args)
      /\ script[n].class \notin {"bad", "greedy"}
  BY <1>1, <1>3, <1>4, ClassOfList
<1>6. script[n].class = "good"
  BY <1>5 DEF Known
<1>7. PICK m : m = script[n].means.args
  OBVIOUS
<1>8. m \in Seq(Seq(Seq(STRING))) /\ Len(m) = Cardinality(ItemEnds(cmd, t))
  BY <1>5, <1>6, <1>7 DEF IsList
<1>9. Len(m) = Len(read)
  BY <1>1, <1>2, <1>8, LastItem
<1>10. \A i \in 1..Len(read) : read[i] = m[i]
  BY <1>1, <1>6, <1>7
<1>11. PICK S : read \in Seq(S)
  BY DEF ItemRead
<1>12. read = m
  <2>1. PICK T : T = S \cup Seq(Seq(STRING))
    OBVIOUS
  <2>2. read \in Seq(T) /\ m \in Seq(T)
    BY <1>8, <1>11, <2>1, WiderSeq
  <2> QED
    BY <1>9, <1>10, <2>2, SeqEqual
<1> QED
  BY <1>5, <1>6, <1>7, <1>12 DEF Same, Command

LEMMA RoundLines ==
  ASSUME ParserInv, ParserInv', NEW f, LinesInv(f), pc = "list", cmd \in WithList,
         NEW n, NEW s, NEW t, NEW b, NEW ends, OnLine(f, n, s, t, b, ends), Known(n),
         NEW j, NEW a, NEW read, ItemRead(f, n, t, b, j, a, read),
         NEW p, p = b + a + 1, EndRound(read, t[a] = "]", p),
         script' = script, complete' = complete, text' = text
  PROVE  LinesInv(f)'
<1>1. text \in Seq(Character) /\ Len(text) \in Nat /\ End = Len(text) + 1 /\ pos \in 1..End
  BY InvFacts
<1>2. PICK l : l = Len(t)
  OBVIOUS
<1>3. /\ ends \in BOOLEAN /\ b \in Nat /\ l \in Nat /\ t \in Seq(Character)
      /\ \A i \in 1..l : text[b + i] = t[i] /\ t[i] # Newline
      /\ ends => b + l + 1 < End /\ text[b + l + 1] = Newline
      /\ ~ends => End = b + l + 1
      /\ b + l + 1 <= End
  BY <1>2 DEF OnLine, OnText
<1>4. /\ n = line /\ n \in LineNumbers /\ f[n] \in Nat /\ f[n] = Here(f) /\ f[n] < pos /\ ends = Terminated(n)
  BY DEF OnLine
<1>5. /\ j \in Stops(t) /\ EndsItem(cmd, t, j) /\ a = After(cmd, j) /\ a \in 1..l /\ p \in pos..End
      /\ t[a] \in {IF cmd = "WRITE" THEN "(" ELSE ",", "]"}
      /\ Len(read) = ItemsBefore(cmd, t, j) + 1 /\ Len(read) \in 1..MAX_WRITE_SIZE
  BY <1>2 DEF ItemRead
<1>6. PICK k, x, y, z : k = Len(read) /\ x = MAX_WRITE_SIZE /\ y = pos /\ z = End
  OBVIOUS
<1>7. x \in Nat /\ k \in 1..x
  BY <1>5, <1>6, ParserAssumption
<1>8. b \in Nat /\ l \in Nat /\ z \in Nat /\ y \in 1..z
  BY <1>1, <1>3, <1>6
<1>9. /\ a \in 1..l /\ p \in y..z /\ p = b + a + 1
       /\ (ends => b + l + 1 < z) /\ (~ends => z = b + l + 1) /\ b + l + 1 <= z
  BY <1>3, <1>5, <1>6
<1>10. j \in ItemEnds(cmd, t)
  BY <1>5 DEF EndsItem
<1>11. t[a] = "]" => ~GoesOn(cmd, t, j)
  BY <1>5, <1>10 DEF GoesOn
<1>12. Len(read) = MAX_WRITE_SIZE => ~Room(cmd, t, j)
  <2>1. k = x => ~(k < x)
    BY <1>7
  <2> QED
    BY <1>5, <1>6, <2>1 DEF Room
<1>13. cleanup(p) \in pos..End /\ Passed(p, 1) \in pos..End /\ p \in 1..End
  BY <1>1, <1>5, SkippedLater
<1>14. p \in (b + 1)..(b + l + 1)
  BY <1>8, <1>9
<1>15. CASE Len(read) < MAX_WRITE_SIZE /\ t[a] # "]"
  <2>1. args' = read /\ pos' = p /\ UNCHANGED <<pc, cmd, line, log>>
    BY <1>15 DEF EndRound
  <2>2. pos' = b + a + 1 /\ End \in Nat
    BY <1>1, <2>1
  <2> QED
    BY <1>1, <1>15, <2>1, <2>2, RoundGoesOn
<1>16. CASE Len(read) = MAX_WRITE_SIZE
  <2>1. Reject(cleanup(p))
    <3>1. ~(Len(read) < MAX_WRITE_SIZE)
      BY <1>16, <1>6, <1>7
    <3> QED
      BY <1>16, <3>1 DEF EndRound
  <2>2. ~GoesOn(cmd, t, j) /\ ~Completes(cmd, t, j)
    BY <1>10, <1>12, <1>16 DEF GoesOn, Completes
  <2>3. script[n].class \in {"bad", "other"}
    BY <2>2, RoundFails
  <2> QED
    BY <1>2, <1>5, <1>14, <2>1, <2>3, RejectedBefore
<1>17. CASE Len(read) # MAX_WRITE_SIZE /\ t[a] = "]"
  <2>1. IF IsChar(p, {Newline}) THEN Execute(read, p + 1) ELSE Reject(cleanup(Passed(p, 1)))
    BY <1>17 DEF EndRound
  <2>2. Room(cmd, t, j)
    <3>1. Len(read) < MAX_WRITE_SIZE
      BY <1>17, <1>6, <1>7
    <3> QED
      BY <1>5, <3>1 DEF Room
  <2>3. Completes(cmd, t, j) <=> a = l
    BY <1>2, <1>5, <1>17, <2>2 DEF Completes
  <2>4. PICK q : q = Passed(p, 1)
    OBVIOUS
  <2>5. cleanup(q) \in pos..End
    BY <1>1, <1>13, <2>4, SkippedLater
  <2>6. CASE a # l
    <3>1. a + 1 \in 1..l /\ p < End
      <4>1. a + 1 \in 1..l /\ p < z
        BY <1>8, <1>9, <2>6
      <4> QED
        BY <1>6, <4>1
    <3>2. text[p] # Newline
      <4>1. PICK i : i = a + 1
        OBVIOUS
      <4>2. i \in 1..l /\ b + i = p
        BY <1>8, <1>9, <3>1, <4>1
      <4> QED
        BY <1>3, <4>2
    <3>3. Reject(cleanup(q))
      BY <2>1, <2>4, <3>2 DEF IsChar
    <3>4. q = p + 1
      BY <1>1, <1>13, <2>4, <3>1, PassedIs
    <3>5. q \in (b + 1)..(b + l + 1) /\ q \in pos..End
      <4>1. q \in (b + 1)..(b + l + 1) /\ q \in y..z
        BY <1>8, <1>9, <2>6, <3>4
      <4> QED
        BY <1>6, <4>1
    <3>6. script[n].class \in {"bad", "other"}
      BY <1>11, <1>17, <2>3, <2>6, RoundFails
    <3> QED
      BY <1>2, <3>3, <3>5, <3>6, RejectedBefore
  <2>7. CASE a = l /\ ~ends
    <3>1. p = End
      BY <1>3, <2>7
    <3>2. ~IsChar(p, {Newline})
      <4>1. p >= End
        BY <1>1, <3>1
      <4> QED
        BY <4>1 DEF IsChar, AtEnd
    <3>3. Reject(cleanup(q))
      BY <2>1, <2>4, <3>2
    <3> QED
      BY <2>5, <2>7, <3>3, RejectedCall
  <2>8. CASE a = l /\ ends
    <3>1. text[p] = Newline /\ p < End
      BY <1>3, <2>8
    <3>2. IsChar(p, {Newline})
      <4>1. ~(p >= End)
        BY <1>1, <1>13, <3>1
      <4> QED
        BY <3>1, <4>1 DEF IsChar, AtEnd
    <3>3. PICK r, w : r = p + 1 /\ w = Command(cmd, read)
      OBVIOUS
    <3>4. pos' = r /\ pc' = "next" /\ log' = Append(log, <<n, w>>)
      BY <1>4, <2>1, <3>2, <3>3 DEF Execute, Done
    <3>5. script[n].class = "good" /\ Same(w, script[n].means)
      BY <2>3, <2>8, <3>3, RoundCompletes
    <3>6. EntryOK(n, w)
      BY <1>4, <2>8, <3>5 DEF EntryOK
    <3>7. r = StartOf(f, n + 1)
      <4>1. FileIs(f)
        BY DEF LinesInv
      <4>2. n \in 1..Len(script) /\ Terminated(n) /\ f[n + 1] = b + Len(t) + 2
        BY <1>4, <2>8, <4>1, NumberedLine DEF OnLine
      <4>3. StartOf(f, n + 1) = f[n + 1]
        BY <4>1, <4>2, StartNext
      <4>4. r = b + l + 2
        BY <1>3, <2>8, <3>3
      <4> QED
        BY <1>2, <4>2, <4>3, <4>4
    <3>8. r \in Nat /\ r > f[n]
      <4>1. f[n] < y /\ f[n] \in Nat
        BY <1>4, <1>6
      <4>2. r \in Nat /\ r > y
        BY <1>8, <1>9, <3>3
      <4> QED
        BY <1>8, <4>1, <4>2
    <3>9. CallRight(f, n, r, w)
      BY <3>5, <3>6, <3>7, <3>8 DEF CallRight
    <3> QED
      BY <1>4, <3>4, <3>9, CallDone
  <2> QED
    BY <1>3, <2>6, <2>7, <2>8
<1>18. Len(read) < MAX_WRITE_SIZE \/ Len(read) = MAX_WRITE_SIZE
  BY <1>6, <1>7
<1> QED
  BY <1>15, <1>16, <1>17, <1>18

-----------------------------------------------------------------------------
(* The rounds.                                                             *)
LEMMA OneMore ==
  ASSUME NEW k \in Nat, NEW i \in 1..(k + 1)
  PROVE  i \in 1..k \/ i = k + 1
OBVIOUS

\* cleanup passes over the line after n as well.
LosesNext(f, n, p) == cleanup(p) = StartOf(f, n + 2)

LEMMA CleanupPast ==
  ASSUME NEW f, FileIs(f), NEW n, NEW s, NEW t, NEW b, NEW ends, OnLine(f, n, s, t, b, ends), ends,
         NEW p, p = b + Len(t) + 2
  PROVE  LosesNext(f, n, p)
<1>1. n \in LineNumbers /\ Terminated(n) /\ f[n + 1] = p
  BY DEF OnLine
<1>2. n \in 1..Len(script) /\ Len(script) \in Nat
  BY <1>1, NumberedLine
<1>3. PICK k : k = n + 1
  OBVIOUS
<1>4. k \in 1..(Len(script) + 1) /\ k + 1 = n + 2
  BY <1>2, <1>3
<1>5. StartOf(f, k) = p
  BY <1>1, <1>2, <1>3, StartNext
<1>6. cleanup(StartOf(f, k)) = StartOf(f, k + 1)
  BY <1>4, CleanupAtStart
<1> QED
  BY <1>4, <1>5, <1>6 DEF LosesNext

\* One element more, the others as they were.
IsAppended(longer, seq, last) ==
  /\ Len(seq) \in Nat /\ Len(longer) = Len(seq) + 1 /\ longer[Len(seq) + 1] = last
  /\ \A i \in 1..Len(seq) : longer[i] = seq[i]

LEMMA Appended ==
  ASSUME NEW S, NEW seq \in Seq(S), NEW last
  PROVE  IsAppended(Append(seq, last), seq, last)
<1>1. PICK T : T = S \cup {last}
  OBVIOUS
<1>2. seq \in Seq(T) /\ last \in T
  BY <1>1, WiderSeq
<1> QED
  BY <1>2, AppendProperties, LenProperties DEF IsAppended

LEMMA ItemTaken ==
  ASSUME ParserInv, pc = "list", cmd \in WithList,
         NEW f, NEW n, NEW s, NEW t, NEW b, NEW ends, OnLine(f, n, s, t, b, ends),
         NEW j \in Stops(t), Reaches(cmd, t, j), EndsItem(cmd, t, j),
         NEW a, a = After(cmd, j), a \in 1..Len(t),
         t[a] \in {IF cmd = "WRITE" THEN "(" ELSE ",", "]"}, b + a + 1 \in pos..End,
         Len(args) = ItemsBefore(cmd, t, j),
         script[n].class = "good" => \A i \in 1..Len(args) : args[i] = script[n].means.args[i],
         NEW item, item = Item(cmd, t, j), \A str \in ToSet(item) : Len(str) < MAX_STRING_SIZE
  PROVE  ItemRead(f, n, t, b, j, a, Append(args, item))
<1>1. PICK read : read = Append(args, item)
  OBVIOUS
<1>2. (\E S : read \in Seq(S)) /\ Len(read) \in 1..MAX_WRITE_SIZE
  BY <1>1, RoundReads
<1>3. PICK S : args \in Seq(S)
  BY DEF ParserInv, ArgsOK
<1>4. IsAppended(Append(args, item), args, item)
  BY <1>3, Appended
<1>5. IsAppended(read, args, item)
  BY <1>1, <1>4
<1>6. PICK k : k = Len(args)
  OBVIOUS
<1>7. /\ k \in Nat /\ Len(read) = k + 1 /\ read[k + 1] = item
      /\ \A i \in 1..k : read[i] = args[i]
  BY <1>5, <1>6 DEF IsAppended
<1>8. j \in ItemEnds(cmd, t)
  BY DEF EndsItem
<1>9. ASSUME script[n].class = "good"
      PROVE  \A i \in 1..(k + 1) : read[i] = script[n].means.args[i]
  <2>1. PICK m : m = script[n].means.args
    OBVIOUS
  <2>2. IsList(cmd, t, m)
    <3>1. cmd # "WAIT"
      BY DEF WithList
    <3> QED
      BY <1>9, <2>1, <3>1, ClassOfCall
  <2>3. m[k + 1] = item
    BY <1>6, <1>8, <2>2 DEF IsList
  <2>4. \A i \in 1..k : read[i] = m[i]
    BY <1>6, <1>7, <1>9, <2>1
  <2>5. \A i \in 1..(k + 1) : i \in 1..k \/ i = k + 1
    <3>1. k \in Nat
      BY <1>7
    <3> QED
      BY <3>1, OneMore
  <2> QED
    BY <1>7, <2>1, <2>3, <2>4, <2>5
<1>10. Len(read) = ItemsBefore(cmd, t, j) + 1
  BY <1>6, <1>7
<1>11. ItemRead(f, n, t, b, j, a, read)
  BY <1>2, <1>7, <1>9, <1>10 DEF ItemRead
<1> QED
  BY <1>1, <1>11

\* The string that ends at j is next.
AtString(n, t, b, j) ==
  /\ j \in Places(t) /\ Reaches(cmd, t, j) /\ StringAt(cmd, t, j) <= j
  /\ pos = b + StringAt(cmd, t, j) /\ StringAt(cmd, t, j) \in Nat /\ Previous(t, j) \in Nat
  /\ cmd = "WRITE" => t[Previous(t, j)] # ","
  /\ Len(args) = ItemsBefore(cmd, t, j)
  /\ script[n].class = "good" => \A i \in 1..Len(args) : args[i] = script[n].means.args[i]

LEMMA ListAtString ==
  ASSUME NEW f, NEW n, NEW s, NEW t, NEW b, NEW ends, OnLine(f, n, s, t, b, ends),
         NEW j, ListAt(f, j)
  PROVE  AtString(n, t, b, j)
<1>1. /\ n = line /\ s = script[n].chars /\ t = Rest(cmd, s) /\ t \in Seq(Character) /\ b \in Nat
      /\ b = f[n] + Len(Keyword[cmd]) - 1
  BY DEF OnLine
<1>2. /\ j \in Places(t) /\ Reaches(cmd, t, j) /\ StringAt(cmd, t, j) <= j
      /\ pos = b + StringAt(cmd, t, j)
      /\ cmd = "WRITE" => t[Previous(t, j)] # ","
      /\ Len(args) = ItemsBefore(cmd, t, j)
      /\ script[n].class = "good" => \A i \in 1..Len(args) : args[i] = script[n].means.args[i]
  BY <1>1 DEF ListAt
<1>3. StringAt(cmd, t, j) \in Nat /\ Previous(t, j) \in Nat
  BY <1>1, <1>2, ListWithin
<1> QED
  BY <1>2, <1>3 DEF AtString

LEMMA ParseKeyLines ==
  ASSUME ParserInv, ParserInv', NEW f, LinesInv(f), ParseKey,
         script' = script, complete' = complete, text' = text
  PROVE  LinesInv(f)'
<1>1. pc = "list" /\ cmd \in {"READ", "DELETE"} /\ cmd \in WithList /\ cmd # "WRITE"
  BY DEF ParseKey, WithList
<1>2. text \in Seq(Character) /\ Len(text) \in Nat /\ End = Len(text) + 1 /\ pos \in 1..End
  BY InvFacts
<1>3. PICK n, s, t, b, ends : OnLine(f, n, s, t, b, ends)
  BY <1>1, CallOnLine
<1>4. PICK key : key = read_string(pos)
  OBVIOUS
<1>5. key.next \in pos..End /\ Len(key.str) < MAX_STRING_SIZE
  BY <1>2, <1>4, ReadStringEnds
<1>6. /\ key.at \notin {",", "]"} => Reject(cleanup(key.next))
      /\ key.at \in {",", "]"} => EndRound(Append(args, <<key.str>>), key.at = "]", key.next)
  BY <1>4 DEF ParseKey
<1>7. cleanup(key.next) \in pos..End
  BY <1>2, <1>5, SkippedLater
<1>8. CASE ~Known(n)
  <2>1. CASE key.at \notin {",", "]"}
    BY <1>3, <1>6, <1>7, <1>8, <2>1, UnknownRejected
  <2>2. CASE key.at \in {",", "]"}
    <3>1. PICK read, closed : EndRound(read, closed, key.next)
      BY <1>6, <2>2
    <3> QED
      BY <1>1, <1>3, <1>5, <1>8, <3>1, UnknownRound
  <2> QED
    BY <2>1, <2>2
<1>9. CASE Known(n)
  <2>1. n = line /\ t = Rest(cmd, script[line].chars) /\ t \in Seq(Character) /\ b \in Nat
    BY <1>3 DEF OnLine
  <2>2. PICK j : ListAt(f, j)
    BY <1>1, <1>9, <2>1 DEF LinesInv, ReadingOK
  <2>3. PICK i : i = StringAt(cmd, t, j)
    OBVIOUS
  <2>4. /\ j \in Places(t) /\ Reaches(cmd, t, j) /\ i <= j /\ pos = b + i /\ i \in Nat
        /\ Previous(t, j) \in Nat /\ Len(args) = ItemsBefore(cmd, t, j)
        /\ script[n].class = "good" => \A k \in 1..Len(args) : args[k] = script[n].means.args[k]
    <3>1. AtString(n, t, b, j)
      BY <1>3, <2>2, ListAtString
    <3> QED
      BY <2>3, <3>1 DEF AtString
  <2>5. MayEnd(cmd, t, j) = {",", "]"}
    BY <1>1, MayEndIs
  <2>6. CASE EndsString(cmd, t, j)
    <3>1. FoundAt(key, t, b, j)
      <4>1. FoundAt(read_string(b + StringAt(cmd, t, j)), t, b, j)
        BY <1>3, <2>3, <2>4, <2>6, StringFound
      <4> QED
        BY <1>4, <2>3, <2>4, <4>1
    <3>2. /\ key.at = t[j] /\ key.str = SubSeq(t, i, j - 1) /\ key.next = b + j + 1
          /\ j \in 1..Len(t) /\ t[j] \in {",", "]"}
      BY <2>3, <2>5, <3>1 DEF FoundAt
    <3>3. PICK item : item = <<key.str>>
      OBVIOUS
    <3>4. item = Item(cmd, t, j)
      <4>1. i = Previous(t, j) + 1
        BY <1>1, <2>3 DEF StringAt
      <4>2. Item(cmd, t, j) = <<SubSeq(t, i, j - 1)>>
        BY <1>1, <4>1 DEF Item
      <4> QED
        BY <3>2, <3>3, <4>2
    <3>5. j = After(cmd, j) /\ j \in Stops(t) /\ EndsItem(cmd, t, j)
      BY <1>1, <2>6 DEF After, EndsString, EndsItem, ItemEnds
    <3>6. \A str \in ToSet(item) : Len(str) < MAX_STRING_SIZE
      <4>1. ToSet(item) = {key.str}
        BY <3>3 DEF ToSet
      <4> QED
        BY <1>5, <4>1
    <3>7. b + j + 1 \in pos..End /\ t[j] \in {IF cmd = "WRITE" THEN "(" ELSE ",", "]"}
      BY <1>1, <1>5, <3>2
    <3>8. ItemRead(f, n, t, b, j, j, Append(args, item))
      BY <1>1, <1>3, <2>4, <3>2, <3>4, <3>5, <3>6, <3>7, ItemTaken
    <3>9. PICK p : p = key.next
      OBVIOUS
    <3>10. p = b + j + 1 /\ EndRound(Append(args, item), t[j] = "]", p)
      BY <1>6, <3>2, <3>3, <3>9
    <3> QED
      BY <1>1, <1>3, <1>9, <3>8, <3>10, RoundLines
  <2>7. CASE ~EndsString(cmd, t, j)
    <3>1. key = read_string(b + i)
      BY <1>4, <2>4
    <3>2. /\ ends /\ key.at \notin {",", "]"}
          /\ \/ key.next \in (b + 1)..(b + Len(t) + 1) /\ script[n].class = "bad"
             \/ key.next = b + Len(t) + 2 /\ script[n].class = "greedy"
      <4>1. key = read_string(b + StringAt(cmd, t, j)) /\ StringAt(cmd, t, j) <= j
        BY <2>3, <2>4, <3>1
      <4>2. /\ ends /\ key.at \notin MayEnd(cmd, t, j)
            /\ \/ /\ key.next \in (b + 1)..(b + Len(t) + 1)
                  /\ script[n].class = (IF cmd = "WRITE" THEN "greedy" ELSE "bad")
               \/ /\ cmd # "WRITE" /\ key.next = b + Len(t) + 2
                  /\ script[n].class = "greedy"
        BY <1>3, <1>9, <2>4, <2>7, <4>1, StringMissed
      <4> QED
        BY <1>1, <2>5, <4>2
    <3>3. Reject(cleanup(key.next))
      BY <1>6, <3>2
    <3>4. PICK p : p = key.next
      OBVIOUS
    <3>5. CASE p \in (b + 1)..(b + Len(t) + 1) /\ script[n].class = "bad"
      BY <1>3, <1>5, <3>3, <3>4, <3>5, RejectedBefore
    <3>6. CASE p = b + Len(t) + 2 /\ script[n].class = "greedy"
      <4>1. FileIs(f)
        BY DEF LinesInv
      <4>2. cleanup(p) = StartOf(f, n + 2)
        <5>1. LosesNext(f, n, p)
          BY <1>3, <3>2, <3>6, <4>1, CleanupPast
        <5> QED
          BY <5>1 DEF LosesNext
      <4> QED
        BY <1>3, <1>7, <3>3, <3>4, <3>6, <4>2, RejectedAtNewline
    <3> QED
      BY <3>2, <3>4, <3>5, <3>6
  <2> QED
    BY <2>6, <2>7
<1> QED
  BY <1>8, <1>9

LEMMA StopNumber ==
  ASSUME NEW t \in Seq(Character), NEW j \in Stops(t)
  PROVE  /\ j \in 1..Len(t) /\ j \in 0..Len(t) /\ j \in Nat
         /\ \A k : FirstAfter(t, j, k) => k \in Nat /\ j + 1 <= k
<1>1. /\ Stops(t) \subseteq 1..Len(t) /\ Len(t) \in Nat /\ Places(t) = Stops(t) \cup {Len(t) + 1}
  BY StopsAre DEF Places
<1>2. j \in 1..Len(t) /\ j \in Nat
  BY <1>1
<1>3. \A k : FirstAfter(t, j, k) => k \in Nat /\ j < k
  BY <1>1, <1>2 DEF FirstAfter
<1> QED
  BY <1>1, <1>2, <1>3

LEMMA SameItems ==
  ASSUME NEW t \in Seq(Character), NEW c, NEW j \in Stops(t), j \notin ItemEnds(c, t),
         NEW k, FirstAfter(t, j, k)
  PROVE  ItemsBefore(c, t, k) = ItemsBefore(c, t, j)
BY PlaceAfter

(* A pair: the key ends at a comma, and the value at the stop after it.    *)
LEMMA ValueNext ==
  ASSUME NEW t \in Seq(Character), cmd = "WRITE", NEW j \in Stops(t), Reaches(cmd, t, j), t[j] = ",",
         EndsString(cmd, t, j)
  PROVE  \E k \in Places(t) :
           /\ Reaches(cmd, t, k) /\ StringAt(cmd, t, k) = j + 1 /\ StringAt(cmd, t, k) <= k
           /\ Previous(t, k) = j /\ MayEnd(cmd, t, k) = {")"}
           /\ ItemsBefore(cmd, t, k) = ItemsBefore(cmd, t, j)
<1>1. j \in 0..Len(t) /\ j \in Nat
  BY StopNumber
<1>2. PICK k \in Places(t) : FirstAfter(t, j, k)
  BY <1>1, NextPlace
<1>3. j \notin ItemEnds(cmd, t)
  BY DEF ItemEnds
<1>4. Previous(t, k) = j /\ ItemsBefore(cmd, t, k) = ItemsBefore(cmd, t, j)
  <2>1. Previous(t, k) = j
    BY <1>2, PlaceAfter
  <2>2. ItemsBefore(cmd, t, k) = ItemsBefore(cmd, t, j)
    BY <1>2, <1>3, SameItems
  <2> QED
    BY <2>1, <2>2
<1>5. Reaches(cmd, t, k)
  <2>1. GoesOn(cmd, t, j)
    BY <1>3 DEF GoesOn
  <2> QED
    BY <1>2, <2>1, ReachesNext
<1>6. StringAt(cmd, t, k) = j + 1
  BY <1>4 DEF StringAt
<1>7. j + 1 <= k
  BY <1>2, StopNumber
<1>8. MayEnd(cmd, t, k) = {")"}
  BY <1>4, MayEndIs
<1>9. StringAt(cmd, t, k) <= k
  BY <1>6, <1>7
<1> QED
  BY <1>4, <1>5, <1>6, <1>8, <1>9

\* A pair that lacks its key or its value costs the next line too.
LEMMA PairMissed ==
  ASSUME ParserInv, ParserInv', NEW f, LinesInv(f), pc = "list", cmd = "WRITE",
         NEW n, NEW s, NEW t, NEW b, NEW ends, OnLine(f, n, s, t, b, ends), Known(n),
         NEW j \in Places(t), Reaches(cmd, t, j), StringAt(cmd, t, j) <= j, ~EndsString(cmd, t, j),
         NEW p, p = b + StringAt(cmd, t, j), NEW r, r = read_string(p), r.next \in pos..End,
         r.at \notin MayEnd(cmd, t, j) => Reject(cleanup(cleanup(r.next))),
         script' = script, complete' = complete, text' = text
  PROVE  LinesInv(f)'
<1>1. text \in Seq(Character) /\ Len(text) \in Nat /\ End = Len(text) + 1 /\ pos \in 1..End
  BY InvFacts
<1>2. r = read_string(b + StringAt(cmd, t, j))
  OBVIOUS
<1>3. /\ r.at \notin MayEnd(cmd, t, j)
      /\ r.next \in (b + 1)..(b + Len(t) + 1) /\ script[n].class = "greedy"
  BY <1>2, StringMissed
<1>4. PICK q : q = r.next
  OBVIOUS
<1>5. q \in pos..End /\ q \in (b + 1)..(b + Len(t) + 1) /\ Reject(cleanup(cleanup(q)))
  BY <1>3, <1>4
<1>6. cleanup(cleanup(q)) = StartOf(f, n + 2)
  BY <1>5, CleanupOfCall DEF LinesInv
<1>7. cleanup(cleanup(q)) \in pos..End
  <2>1. cleanup(q) \in pos..End
    BY <1>1, <1>5, SkippedLater
  <2>2. PICK x : x = cleanup(q)
    OBVIOUS
  <2>3. x \in pos..End
    BY <2>1, <2>2
  <2>4. cleanup(x) \in pos..End
    BY <1>1, <2>3, SkippedLater
  <2> QED
    BY <2>2, <2>4
<1> QED
  BY <1>3, <1>5, <1>6, <1>7, RejectedAtNewline

\* A pair that has both.
LEMMA PairEnds ==
  ASSUME ParserInv, ParserInv', NEW f, LinesInv(f), pc = "list", cmd = "WRITE",
         NEW n, NEW s, NEW t, NEW b, NEW ends, OnLine(f, n, s, t, b, ends), Known(n),
         NEW j \in Stops(t), Reaches(cmd, t, j), EndsItem(cmd, t, j),
         Len(args) = ItemsBefore(cmd, t, j),
         script[n].class = "good" => \A i \in 1..Len(args) : args[i] = script[n].means.args[i],
         NEW item, item = Item(cmd, t, j), \A str \in ToSet(item) : Len(str) < MAX_STRING_SIZE,
         NEW after, after = b + j + 1, after \in pos..End,
         ~IsChar(after, {"(", "]"}) => Reject(cleanup(Passed(after, 1))),
         IsChar(after, {"(", "]"}) => EndRound(Append(args, item), text[after] = "]", after + 1),
         script' = script, complete' = complete, text' = text
  PROVE  LinesInv(f)'
<1>1. text \in Seq(Character) /\ Len(text) \in Nat /\ End = Len(text) + 1 /\ pos \in 1..End
  BY InvFacts
<1>2. PICK l : l = Len(t)
  OBVIOUS
<1>3. /\ ends \in BOOLEAN /\ b \in Nat /\ l \in Nat /\ t \in Seq(Character)
      /\ \A i \in 1..l : text[b + i] = t[i] /\ t[i] # Newline
      /\ ends => b + l + 1 < End /\ text[b + l + 1] = Newline
      /\ ~ends => End = b + l + 1
      /\ b + l + 1 <= End
  BY <1>2 DEF OnLine, OnText
<1>4. PICK y, z : y = pos /\ z = End
  OBVIOUS
<1>5. j \in 1..l /\ j \in Places(t)
  BY <1>2, <1>3, StopsHold DEF Places
<1>6. b \in Nat /\ l \in Nat /\ z \in Nat /\ y \in 1..z /\ j \in 1..l
  BY <1>1, <1>3, <1>4, <1>5
<1>7. /\ after \in y..z /\ after = b + j + 1
      /\ (ends => b + l + 1 < z) /\ (~ends => z = b + l + 1) /\ b + l + 1 <= z
  BY <1>3, <1>4
<1>8. After(cmd, j) = j + 1
  BY DEF After
<1>9. PICK q : q = Passed(after, 1)
  OBVIOUS
<1>10. q \in y..z /\ q = (IF after + 1 <= z THEN after + 1 ELSE z) /\ cleanup(q) \in pos..End
  <2>1. after \in 1..End
    BY <1>4, <1>6, <1>7
  <2>2. q \in after..End /\ q = IF after + 1 <= End THEN after + 1 ELSE End
    BY <1>1, <1>9, <2>1, PassedIs
  <2>3. q \in y..z
    BY <1>4, <1>6, <1>7, <2>2
  <2>4. cleanup(q) \in pos..End
    BY <1>1, <1>4, <2>3, SkippedLater
  <2> QED
    BY <1>4, <2>2, <2>3, <2>4
<1>11. CASE j = l
  <2>1. ~IsChar(after, {"(", "]"})
    <3>1. ends => text[after] = Newline
      BY <1>3, <1>11
    <3>2. Newline \notin {"(", "]"}
      BY DEF Newline
    <3>3. ~ends => after >= End
      BY <1>4, <1>6, <1>7, <1>11
    <3> QED
      BY <1>3, <3>1, <3>2, <3>3 DEF IsChar, AtEnd
  <2>2. Reject(cleanup(q))
    BY <1>9, <2>1
  <2>3. script[n].class \in {"greedy", "other"} \/ ~ends
    <3>1. ~GoesOn(cmd, t, j) /\ ~Completes(cmd, t, j) /\ ~FailsBefore(cmd, t, j)
      <4>1. ~(After(cmd, j) <= Len(t)) /\ After(cmd, j) # Len(t)
        BY <1>2, <1>6, <1>8, <1>11
      <4>2. j \in ItemEnds(cmd, t)
        BY DEF EndsItem
      <4> QED
        BY <4>1, <4>2 DEF GoesOn, Completes, FailsBefore
    <3> QED
      BY <1>5, <3>1, KnownFault
  <2>4. ends => q = b + l + 2
    BY <1>6, <1>7, <1>10, <1>11
  <2>5. ends => cleanup(q) = StartOf(f, n + 2)
    <3> SUFFICES ASSUME ends
                 PROVE  cleanup(q) = StartOf(f, n + 2)
      OBVIOUS
    <3>1. FileIs(f) /\ q = b + Len(t) + 2
      BY <1>2, <2>4 DEF LinesInv
    <3>2. LosesNext(f, n, q)
      BY <3>1, CleanupPast
    <3> QED
      BY <3>2 DEF LosesNext
  <2> QED
    BY <1>10, <2>2, <2>3, <2>5, RejectedAtNewline
<1>12. CASE j # l
  <2>1. j + 1 \in 1..l /\ after < z /\ ~(after >= z)
    BY <1>6, <1>7, <1>12
  <2>2. text[after] = t[j + 1]
    <3>1. PICK i : i = j + 1
      OBVIOUS
    <3>2. i \in 1..l /\ b + i = after
      BY <1>6, <1>7, <2>1, <3>1
    <3> QED
      BY <1>3, <3>1, <3>2
  <2>3. IsChar(after, {"(", "]"}) <=> t[j + 1] \in {"(", "]"}
    BY <1>4, <2>1, <2>2 DEF IsChar, AtEnd
  <2>4. q = after + 1 /\ q \in (b + 1)..(b + l + 1)
    BY <1>6, <1>7, <1>10, <1>12
  <2>5. CASE t[j + 1] \notin {"(", "]"}
    <3>1. Reject(cleanup(q))
      BY <1>9, <2>3, <2>5
    <3>2. script[n].class = "bad"
      <4>1. j \in ItemEnds(cmd, t) /\ EndsString(cmd, t, j)
        BY DEF EndsItem
      <4>2. ~GoesOn(cmd, t, j) /\ ~Completes(cmd, t, j)
        BY <1>8, <2>5, <4>1 DEF GoesOn, Completes
      <4>3. ~FailsAtNewline(cmd, t, j)
        <5>1. ~NoString(cmd, t, j)
          BY <4>1 DEF EndsString
        <5> QED
          BY <1>2, <1>12, <5>1 DEF FailsAtNewline
      <4> QED
        BY <1>5, <4>2, <4>3, KnownFault
    <3>3. q \in pos..End
      BY <1>4, <1>10
    <3> QED
      BY <1>2, <2>4, <3>1, <3>2, <3>3, RejectedBefore
  <2>6. CASE t[j + 1] \in {"(", "]"}
    <3>1. PICK a, read, p : a = j + 1 /\ read = Append(args, item) /\ p = after + 1
      OBVIOUS
    <3>2. EndRound(read, t[a] = "]", p)
      BY <2>2, <2>3, <2>6, <3>1
    <3>3. cmd \in WithList
      BY DEF WithList
    <3>4. a = After(cmd, j) /\ a \in 1..Len(t) /\ t[a] \in {IF cmd = "WRITE" THEN "(" ELSE ",", "]"}
      BY <1>2, <1>8, <2>1, <2>6, <3>1
    <3>5. p = b + a + 1 /\ p \in y..z
      BY <1>6, <1>7, <2>1, <3>1
    <3>6. b + a + 1 \in pos..End
      BY <1>4, <3>5
    <3>7. ItemRead(f, n, t, b, j, a, Append(args, item))
      BY <3>3, <3>4, <3>6, ItemTaken
    <3>8. ItemRead(f, n, t, b, j, a, read)
      BY <3>1, <3>7
    <3> QED
      BY <3>2, <3>3, <3>5, <3>8, RoundLines
  <2> QED
    BY <2>5, <2>6
<1> QED
  BY <1>11, <1>12

LEMMA ParsePairLines ==
  ASSUME ParserInv, ParserInv', NEW f, LinesInv(f), ParsePair,
         script' = script, complete' = complete, text' = text
  PROVE  LinesInv(f)'
<1>1. pc = "list" /\ cmd = "WRITE"
  BY DEF ParsePair
<1>2. text \in Seq(Character) /\ Len(text) \in Nat /\ End = Len(text) + 1 /\ pos \in 1..End
  BY InvFacts
<1>3. PICK n, s, t, b, ends : OnLine(f, n, s, t, b, ends)
  BY <1>1, CallOnLine
<1>4. PICK key, next : key = read_string(pos) /\ next = key.next
  OBVIOUS
<1>5. PICK value, after : value = read_string(next) /\ after = value.next
  OBVIOUS
<1>6. next \in pos..End /\ Len(key.str) < MAX_STRING_SIZE
  BY <1>2, <1>4, ReadStringEnds
<1>7. after \in pos..End /\ Len(value.str) < MAX_STRING_SIZE
  <2>1. next \in 1..End
    BY <1>2, <1>6
  <2>2. after \in next..End /\ Len(value.str) < MAX_STRING_SIZE
    BY <1>2, <1>5, <2>1, ReadStringEnds
  <2> QED
    BY <1>2, <1>6, <2>2
<1>8. PICK item : item = <<key.str, value.str>>
  OBVIOUS
<1>9. /\ key.at # "," => Reject(cleanup(cleanup(next)))
      /\ key.at = "," /\ value.at # ")" => Reject(cleanup(cleanup(after)))
      /\ key.at = "," /\ value.at = ")" =>
           /\ ~IsChar(after, {"(", "]"}) => Reject(cleanup(Passed(after, 1)))
           /\ IsChar(after, {"(", "]"}) => EndRound(Append(args, item), text[after] = "]", after + 1)
  BY <1>4, <1>5, <1>8 DEF ParsePair
<1>10. \A x \in pos..End : cleanup(x) \in pos..End /\ Passed(x, 1) \in pos..End
  BY <1>2, SkippedLater
<1>11. CASE ~Known(n)
  <2>1. ASSUME NEW x \in pos..End, Reject(x)
        PROVE  LinesInv(f)'
    BY <1>3, <1>11, <2>1, UnknownRejected
  <2>2. /\ cleanup(cleanup(next)) \in pos..End
        /\ cleanup(cleanup(after)) \in pos..End
        /\ cleanup(Passed(after, 1)) \in pos..End
    BY <1>6, <1>7, <1>10
  <2>3. ASSUME IsChar(after, {"(", "]"}), EndRound(Append(args, item), text[after] = "]", after + 1)
        PROVE  LinesInv(f)'
    <3>1. PICK read, closed, p : EndRound(read, closed, p) /\ p = after + 1
      BY <2>3
    <3>2. p \in pos..End
      <4>1. ~(after >= End)
        BY <2>3 DEF IsChar, AtEnd
      <4> QED
        BY <1>2, <1>7, <3>1, <4>1
    <3> QED
      BY <1>1, <1>3, <1>11, <3>1, <3>2, UnknownRound
  <2> QED
    BY <1>9, <2>1, <2>2, <2>3
<1>12. CASE Known(n)
  <2>1. n = line /\ t = Rest(cmd, script[line].chars) /\ t \in Seq(Character) /\ b \in Nat
    BY <1>3 DEF OnLine
  <2>2. PICK j : ListAt(f, j)
    BY <1>1, <1>12, <2>1 DEF LinesInv, ReadingOK
  <2>3. AtString(n, t, b, j)
    BY <1>3, <2>2, ListAtString
  <2>4. PICK i : i = StringAt(cmd, t, j)
    OBVIOUS
  <2>5. /\ j \in Places(t) /\ Reaches(cmd, t, j) /\ i <= j /\ pos = b + i /\ i \in Nat
        /\ t[Previous(t, j)] # "," /\ Len(args) = ItemsBefore(cmd, t, j)
        /\ script[n].class = "good" => \A k \in 1..Len(args) : args[k] = script[n].means.args[k]
    BY <1>1, <2>3, <2>4 DEF AtString
  <2>6. MayEnd(cmd, t, j) = {","}
    BY <1>1, <2>5, MayEndIs
  <2>7. CASE ~EndsString(cmd, t, j)
    <3>1. key.at \notin MayEnd(cmd, t, j) => Reject(cleanup(cleanup(key.next)))
      BY <1>4, <1>9, <2>6
    <3>2. key.next \in pos..End /\ pos = b + StringAt(cmd, t, j) /\ StringAt(cmd, t, j) <= j
      BY <1>4, <1>6, <2>4, <2>5
    <3> QED
      BY <1>1, <1>3, <1>4, <1>12, <2>5, <2>7, <3>1, <3>2, PairMissed
  <2>8. CASE EndsString(cmd, t, j)
    <3>1. FoundAt(key, t, b, j)
      <4>1. FoundAt(read_string(b + StringAt(cmd, t, j)), t, b, j)
        BY <1>3, <2>4, <2>5, <2>8, StringFound
      <4> QED
        BY <1>4, <2>4, <2>5, <4>1
    <3>2. key.at = t[j] /\ key.str = SubSeq(t, i, j - 1) /\ key.next = b + j + 1 /\ t[j] = ","
      BY <2>4, <2>6, <3>1 DEF FoundAt
    <3>3. key.at = "," /\ key.str = SubSeq(t, i, j - 1) /\ next = b + j + 1 /\ t[j] = ","
      BY <1>4, <3>2
    <3>4. j \in Stops(t)
      BY <2>8 DEF EndsString
    <3>5. PICK k \in Places(t) :
             /\ Reaches(cmd, t, k) /\ StringAt(cmd, t, k) = j + 1 /\ StringAt(cmd, t, k) <= k
             /\ Previous(t, k) = j /\ MayEnd(cmd, t, k) = {")"}
             /\ ItemsBefore(cmd, t, k) = ItemsBefore(cmd, t, j)
      BY <1>1, <2>1, <2>5, <2>8, <3>3, <3>4, ValueNext
    <3>6. next = b + StringAt(cmd, t, k)
      <4>1. j \in Nat
        BY <2>1, <3>4, StopNumber
      <4>2. PICK c : c = StringAt(cmd, t, k)
        OBVIOUS
      <4>3. c = j + 1
        BY <3>5, <4>2
      <4>4. b + c = b + j + 1
        BY <2>1, <4>1, <4>3
      <4> QED
        BY <3>3, <4>2, <4>4
    <3>7. CASE ~EndsString(cmd, t, k)
      <4>1. value.at \notin MayEnd(cmd, t, k) => Reject(cleanup(cleanup(value.next)))
        BY <1>5, <1>9, <3>3, <3>5
      <4>2. value.next \in pos..End
        BY <1>5, <1>7
      <4> QED
        BY <1>1, <1>3, <1>5, <1>12, <3>5, <3>6, <3>7, <4>1, <4>2, PairMissed
    <3>8. CASE EndsString(cmd, t, k)
      <4>1. FoundAt(value, t, b, k)
        <5>1. FoundAt(read_string(b + StringAt(cmd, t, k)), t, b, k)
          BY <1>3, <3>5, <3>8, StringFound
        <5> QED
          BY <1>5, <3>6, <5>1
      <4>2. value.at = t[k] /\ value.str = SubSeq(t, j + 1, k - 1) /\ value.next = b + k + 1 /\ t[k] = ")"
        BY <3>5, <4>1 DEF FoundAt
      <4>3. value.at = ")" /\ value.str = SubSeq(t, j + 1, k - 1) /\ after = b + k + 1 /\ t[k] = ")"
        BY <1>5, <4>2
      <4>4. k \in Stops(t) /\ EndsItem(cmd, t, k)
        <5>1. k \in Stops(t)
          BY <3>8 DEF EndsString
        <5>2. k \in ItemEnds(cmd, t)
          BY <1>1, <4>3, <5>1 DEF ItemEnds, Stops
        <5> QED
          BY <3>8, <5>1, <5>2 DEF EndsItem
      <4>5. item = Item(cmd, t, k)
        <5>1. i = Previous(t, j) + 2
          BY <1>1, <2>4, <2>5 DEF StringAt
        <5>2. Item(cmd, t, k) = <<SubSeq(t, i, j - 1), SubSeq(t, j + 1, k - 1)>>
          BY <1>1, <3>5, <5>1 DEF Item
        <5> QED
          BY <1>8, <3>3, <4>3, <5>2
      <4>6. \A str \in ToSet(item) : Len(str) < MAX_STRING_SIZE
        <5>1. ToSet(item) = {key.str, value.str}
          BY <1>8 DEF ToSet
        <5> QED
          BY <1>6, <1>7, <5>1
      <4>7. /\ ~IsChar(after, {"(", "]"}) => Reject(cleanup(Passed(after, 1)))
            /\ IsChar(after, {"(", "]"}) => EndRound(Append(args, item), text[after] = "]", after + 1)
        BY <1>9, <3>3, <4>3
      <4>8. /\ Len(args) = ItemsBefore(cmd, t, k)
            /\ script[n].class = "good" => \A m \in 1..Len(args) : args[m] = script[n].means.args[m]
        BY <2>5, <3>5
      <4> QED
        BY <1>1, <1>3, <1>7, <1>12, <3>5, <4>3, <4>4, <4>5, <4>6, <4>7, <4>8, PairEnds
    <3> QED
      BY <3>7, <3>8
  <2> QED
    BY <2>7, <2>8
<1> QED
  BY <1>11, <1>12

-----------------------------------------------------------------------------
(* The lines of any file.                                                  *)
LinesHold == \E f : LinesInv(f)

LEMMA InitLines == Init => LinesHold
<1> SUFFICES ASSUME Init
             PROVE  LinesHold
  OBVIOUS
<1>1. PICK f : FileIs(f)
  BY InitFile
<1>2. pos = 1 /\ pc = "next" /\ log = <<>>
  BY DEF Init
<1>3. Begun = {} /\ DOMAIN log = {}
  <2>1. DOMAIN log = {}
    BY <1>2
  <2> QED
    BY <2>1 DEF Begun
<1>4. f[1] = 1 /\ 1 \in 1..Len(script) /\ 1 \in 1..(Len(script) + 1)
  <2>1. f[1] = 1 /\ Len(script) \in Nat \ {0}
    BY <1>1 DEF FileIs
  <2>2. PICK m : m = Len(script)
    OBVIOUS
  <2>3. 1 \in 1..m /\ 1 \in 1..(m + 1)
    BY <2>1, <2>2
  <2> QED
    BY <2>1, <2>2, <2>3
<1>5. Here(f) = 1
  BY <1>2 DEF Here
<1>6. \A n : Due(n) => n = 1
  BY <1>3 DEF Due
<1>7. OrderOK(f)
  BY <1>3, <1>4, <1>5, <1>6 DEF OrderOK
<1>8. ReadingOK(f)
  <2>1. pos = StartOf(f, 1)
    BY <1>2, <1>4 DEF StartOf
  <2>2. pc # "done" /\ pc \notin {"open", "list"} /\ pc # "open" /\ pc # "list"
    BY <1>2
  <2> QED
    BY <1>4, <2>1, <2>2 DEF ReadingOK
<1>9. LogOK
  BY <1>3 DEF LogOK
<1> QED
  BY <1>1, <1>7, <1>8, <1>9 DEF LinesInv, LinesHold

LEMMA StutterLines ==
  ASSUME NEW f, LinesInv(f), UNCHANGED vars
  PROVE  LinesInv(f)'
<1>1. /\ script' = script /\ complete' = complete /\ text' = text /\ pos' = pos /\ pc' = pc
      /\ cmd' = cmd /\ args' = args /\ line' = line /\ log' = log
  BY DEF vars
<1>2. /\ LineNumbers' = LineNumbers /\ End' = End
      /\ \A n : Known(n)' <=> Known(n)
      /\ \A k : StartOf(f, k)' = StartOf(f, k)
  BY <1>1, SameFile DEF LinesInv
<1>3. Here(f)' = Here(f)
  BY <1>1 DEF Here
<1>4. \A j : ListAt(f, j)' <=> ListAt(f, j)
  BY <1>1 DEF ListAt
<1>5. ReadingOK(f)'
  BY <1>1, <1>2, <1>4 DEF ReadingOK, LinesInv
<1> QED
  BY <1>1, <1>3, <1>5, CallGoingOn

LEMMA ParseLines ==
  ASSUME ParserInv, ParserInv', NEW f, LinesInv(f), Parse, UNCHANGED <<script, complete, text>>
  PROVE  LinesInv(f)'
<1>1. script' = script /\ complete' = complete /\ text' = text
  OBVIOUS
<1>2. CASE EndOfCommands
  BY <1>1, <1>2, EndOfCommandsLines
<1>3. CASE NextCommand
  BY <1>1, <1>3, NextCommandLines
<1>4. CASE NoCommand
  BY <1>1, <1>4, NoCommandLines
<1>5. CASE OpenList
  BY <1>1, <1>5, OpenListLines
<1>6. CASE ParsePair
  BY <1>1, <1>6, ParsePairLines
<1>7. CASE ParseKey
  BY <1>1, <1>7, ParseKeyLines
<1>8. CASE ParseWait
  BY <1>1, <1>8, ParseWaitLines
<1> QED
  BY <1>2, <1>3, <1>4, <1>5, <1>6, <1>7, <1>8 DEF Parse

LEMMA LinesInvariant == Spec => []LinesHold
<1>1. ParserInv /\ ParserInv' /\ LinesHold /\ [Next]_vars => LinesHold'
  <2> SUFFICES ASSUME ParserInv, ParserInv', LinesHold, [Next]_vars
               PROVE  LinesHold'
    OBVIOUS
  <2>1. PICK f : LinesInv(f)
    BY DEF LinesHold
  <2>2. LinesInv(f)'
    <3>1. CASE UNCHANGED vars
      BY <2>1, <3>1, StutterLines
    <3>2. CASE Parse /\ UNCHANGED <<script, complete, text>>
      BY <2>1, <3>2, ParseLines
    <3> QED
      BY <3>1, <3>2 DEF Next
  <2> QED
    BY <2>2 DEF LinesHold
<1> QED
  BY InitLines, ParserInvariant, <1>1, PTL DEF Spec

(* When the file has been read, each line taken for a command has been     *)
(* executed exactly as written, and a faulty one not at all.               *)
THEOREM LinesExecutedAsWritten == Spec => []ExecutedAsWritten
<1>1. LinesHold => ExecutedAsWritten
  BY DEF LinesHold, LinesInv, LogOK, EntryOK, ExecutedAsWritten
<1> QED
  BY <1>1, LinesInvariant, PTL

(* After a command and after an error that shows before the newline, the   *)
(* very next line is taken.                                                *)
THEOREM FaultyLineAlone == Spec => []RejectedAlone
<1>1. LinesHold => RejectedAlone
  <2> SUFFICES ASSUME LinesHold, pc = "done", NEW n \in LineNumbers, Due(n)
               PROVE  n \in Begun
    BY DEF RejectedAlone, Due
  <2>1. PICK f : LinesInv(f)
    BY DEF LinesHold
  <2>2. f[n] \in Nat /\ f[n] < End
    BY <2>1, NumberedLine DEF LinesInv
  <2>3. Here(f) = End
    BY <2>1 DEF LinesInv, ReadingOK, Here
  <2>4. n \in Begun \/ Here(f) = f[n]
    BY <2>1 DEF LinesInv, OrderOK
  <2> QED
    BY <2>2, <2>3, <2>4
<1> QED
  BY <1>1, LinesInvariant, PTL

(* An error that is noticed with the newline costs one more line, and not  *)
(* the one after it.                                                       *)
THEOREM GreedyLineCostsOne == Spec => []OneLineLost
<1>1. LinesHold => OneLineLost
  <2> SUFFICES ASSUME LinesHold, pc = "done", NEW n \in Begun,
                      script[n].class = "greedy", n + 1 \in LineNumbers
               PROVE  /\ n + 1 \notin Begun
                      /\ n + 2 \in LineNumbers => n + 2 \in Begun
    BY DEF OneLineLost
  <2>1. PICK f : LinesInv(f)
    BY DEF LinesHold
  <2>2. Here(f) = End
    BY <2>1 DEF LinesInv, ReadingOK, Here
  <2>3. /\ n + 1 \notin Begun
        /\ n + 2 \in LineNumbers => n + 2 \in Begun \/ Here(f) = f[n + 2]
    BY <2>1 DEF LinesInv, OrderOK
  <2>4. ASSUME n + 2 \in LineNumbers
        PROVE  f[n + 2] # Here(f)
    <3>1. f[n + 2] \in Nat /\ f[n + 2] < End
      BY <2>1, <2>4, NumberedLine DEF LinesInv
    <3> QED
      BY <2>2, <3>1
  <2> QED
    BY <2>3, <2>4
<1> QED
  BY <1>1, LinesInvariant, PTL
=============================================================================

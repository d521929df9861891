----------------------------- MODULE InputText -----------------------------
(***************************************************************************)
(* What server/parser.c and client/parser.c share: a text of characters    *)
(* that is read from left to right, and the static functions that both     *)
(* files have in the same words.  Each operator takes the position where   *)
(* the reading begins and says where it ends.                              *)
(***************************************************************************)
EXTENDS Naturals, Sequences, SequencesExt, FiniteSets, FiniteSetsExt, TLC

CONSTANTS
  UINT_MAX,
  StaleDigits       \* what may stand in read_uint's buffer after the last digit read

ASSUME TextAssumption == UINT_MAX \in Nat /\ <<>> \in StaleDigits

VARIABLE text       \* the characters of the input

Chars(s) == [i \in 1..Len(s) |-> SubSeq(s, i, i)]
Newline == "\n"

End == Len(text) + 1      \* the position of the end of the input

\* The first position from p on with one of these characters, or the end.
Seek(p, chars) == Min({i \in p..Len(text) : text[i] \in chars} \cup {End})

AtEnd(p) == p >= End
IsChar(p, chars) == ~AtEnd(p) /\ text[p] \in chars
Passed(p, n) == Min({p + n, End})

\* The word stands at p.
Matches(p, word) == p + Len(word) <= End /\ SubSeq(text, p, p + Len(word) - 1) = word

LineOf(p) == 1 + Cardinality({i \in 1..(p - 1) : text[i] = Newline})

\* Faulty: the newline is left to the next reader.
cleanup_short(p) == Seek(p, {Newline})

cleanup(p) == Passed(Seek(p, {Newline}), 1)

Digits == {"0", "1", "2", "3", "4", "5", "6", "7", "8", "9"}
Decimal(n) == Chars(ToString(n))
Number(ds) ==
  FoldLeft(LAMBDA v, d : 10 * v + (CHOOSE n \in 0..9 : ToString(n) = d), 0, ds)

\* read_uint stops at the first other character.  At the end of the input it
\* does not terminate its buffer, and the number goes on with what is there.
\* (Its buffer holds 16 characters: longer numbers are outside this model.)
read_uint(p) ==
  LET stop == Min({i \in p..Len(text) : text[i] \notin Digits} \cup {End})
      ds   == SubSeq(text, p, stop - 1)
  IN  [ numbers |-> IF AtEnd(stop) THEN {Number(ds \o g) : g \in StaleDigits} ELSE {Number(ds)},
        stop    |-> stop ]

\* A line of an input, with what its author meant: a command, or nothing.
Command(name, arguments) == [name |-> name, args |-> arguments]
Rejected == Command("rejected", <<>>)
Skipped  == Command("skipped", <<>>)     \* an empty line or a comment

Line(class, chars, means) == [class |-> class, chars |-> chars, means |-> means]
LinesOf(class, lines) == {Line(class, l, Rejected) : l \in lines}

Ended(lines) == FlattenSeq([i \in DOMAIN lines |-> lines[i].chars \o <<Newline>>])

Same(what, meant) == what.name = meant.name /\ what.args = meant.args
=============================================================================

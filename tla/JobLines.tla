------------------------------ MODULE JobLines ------------------------------
(***************************************************************************)
(* The lines of the job files: what the parser is to take each of them     *)
(* for, and how far it may come with it before an error shows.             *)
(***************************************************************************)
EXTENDS InputText

CONSTANTS
  Commands,         \* commands a job may be written with, records [name, args]: args is a
                    \* sequence of pairs, or of 1-tuples with a name or a number
  BadLines,         \* lines whose error shows before their newline
  GreedyLines,      \* lines whose error takes the line after them as well
  OtherLines,       \* lines whose error may take more
  MAX_STRING_SIZE,  \* a name is shorter
  MAX_WRITE_SIZE    \* a command has fewer names or pairs

Keyword == [ WRITE  |-> <<"W", "R", "I", "T", "E", " ">>, READ |-> <<"R", "E", "A", "D", " ">>,
             DELETE |-> <<"D", "E", "L", "E", "T", "E", " ">>, WAIT |-> <<"W", "A", "I", "T", " ">>,
             SHOW   |-> <<"S", "H", "O", "W">>, HELP |-> <<"H", "E", "L", "P">>,
             BACKUP |-> <<"B", "A", "C", "K", "U", "P">> ]

Bare == {"SHOW", "HELP", "BACKUP"}

\* How many characters get_next reads to find out that no command stands
\* there, depending on the first.
ReadSize(first) ==
  Max({1} \cup {Len(Keyword[c]) : c \in {d \in DOMAIN Keyword : Keyword[d][1] = first}})

-----------------------------------------------------------------------------
(* A line is a command written as the help text says, or one of the given  *)
(* faulty ones.                                                            *)

Joined(names, separator) ==
  FlattenSeq([i \in DOMAIN names |-> IF i = 1 THEN names[i] ELSE separator \o names[i]])

Pair(p) == <<"(">> \o p[1] \o <<",">> \o p[2] \o <<")">>

Written(c) ==
  CASE c.name = "WRITE" ->
         Keyword.WRITE \o <<"[">> \o FlattenSeq([i \in DOMAIN c.args |-> Pair(c.args[i])]) \o <<"]">>
    [] c.name \in {"READ", "DELETE"} ->
         Keyword[c.name] \o <<"[">> \o Joined([i \in DOMAIN c.args |-> c.args[i][1]], <<",">>) \o <<"]">>
    [] c.name = "WAIT" -> Keyword.WAIT \o c.args[1][1]
    [] OTHER -> Keyword[c.name]

Lines ==
  {Line("good", Written(c), c) : c \in Commands}
    \cup {Line("blank", l, Skipped) : l \in {<<>>, Chars("#W")}}
    \cup LinesOf("bad", BadLines)
    \cup LinesOf("greedy", GreedyLines)
    \cup LinesOf("other", OtherLines)

-----------------------------------------------------------------------------
(* What the class of a line says about it.  t is what follows the keyword  *)
(* of command c: a list goes from one delimiter to the next.               *)

CommandsOf(s) ==
  {c \in DOMAIN Keyword : IsPrefix(Keyword[c], s) /\ (c \in Bare => s = Keyword[c])}
Rest(c, s) == SubSeq(s, Len(Keyword[c]) + 1, Len(s))

WithList == {"WRITE", "READ", "DELETE"}

Opens(c, t) == t # <<>> /\ t[1] = "[" /\ (c = "WRITE" => Len(t) > 1 /\ t[2] = "(")

Stops(t) == {i \in DOMAIN t : t[i] \in {" ", ",", ")", "]"}}
Before(t, j) == {i \in Stops(t) : i < j}
Previous(t, j) == Max({1} \cup Before(t, j))

\* Where the string that ends before j begins, and the stops that may end it.
StringAt(c, t, j) ==
  Previous(t, j) + (IF c = "WRITE" /\ t[Previous(t, j)] # "," THEN 2 ELSE 1)
MayEnd(c, t, j) ==
  IF c # "WRITE" THEN {",", "]"} ELSE IF t[Previous(t, j)] = "," THEN {")"} ELSE {","}

TooLong(c, t, j) == j >= StringAt(c, t, j) + MAX_STRING_SIZE
NoString(c, t, j) == TooLong(c, t, j) \/ (j \in Stops(t) /\ t[j] \notin MayEnd(c, t, j))
EndsString(c, t, j) == j \in Stops(t) /\ ~NoString(c, t, j)

\* The stops at which a name or a pair ends, and the character that tells
\* whether another one follows.
ItemEnds(c, t) == IF c = "WRITE" THEN {i \in DOMAIN t : t[i] = ")"} ELSE Stops(t)
ItemsBefore(c, t, j) == Cardinality({i \in ItemEnds(c, t) : i < j})
EndsItem(c, t, j) == EndsString(c, t, j) /\ j \in ItemEnds(c, t)
After(c, j) == IF c = "WRITE" THEN j + 1 ELSE j
Room(c, t, j) == ItemsBefore(c, t, j) + 1 < MAX_WRITE_SIZE

Item(c, t, j) ==
  IF c # "WRITE" THEN <<SubSeq(t, Previous(t, j) + 1, j - 1)>>
  ELSE LET comma == Previous(t, j)
       IN  <<SubSeq(t, Previous(t, comma) + 2, comma - 1), SubSeq(t, comma + 1, j - 1)>>

\* What a list may do at j: go on, be complete, or show an error before the
\* newline or with it.
GoesOn(c, t, j) ==
  /\ EndsString(c, t, j)
  /\ j \in ItemEnds(c, t) =>
       /\ After(c, j) <= Len(t) /\ t[After(c, j)] = (IF c = "WRITE" THEN "(" ELSE ",")
       /\ Room(c, t, j)

Completes(c, t, j) ==
  EndsItem(c, t, j) /\ After(c, j) = Len(t) /\ t[After(c, j)] = "]" /\ Room(c, t, j)

FailsBefore(c, t, j) ==
  \/ c # "WRITE" /\ NoString(c, t, j)
  \/ EndsItem(c, t, j) /\ After(c, j) <= Len(t) /\ ~GoesOn(c, t, j) /\ ~Completes(c, t, j)

FailsAtNewline(c, t, j) ==
  \/ c = "WRITE" /\ NoString(c, t, j)
  \/ c = "WRITE" /\ EndsItem(c, t, j) /\ j = Len(t)
  \/ c # "WRITE" /\ j = Len(t) + 1 /\ j + 1 = StringAt(c, t, j) + MAX_STRING_SIZE

\* It goes on until it comes to j.
Reaches(c, t, j) ==
  c \in WithList /\ Opens(c, t) /\ \A i \in Before(t, j) : GoesOn(c, t, i)

Places(t) == Stops(t) \cup {Len(t) + 1}

\* The names or pairs of a complete list.
IsList(c, t, arguments) ==
  /\ arguments \in Seq(Seq(Seq(STRING)))
  /\ \E j \in Places(t) : Reaches(c, t, j) /\ Completes(c, t, j)
  /\ Len(arguments) = Cardinality(ItemEnds(c, t))
  /\ \A j \in ItemEnds(c, t) : arguments[ItemsBefore(c, t, j) + 1] = Item(c, t, j)

\* The first n characters are a number that is too large.
TooLarge(t, n) == ToSet(SubSeq(t, 1, n)) \subseteq Digits /\ Number(SubSeq(t, 1, n)) > UINT_MAX

\* A delay is read as it is written, or so begins when it is continued.
IsDelay(t) ==
  /\ ToSet(t) \subseteq Digits /\ ~TooLarge(t, Len(t)) /\ t = Decimal(Number(t))
  /\ \A g \in StaleDigits : IsPrefix(t, Decimal(Number(t \o g)))

Good(s, means) ==
  /\ means.name \in CommandsOf(s)
  /\ LET t == Rest(means.name, s)
     IN  \/ means.name \in Bare /\ means.args = <<>>
         \/ means.name = "WAIT" /\ means.args = <<<<t>>>> /\ IsDelay(t)
         \/ IsList(means.name, t, means.args)

\* The error shows before the newline,
Bad(s) ==
  \/ CommandsOf(s) = {} /\ s # <<>> /\ s[1] # "#" /\ ReadSize(s[1]) <= Len(s)
  \/ \E c \in CommandsOf(s) :
       LET t == Rest(c, s)
       IN  \/ c \in WithList /\ t # <<>> /\ t[1] # "["
           \/ c = "WRITE" /\ Len(t) > 1 /\ t[2] # "("
           \/ \E j \in Places(t) : Reaches(c, t, j) /\ FailsBefore(c, t, j)
           \/ /\ c = "WAIT"
              /\ \E n \in 0..(Len(t) - 1) :
                   /\ ToSet(SubSeq(t, 1, n)) \subseteq Digits /\ t[n + 1] \notin Digits
                   /\ t[n + 1] # " " \/ TooLarge(t, n)

\* or the newline has been read as well by then.
Greedy(s) ==
  \/ CommandsOf(s) = {} /\ s # <<>> /\ s[1] # "#" /\ ReadSize(s[1]) = Len(s) + 1
  \/ \E c \in CommandsOf(s) :
       LET t == Rest(c, s)
       IN  \/ c \in WithList /\ t = <<>>
           \/ c = "WRITE" /\ t = <<"[">>
           \/ \E j \in Places(t) : Reaches(c, t, j) /\ FailsAtNewline(c, t, j)
           \/ c = "WAIT" /\ TooLarge(t, Len(t))

IsOfClass(l) ==
  \/ l.class = "good" /\ Good(l.chars, l.means)
  \/ l.class = "blank" /\ (l.chars = <<>> \/ l.chars[1] = "#") /\ l.means = Skipped
  \/ l.class = "bad" /\ Bad(l.chars) /\ l.means = Rejected
  \/ l.class = "greedy" /\ Greedy(l.chars) /\ l.means = Rejected
  \/ l.class = "other"

\* A line holds no newline, and is what its class says.
ASSUME LinesAssumption ==
  \A l \in Lines :
    /\ l.chars \in Seq(STRING) /\ \A i \in DOMAIN l.chars : l.chars[i] # Newline
    /\ IsOfClass(l)
=============================================================================

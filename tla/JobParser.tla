----------------------------- MODULE JobParser -----------------------------
(***************************************************************************)
(* The parser of the job files (server/parser.c) under run_job's loop: a   *)
(* file is a sequence of characters read from left to right and never      *)
(* again.  The parser has no lines: a command ends where a read of it met  *)
(* a newline, and what is rejected is skipped up to the next newline after *)
(* the last character read (cleanup).  The properties are about what this  *)
(* does to the lines of the file.                                          *)
(***************************************************************************)
EXTENDS JobLines

CONSTANT MaxLines  \* bound: lines of a file

ASSUME ParserAssumption ==
  /\ MaxLines \in Nat
  /\ MAX_STRING_SIZE \in Nat \ {0} /\ MAX_WRITE_SIZE \in Nat \ {0}

VARIABLES
  script,   \* the lines of the file, each with what its author meant
  complete, \* whether the last of them ends with a newline
  pos,      \* the next character to be read
  pc,       \* where run_job is: "next", "open", "list" or "done"
  cmd,      \* the command whose arguments are read
  args,     \* the arguments read so far
  line,     \* the line on which this command began
  log       \* what was done: <<line, what>> for every call of get_next

vars == <<script, complete, text, pos, pc, cmd, args, line, log>>

-----------------------------------------------------------------------------
(* Reading from position p.                                                *)

\* Faulty: a space is part of a name.
read_string_spaced(p) ==
  LET stop == Seek(p, {",", ")", "]"})
  IN  IF stop >= p + MAX_STRING_SIZE \/ AtEnd(stop)
        THEN [at |-> "none", str |-> <<>>, next |-> Passed(Min({stop, p + MAX_STRING_SIZE - 1}), 1)]
        ELSE [at |-> text[stop], str |-> SubSeq(text, p, stop - 1), next |-> stop + 1]

\* What read_string returns: the character it ended at ("none" when it failed),
\* the string, and where it leaves the file.
read_string(p) ==
  LET stop == Seek(p, {" ", ",", ")", "]"})
  IN  IF stop >= p + MAX_STRING_SIZE \/ AtEnd(stop) \/ IsChar(stop, {" "})
        THEN [at |-> "none", str |-> <<>>, next |-> Passed(Min({stop, p + MAX_STRING_SIZE - 1}), 1)]
        ELSE [at |-> text[stop], str |-> SubSeq(text, p, stop - 1), next |-> stop + 1]

\* get_next: which command stands at p.
CommandAt(p) ==
  {c \in DOMAIN Keyword :
     LET after == p + Len(Keyword[c])
     IN  Matches(p, Keyword[c]) /\ (c \in Bare => AtEnd(after) \/ text[after] = Newline)}

-----------------------------------------------------------------------------
(* run_job's loop.                                                         *)

Done(what) == log' = Append(log, <<line, what>>)

Reject(p) ==
  /\ Done(Rejected)
  /\ pos' = p
  /\ pc' = "next"
  /\ UNCHANGED <<cmd, args, line>>

Execute(arguments, p) ==
  /\ Done(Command(cmd, arguments))
  /\ pos' = p
  /\ pc' = "next"
  /\ UNCHANGED <<cmd, args, line>>

\* get_next.
EndOfCommands ==
  /\ pc = "next" /\ AtEnd(pos)
  /\ pc' = "done"
  /\ UNCHANGED <<pos, cmd, args, line, log>>

NextCommand ==
  /\ pc = "next"
  /\ \E c \in CommandAt(pos) :
       /\ line' = LineOf(pos)
       /\ cmd' = c
       /\ args' = <<>>
       /\ IF c \in Bare
            THEN /\ log' = Append(log, <<LineOf(pos), Command(c, <<>>)>>)
                 /\ pos' = Passed(pos, Len(Keyword[c]) + 1)
                 /\ UNCHANGED pc
            ELSE /\ pos' = pos + Len(Keyword[c])
                 /\ pc' = "open"
                 /\ UNCHANGED log

NoCommand ==
  /\ pc = "next" /\ ~AtEnd(pos) /\ CommandAt(pos) = {}
  /\ LET c == text[pos]
     IN  /\ log' = Append(log, <<LineOf(pos), IF c \in {"#", Newline} THEN Skipped ELSE Rejected>>)
         /\ pos' = IF c = Newline THEN pos + 1 ELSE cleanup(Passed(pos, ReadSize(text[pos])))
  /\ UNCHANGED <<pc, cmd, args, line>>

\* Faulty: nothing is skipped when the list does not begin.
OpenListSilent ==
  /\ pc = "open" /\ cmd \in {"WRITE", "READ", "DELETE"}
  /\ LET second == Passed(pos, 1)
     IN  IF ~IsChar(pos, {"["}) THEN Reject(second)
         ELSE IF cmd = "WRITE" /\ ~IsChar(second, {"("}) THEN Reject(Passed(second, 1))
         ELSE /\ pc' = "list"
              /\ pos' = IF cmd = "WRITE" THEN second + 1 ELSE second
              /\ UNCHANGED <<cmd, args, line, log>>

\* parse_write and parse_read_delete up to their loop.
OpenList ==
  /\ pc = "open" /\ cmd \in {"WRITE", "READ", "DELETE"}
  /\ LET second == Passed(pos, 1)
     IN  IF ~IsChar(pos, {"["}) THEN Reject(cleanup(second))
         ELSE IF cmd = "WRITE" /\ ~IsChar(second, {"("}) THEN Reject(cleanup(Passed(second, 1)))
         ELSE /\ pc' = "list"
              /\ pos' = IF cmd = "WRITE" THEN second + 1 ELSE second
              /\ UNCHANGED <<cmd, args, line, log>>

\* Faulty: the number of pairs is not checked after the loop.
EndRoundFull(read, closed, p) ==
  IF Len(read) < MAX_WRITE_SIZE /\ ~closed
    THEN args' = read /\ pos' = p /\ UNCHANGED <<pc, cmd, line, log>>
  ELSE IF IsChar(p, {Newline}) THEN Execute(read, p + 1)
  ELSE Reject(cleanup(Passed(p, 1)))

\* The end of a round of the loop: another one, or the list is complete and
\* must be shorter than its array and at the end of its line.
EndRound(read, closed, p) ==
  IF Len(read) < MAX_WRITE_SIZE /\ ~closed
    THEN args' = read /\ pos' = p /\ UNCHANGED <<pc, cmd, line, log>>
  ELSE IF Len(read) = MAX_WRITE_SIZE THEN Reject(cleanup(p))
  ELSE IF IsChar(p, {Newline}) THEN Execute(read, p + 1)
  ELSE Reject(cleanup(Passed(p, 1)))

\* parse_pair cleans up when it fails, and parse_write then once more.
ParsePair ==
  /\ pc = "list" /\ cmd = "WRITE"
  /\ LET key   == read_string(pos)
         value == read_string(key.next)
         after == value.next
     IN  IF key.at # "," THEN Reject(cleanup(cleanup(key.next)))
         ELSE IF value.at # ")" THEN Reject(cleanup(cleanup(value.next)))
         ELSE IF ~IsChar(after, {"(", "]"}) THEN Reject(cleanup(Passed(after, 1)))
         ELSE EndRound(Append(args, <<key.str, value.str>>), text[after] = "]", after + 1)

\* Faulty: it cleans up twice, as for a pair.
ParseKeyTwice ==
  /\ pc = "list" /\ cmd \in {"READ", "DELETE"}
  /\ LET k == read_string(pos)
     IN  IF k.at \notin {",", "]"} THEN Reject(cleanup(cleanup(k.next)))
         ELSE EndRound(Append(args, <<k.str>>), k.at = "]", k.next)

ParseKey ==
  /\ pc = "list" /\ cmd \in {"READ", "DELETE"}
  /\ LET key == read_string(pos)
     IN  IF key.at \notin {",", "]"} THEN Reject(cleanup(key.next))
         ELSE EndRound(Append(args, <<key.str>>), key.at = "]", key.next)

\* parse_wait, called without a place for a thread: whatever follows a space
\* is skipped.
ParseWait ==
  /\ pc = "open" /\ cmd = "WAIT"
  /\ LET delay == read_uint(pos)
         after == Passed(delay.stop, 1)
     IN  \E n \in delay.numbers :
           IF n > UINT_MAX THEN Reject(cleanup(after))
           ELSE IF IsChar(delay.stop, {" "}) THEN Execute(<<<<Decimal(n)>>>>, cleanup(after))
           ELSE IF AtEnd(delay.stop) \/ IsChar(delay.stop, {Newline}) THEN Execute(<<<<Decimal(n)>>>>, after)
           ELSE Reject(cleanup(after))

-----------------------------------------------------------------------------
(* The files: sequences of lines, the last of which may lack its newline.  *)

Files == UNION {[1..n -> Lines] : n \in 1..MaxLines}

Init ==
  /\ script \in Files
  /\ complete \in BOOLEAN
  /\ text = IF complete THEN Ended(script) ELSE Front(Ended(script))
  /\ pos = 1 /\ pc = "next"
  /\ cmd = "SHOW" /\ args = <<>> /\ line = 0
  /\ log = <<>>

Parse ==
  \/ EndOfCommands
  \/ NextCommand
  \/ NoCommand
  \/ OpenList
  \/ ParsePair
  \/ ParseKey
  \/ ParseWait

Next ==
  \/ Parse /\ UNCHANGED <<script, complete, text>>
  \/ pc = "done" /\ UNCHANGED vars

Spec == Init /\ [][Next]_vars

-----------------------------------------------------------------------------
(* Properties.                                                             *)

\* What is passed to the store fits its arrays: between one and
\* MAX_WRITE_SIZE - 1 names or pairs, each string shorter than MAX_STRING_SIZE.
Fits(what) ==
  what.name \in {"WRITE", "READ", "DELETE"} =>
    /\ Len(what.args) \in 1..(MAX_WRITE_SIZE - 1)
    /\ \A j \in DOMAIN what.args :
         \A s \in ToSet(what.args[j]) : Len(s) < MAX_STRING_SIZE

\* The parser stays within its file and its arrays, makes one call of get_next
\* per line at most, and all that it passes to the store fits.
TypeOK ==
  /\ pc \in {"next", "open", "list", "done"}
  /\ pos \in 1..End
  /\ cmd \in DOMAIN Keyword
  /\ line \in 0..Len(script)
  /\ Len(log) <= Len(script)
  /\ pc = "list" => Len(args) < MAX_WRITE_SIZE
  /\ \A i \in DOMAIN log : Fits(log[i][2])

\* Whatever a line holds, and whatever was skipped because of it, the parser
\* looks for a command only where a line begins (or at the end of the file):
\* the rest of a faulty line is never executed as a command.
AtLineStart ==
  pc = "next" => pos \in {1, End} \/ text[pos - 1] = Newline

Begun == {log[i][1] : i \in DOMAIN log}       \* lines taken for a command

Terminated(n) == n < Len(script) \/ complete

LineNumbers ==
  {n \in DOMAIN script : Terminated(n) \/ script[n].chars # <<>>}

\* The last line without its newline: a list is rejected there, the commands
\* without one are executed, and WAIT with a delay that begins as written.
DoneUnterminated(what, c) ==
  \/ c.name \in Bare /\ Same(what, c)
  \/ c.name \notin Bare /\ Same(what, Rejected)
  \/ /\ c.name = "WAIT" /\ what.name = "WAIT"
     /\ IsPrefix(c.args[1][1], what.args[1][1])

\* Each line taken for a command is executed exactly as written, and a faulty
\* one is not executed at all.  (The other faults may run into the next
\* lines, whose characters then become part of a name.)
ExecutedAsWritten ==
  pc = "done" => \A i \in DOMAIN log :
    LET n == log[i][1]  what == log[i][2]
    IN  IF Terminated(n)
          THEN script[n].class # "other" => Same(what, script[n].means)
          ELSE script[n].class = "good" => DoneUnterminated(what, script[n].means)

\* A faulty line costs no other line, except in the ways GreedyLines and
\* OtherLines list: after a command and after a rejected one the very next
\* line is taken.
RejectedAlone ==
  pc = "done" =>
    \A n \in LineNumbers :
      n = 1 \/ (n - 1 \in Begun /\ script[n - 1].class \in {"good", "blank", "bad"})
        => n \in Begun

\* A line that ends before its command does costs one more line: the newline
\* has been read when the error is noticed, and cleanup goes to the next one.
\* So does a malformed pair, after which parse_pair and parse_write both
\* clean up.  It is one line, not more.
OneLineLost ==
  pc = "done" =>
    \A n \in Begun :
      script[n].class = "greedy" /\ n + 1 \in LineNumbers =>
        /\ n + 1 \notin Begun
        /\ n + 2 \in LineNumbers => n + 2 \in Begun
=============================================================================

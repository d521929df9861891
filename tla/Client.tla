------------------------------- MODULE Client -------------------------------
(***************************************************************************)
(* A client after kvs_connect (Session has the connection): main reads     *)
(* commands from its standard input and sends requests, read_Thread prints *)
(* what comes in on the notification pipe.  The server is what this client *)
(* sees of it: a manager that serves its requests on the table, jobs that  *)
(* change keys and leave a notification per entry of the client in the     *)
(* list of the key, and managers of other clients, which may keep the      *)
(* table's lock.                                                           *)
(*                                                                         *)
(* Most reads of the parser ask for several characters at once.  A         *)
(* terminal answers with what is left of the line at most, a file or a     *)
(* pipe with what was asked for.                                           *)
(***************************************************************************)
EXTENDS KVTable, InputText

CONSTANTS
  Scripts,          \* inputs: sequences of lines
  MAX_STRING_SIZE,  \* size of parse_key's buffer
  F_NOTIF,          \* the server's descriptor of this client's notification pipe
  Unknown,         \* a key not in the table: what an uninitialised buffer may hold
  Overlong,         \* the same without a terminator in reach
  PipeCapacity,     \* notifications that fit into the pipe
  MaxChanges,       \* bound: changes by the jobs and failed requests of others
  Garbage           \* what read_Thread's uninitialised buffer may print as

ASSUME ClientAssumption ==
  /\ Pipes = {F_NOTIF}
  /\ MAX_STRING_SIZE \in Nat \ {0} /\ PipeCapacity \in Nat /\ MaxChanges \in Nat

VARIABLES
  script, terminal,    \* the input, and whether it is typed
  pos, pc, cmd,        \* main: next character, where it is, the command it runs
  key,                 \* main's buffer for the key
  line,                \* the line on which cmd began
  log,                 \* what was done: <<line, command>>
  f_req,               \* whether the request pipe is open
  table, served,       \* the server's table; whether the session exists
  keeper,              \* whose manager holds the table's lock after a failure
  notifs,              \* notifications in the pipe
  notification,        \* read_Thread's buffer
  last_notification,   \* the last one it printed
  printed,             \* all it printed
  told,                \* history: the changes the client was subscribed to
  changes              \* number of changes and of others' failures

inputVars == <<script, terminal, text>>
mainVars == <<pos, pc, cmd, key, line, log, f_req>>
serverVars == <<table, served, keeper, told, changes>>
readerVars == <<notification, last_notification, printed>>
vars == <<inputVars, mainVars, serverVars, notifs, readerVars>>

Nothing == <<<<>>, "">>     \* the initial last_notification
Unset   == <<<<>>, "unset">>   \* a buffer nobody has written to

\* A key and its new value, or that it was deleted.  No initial or
\* uninitialised buffer is one.
News == Keys \X (Values \cup {"DELETED"})

ASSUME BuffersAssumption ==
  Nothing \notin News /\ Unset \notin News /\ Garbage \notin News \cup {Nothing}

Keyword == [ SUBSCRIBE   |-> <<"S", "U", "B", "S", "C", "R", "I", "B", "E", " ">>,
             UNSUBSCRIBE |-> <<"U", "N", "S", "U", "B", "S", "C", "R", "I", "B", "E", " ">>,
             DELAY       |-> <<"D", "E", "L", "A", "Y", " ">>,
             DISCONNECT  |-> <<"D", "I", "S", "C", "O", "N", "N", "E", "C", "T">> ]

-----------------------------------------------------------------------------
(* client/parser.c                                                         *)

\* Where a read of n characters from p ends.
ReadEnd(p, n) ==
  IF terminal THEN Min({Passed(p, n), Passed(Seek(p, {Newline}), 1)}) ELSE Passed(p, n)

\* The command at p, and where get_next's reads end when there is none: one
\* read for S and U, two for D.
CommandAt(p) ==
  {c \in DOMAIN Keyword :
     LET after == p + Len(Keyword[c])
     IN  Matches(p, Keyword[c])
           /\ (c = "DISCONNECT" => AtEnd(after) \/ text[after] = Newline)}

NoCommandEnd(p) ==
  CASE text[p] = "S" -> ReadEnd(p + 1, 9)
    [] text[p] = "U" -> ReadEnd(p + 1, 11)
    [] text[p] = "D" -> ReadEnd(ReadEnd(p + 1, 5), 4)
    [] OTHER         -> p + 1

\* parse_key reads once, and looks for brackets in what it got.
KeyChunk(p) == SubSeq(text, p, ReadEnd(p, MAX_STRING_SIZE - 1) - 1)

First(chars, c) == SelectInSeq(chars, LAMBDA d : d = c)

HasKey(chunk) == First(chunk, "[") # 0 /\ First(chunk, "[") < First(chunk, "]")

\* Faulty: the closing bracket is copied too.
KeyWithBracket(chunk) == SubSeq(chunk, First(chunk, "[") + 1, First(chunk, "]"))

KeyIn(chunk) == SubSeq(chunk, First(chunk, "[") + 1, First(chunk, "]") - 1)

-----------------------------------------------------------------------------
(* The lines of an input, as the parser is to take them.                   *)

CommandsOf(s) ==
  {c \in DOMAIN Keyword : IsPrefix(Keyword[c], s) /\ (c = "DISCONNECT" => s = Keyword[c])}
Rest(c, s) == SubSeq(s, Len(Keyword[c]) + 1, Len(s))

\* One read of parse_key gets the rest of the line.
FitsRead(s) == Len(s) + 2 <= MAX_STRING_SIZE

\* r begins with the n digits of a number that is too large.
TooLarge(r, n) ==
  ToSet(SubSeq(r, 1, n)) \subseteq Digits /\ Number(SubSeq(r, 1, n)) > UINT_MAX

\* Commands, comments and empty lines.
Good(s, means) ==
  \/ (s = <<>> \/ s[1] = "#") /\ means = Skipped
  \/ s = Keyword["DISCONNECT"] /\ means = Command("DISCONNECT", <<>>)
  \/ \E k \in ToSet(means.args) :
       \/ /\ s = Keyword["DELAY"] \o k /\ means = Command("DELAY", <<k>>)
          /\ ToSet(k) \subseteq Digits /\ ~TooLarge(k, Len(k)) /\ k = Decimal(Number(k))
       \/ \E c \in {"SUBSCRIBE", "UNSUBSCRIBE"} :
            /\ s = Keyword[c] \o (<<"[">> \o k \o <<"]">>) /\ means = Command(c, <<k>>)
            /\ {"[", "]"} \cap ToSet(k) = {} /\ FitsRead(Rest(c, s)) /\ k # Overlong

\* Faulty lines whose error shows at their newline, after which cleanup
\* takes the next line,
Greedy(s) ==
  \/ /\ CommandsOf(s) = {} /\ s # <<>>
     /\ \/ s[1] = "S" /\ Len(s) < 10
        \/ s[1] = "U" /\ Len(s) < 12
        \/ s[1] = "D" /\ Len(s) \in 6..9
  \/ "DELAY" \in CommandsOf(s) /\ TooLarge(Rest("DELAY", s), Len(s) - 6)

\* and those whose error shows before, or that are read just to their end.
Bad(s) ==
  \/ /\ CommandsOf(s) = {} /\ s # <<>> /\ s[1] # "#"
     /\ Len(s) >= CASE s[1] \in {"S", "D"} -> 10 [] s[1] = "U" -> 12 [] OTHER -> 1
  \/ "SUBSCRIBE" \in CommandsOf(s) /\ LET r == Rest("SUBSCRIBE", s) IN ~HasKey(r) /\ FitsRead(r)
  \/ /\ "DELAY" \in CommandsOf(s)
     /\ LET r == Rest("DELAY", s)
        IN  \E n \in 0..(Len(r) - 1) : r[n + 1] \notin Digits /\ TooLarge(r, n)

\* An UNSUBSCRIBE without a key.
Stale(s) ==
  "UNSUBSCRIBE" \in CommandsOf(s) /\ LET r == Rest("UNSUBSCRIBE", s) IN ~HasKey(r) /\ FitsRead(r)

\* What the class of a line says about it.
IsOfClass(l) ==
  \/ l.class = "good" /\ Good(l.chars, l.means)
  \/ l.class = "bad" /\ Bad(l.chars) /\ l.means = Rejected
  \/ l.class = "greedy" /\ Greedy(l.chars) /\ l.means = Rejected
  \/ l.class = "stale" /\ Stale(l.chars)
  \/ l.class = "other"

ASSUME LinesAssumption ==
  \A s \in Scripts :
    /\ s \in Seq(ToSet(s))
    /\ \A n \in DOMAIN s :
         /\ s[n].chars \in Seq(STRING) /\ Newline \notin ToSet(s[n].chars)
         /\ s[n].means.args \in Seq(Seq(STRING))
         /\ IsOfClass(s[n])

-----------------------------------------------------------------------------
(* client/main.c                                                           *)

Init ==
  /\ script \in Scripts
  /\ terminal \in BOOLEAN
  /\ text = Ended(script)
  /\ pos = 1 /\ pc = "next" /\ cmd = "none" /\ key = Unknown /\ line = 0
  /\ log = <<>>
  /\ f_req = TRUE
  /\ \E k \in Keys, v \in Values :
       table \in {create_hash_table, write_pair(create_hash_table, k, v)}
  /\ served = TRUE /\ keeper = "nobody"
  /\ notifs = <<>> /\ told = <<>> /\ changes = 0
  /\ notification = Unset /\ last_notification = Nothing /\ printed = <<>>

Gone == pc \in {"ended", "exited"}

Log(n, c, arguments) == log' = Append(log, <<n, Command(c, arguments)>>)

\* A request is written and its answer awaited.  A write to a request pipe
\* that is closed already fails, which only kvs_disconnect looks at.
Request(arguments) ==
  /\ pc' = "answer"
  /\ Log(line, cmd, arguments)

EndOfCommands ==
  /\ pc = "next" /\ AtEnd(pos)
  /\ cmd' = "EOC"
  /\ IF f_req THEN pc' = "answer" ELSE pc' = "exited"
  /\ UNCHANGED <<pos, key, line, log, f_req>>

NextCommand ==
  /\ pc = "next"
  /\ \E c \in CommandAt(pos) :
       /\ cmd' = c
       /\ line' = LineOf(pos)
       /\ pos' = Passed(pos, Len(Keyword[c]) + IF c = "DISCONNECT" THEN 1 ELSE 0)
       /\ IF c # "DISCONNECT" THEN pc' = "argument" /\ UNCHANGED log
          ELSE IF f_req THEN pc' = "answer" /\ Log(LineOf(pos), c, <<>>)
          ELSE pc' = "exited" /\ UNCHANGED log
  /\ UNCHANGED <<key, f_req>>

NoCommand ==
  /\ pc = "next" /\ ~AtEnd(pos) /\ CommandAt(pos) = {}
  /\ Log(LineOf(pos), IF text[pos] \in {"#", Newline} THEN "skipped" ELSE "rejected", <<>>)
  /\ pos' = IF text[pos] = Newline THEN pos + 1 ELSE cleanup(NoCommandEnd(pos))
  /\ UNCHANGED <<pc, cmd, key, line, f_req>>

Subscribe ==
  /\ pc = "argument" /\ cmd = "SUBSCRIBE"
  /\ pos' = ReadEnd(pos, MAX_STRING_SIZE - 1)
  /\ IF HasKey(KeyChunk(pos))
       THEN key' = KeyIn(KeyChunk(pos)) /\ Request(<<key'>>)
       ELSE pc' = "next" /\ Log(line, "rejected", <<>>) /\ UNCHANGED key
  /\ UNCHANGED <<cmd, line, f_req>>

\* parse_key fails with 1, main looks for -1: the request is sent all the
\* same, with whatever key[] holds, which is a new variable in every round.
\* kvs_subscribe_unsubscribe closes the request pipe when it is too long.
Unsubscribe ==
  /\ pc = "argument" /\ cmd = "UNSUBSCRIBE"
  /\ pos' = ReadEnd(pos, MAX_STRING_SIZE - 1)
  /\ key' \in IF HasKey(KeyChunk(pos)) THEN {KeyIn(KeyChunk(pos))}
                                       ELSE {key, Unknown, Overlong}
  /\ IF key' = Overlong
       THEN f_req' = FALSE /\ pc' = "next" /\ Log(line, "rejected", <<>>)
       ELSE UNCHANGED f_req /\ Request(<<key'>>)
  /\ UNCHANGED <<cmd, line>>

\* parse_delay does not look at the character after the number.
Delay ==
  /\ pc = "argument" /\ cmd = "DELAY"
  /\ LET delay == read_uint(pos)
         after == Passed(delay.stop, 1)
     IN  \E n \in delay.numbers :
           IF n > UINT_MAX
             THEN pos' = cleanup(after) /\ Log(line, "rejected", <<>>)
             ELSE pos' = after /\ Log(line, cmd, <<Decimal(n)>>)
  /\ pc' = "next"
  /\ UNCHANGED <<cmd, key, line, f_req>>

\* Faulty: the request pipe is not closed.
AnsweredOpen(disconnected) ==
  /\ pc' = IF cmd = "DISCONNECT" THEN "ended" ELSE "next"
  /\ IF disconnected THEN notifs' = <<>> ELSE UNCHANGED notifs
  /\ UNCHANGED <<pos, cmd, key, line, log, f_req>>

\* read_response returns, at once when the server has closed its end.  After
\* a disconnection the three pipes are closed, with what is in them; main
\* returns, or at the end of its input reads on.
Answered(disconnected) ==
  /\ pc' = IF cmd = "DISCONNECT" THEN "ended" ELSE "next"
  /\ IF disconnected THEN f_req' = FALSE /\ notifs' = <<>> ELSE UNCHANGED <<f_req, notifs>>
  /\ UNCHANGED <<pos, cmd, key, line, log>>

\* Who has the table's lock after a request: the manager, when it failed.
Kept(code) == IF code = 0 THEN "nobody" ELSE "own"

\* The manager serves the request under the table's lock; while the manager
\* of another client keeps it, it waits.  It keeps the lock itself when the
\* request fails, and its next one goes on under it.  A request for the empty
\* key is one byte, and the manager waits for the key.
Serve ==
  /\ pc = "answer" /\ served /\ f_req /\ keeper # "other"
  /\ \/ /\ cmd \in {"SUBSCRIBE", "UNSUBSCRIBE"} /\ key # <<>>
        /\ LET o == IF key \notin Keys THEN Returns(1, table)
                    ELSE IF cmd = "SUBSCRIBE" THEN execute_subscribe(table, key, F_NOTIF)
                    ELSE execute_unsubscribe(table, key, F_NOTIF)
           IN  table' = o.ht /\ keeper' = Kept(o.code)
        /\ Answered(FALSE)
        /\ UNCHANGED served
     \/ /\ cmd \in {"DISCONNECT", "EOC"}
        /\ table' = execute_disconnect(table, F_NOTIF).ht
        /\ keeper' = Kept(execute_disconnect(table, F_NOTIF).code)
        /\ Answered(TRUE)
        /\ served' = FALSE
  /\ UNCHANGED <<told, changes>>

NoAnswer ==
  /\ pc = "answer" /\ ~served
  /\ Answered(FALSE)
  /\ UNCHANGED serverVars

\* The manager finds the request pipe closed.
HangUp ==
  /\ served /\ ~f_req /\ keeper # "other"
  /\ table' = execute_disconnect(table, F_NOTIF).ht
  /\ keeper' = Kept(execute_disconnect(table, F_NOTIF).code)
  /\ served' = FALSE
  /\ UNCHANGED <<told, changes, mainVars, notifs>>

\* Faulty: a job does not wait.
AlwaysRoom(copies) == TRUE

Room(copies) == Len(notifs \o copies) <= PipeCapacity

\* A job writes or deletes a key and notifies the client once per entry; it
\* waits, with the lock, while the pipe is full.
Change(k, news, ht) ==
  LET copies == [i \in DOMAIN NotifPipes(table, k) |-> <<k, news>>]
      heard  == served /\ ~Gone /\ copies # <<>>
  IN  /\ keeper = "nobody"
      /\ changes < MaxChanges /\ changes' = changes + 1
      /\ table' = ht
      /\ Room(copies)
      /\ notifs' = IF heard THEN notifs \o copies ELSE notifs
      /\ told' = IF heard THEN Append(told, <<k, news>>) ELSE told
      /\ UNCHANGED <<served, keeper>>

WritePair(k, v) == Change(k, v, write_pair(table, k, v))
DeletePair(k)   == Change(k, "DELETED", delete_pair(table, k))

\* A request of another client fails: its manager keeps the lock, until it
\* serves a request that does not fail, if there is one.
OtherFails ==
  /\ keeper = "nobody" /\ keeper' = "other"
  /\ changes < MaxChanges /\ changes' = changes + 1
  /\ UNCHANGED <<table, served, told>>

OtherReturns ==
  /\ keeper = "other" /\ keeper' = "nobody"
  /\ UNCHANGED <<table, served, told, changes>>

-----------------------------------------------------------------------------
(* read_Thread                                                             *)

\* Faulty: a change of the value alone is not noticed.
ShowNewKeys(n) ==
  IF n[1] # last_notification[1]
    THEN printed' = Append(printed, n) /\ last_notification' = n
    ELSE UNCHANGED <<printed, last_notification>>

\* Faulty: it prints whatever it reads.
ShowAll(n) == printed' = Append(printed, n) /\ last_notification' = n

\* It prints what is not equal to what it printed last.
Show(n) ==
  IF n # last_notification
    THEN printed' = Append(printed, n) /\ last_notification' = n
    ELSE UNCHANGED <<printed, last_notification>>

ReadNotification ==
  /\ ~Gone /\ notifs # <<>>
  /\ notification' = Head(notifs)
  /\ notifs' = Tail(notifs)
  /\ Show(notification')

\* At the end of the pipe, or when main has closed it, read_all leaves the
\* buffer as it was: that of the last notification, or never written to.
ReadNothing ==
  /\ ~Gone /\ notifs = <<>> /\ ~served
  /\ UNCHANGED <<notification, notifs>>
  /\ IF notification # Unset THEN Show(notification)
     ELSE \/ Show(Garbage)
          \/ UNCHANGED <<printed, last_notification>>

Main ==
  \/ EndOfCommands \/ NextCommand \/ NoCommand
  \/ Subscribe \/ Unsubscribe \/ Delay

Next ==
  \/ Main /\ UNCHANGED <<inputVars, serverVars, notifs, readerVars>>
  \/ (Serve \/ NoAnswer \/ HangUp) /\ UNCHANGED <<inputVars, readerVars>>
  \/ /\ \E k \in Keys : DeletePair(k) \/ \E v \in Values : WritePair(k, v)
     /\ UNCHANGED <<inputVars, mainVars, readerVars>>
  \/ (OtherFails \/ OtherReturns) /\ UNCHANGED <<inputVars, mainVars, notifs, readerVars>>
  \/ (ReadNotification \/ ReadNothing) /\ UNCHANGED <<inputVars, mainVars, serverVars>>

\* The threads of the client run, and its manager serves when it gets the
\* lock (KVStore, Session).  Whether the user types another line, a job
\* changes anything, or another client asks for what returns the lock its
\* manager keeps, is up to them.
Fairness ==
  /\ WF_vars((~terminal \/ pc = "argument") /\ Main /\ UNCHANGED <<inputVars, serverVars, notifs, readerVars>>)
  /\ WF_vars((Serve \/ NoAnswer \/ HangUp) /\ UNCHANGED <<inputVars, readerVars>>)
  /\ WF_vars(ReadNotification /\ UNCHANGED <<inputVars, mainVars, serverVars>>)

Spec == Init /\ [][Next]_vars /\ Fairness

-----------------------------------------------------------------------------
(* Properties.                                                             *)

\* The table keeps its shape whatever the client sends, the pipe never holds
\* more than it can, and no answer is awaited for a DELAY.
TypeOK ==
  /\ pos \in 1..End
  /\ pc \in {"next", "argument", "answer", "ended", "exited"}
  /\ table \in HashTable
  /\ Len(notifs) <= PipeCapacity
  /\ pc = "answer" /\ served => cmd # "DELAY"

\* A sequence without repetitions of an element right after it.
Squeeze(s) ==
  LET upTo[n \in 0..Len(s)] ==
        IF n = 0 THEN <<>>
        ELSE IF n > 1 /\ s[n - 1] = s[n] THEN upTo[n - 1]
        ELSE Append(upTo[n - 1], s[n])
  IN  upTo[Len(s)]

\* What is printed are the changes to the keys the client is subscribed to,
\* in their order, each once even if it is subscribed twice, and equal ones
\* in a row once.  The buffer's first content is never printed before the
\* session is over.
PrintedAreChanges ==
  IF printed = <<Garbage>> THEN notification = Unset /\ ~served
                           ELSE IsPrefix(printed, Squeeze(told))

\* Unless the client leaves, it prints all of them.
ChangesPrinted ==
  []<>(Gone \/ cmd = "EOC" \/ printed = <<Garbage>> \/ printed = Squeeze(told))

Begun == {log[i][1] : i \in DOMAIN log}

\* On a terminal a command is carried out as it was typed and a faulty line
\* sends no request, a malformed UNSUBSCRIBE excepted ("stale"), whose key
\* may be any.
TypedIsDone ==
  \A i \in DOMAIN log :
    LET l == script[log[i][1]]
    IN  terminal /\ l.class \in {"good", "bad", "greedy"} => Same(log[i][2], l.means)

\* On a terminal a faulty line costs no other line, unless it is one of
\* those that are read to their newline before the error shows: then it is
\* one line, the next.
TypedIsTaken ==
  cmd = "EOC" /\ terminal =>
    \A n \in DOMAIN script :
      \/ n > 1 /\ n - 1 \notin Begun
      \/ n > 1 /\ script[n - 1].class = "other"
      \/ n \in Begun <=> n = 1 \/ script[n - 1].class # "greedy"

\* A client that reads a file comes to its end, by DISCONNECT or by the end of
\* the file, unless it waits for the answer to a request for the empty key, or
\* for an answer of a manager that waits for good for the lock another client's
\* manager keeps after a failed request.
WaitsForKey  == pc = "answer" /\ key = <<>>
WaitsForLock == pc = "answer" /\ keeper = "other"

ClientEnds == ~terminal ~> (Gone \/ WaitsForKey \/ []WaitsForLock)

-----------------------------------------------------------------------------
(* A statement of the repository that the code does not keep.              *)

\* tests/client_tests.txt:1-6: an input of commands, each on its line, which
\* the client is to carry out.
FileIsDone ==
  cmd = "DISCONNECT" \/ cmd = "EOC" =>
    \A n \in DOMAIN script : script[n].class = "good" => n \in Begun
=============================================================================

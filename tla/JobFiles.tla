------------------------------ MODULE JobFiles ------------------------------
(***************************************************************************)
(* How the job threads share the directory of job files (get_file) and     *)
(* name their backups (kvs_backup).  A thread reads the next entry of the  *)
(* one DIR stream with directory_mutex locked, makes the paths of its      *)
(* files, unlocks, and runs the file.  It keeps the pointer that readdir   *)
(* returned: a place in the stream's buffer, which the C library fills     *)
(* anew when all its entries have been read, and in which kvs_backup's     *)
(* strtok cuts the name at its first dot.  strtok takes no mutex: the name *)
(* may be cut after get_file has looked at its end and before it copies    *)
(* it, and then the thread runs whatever has the rest of the name.         *)
(*                                                                         *)
(* A name is the sequence of its parts between dots.  All entries take the *)
(* same room in the buffer, a slot.                                        *)
(***************************************************************************)
EXTENDS Naturals, Sequences, SequencesExt, FiniteSets

CONSTANTS
  Threads,      \* job threads
  Directories,  \* what the directory may hold: sequences of names, in readdir's order
  Slots,        \* entries that fit into the stream's buffer
  TooLong,      \* names whose path does not fit into MAX_JOB_FILE_NAME_SIZE
  Shortened,    \* first parts that leave no room for a number in bck_name: what remains
  MaxBackups,   \* bound: BACKUP commands in a file
  MaxFailures,  \* bound: opens that fail
  NOBODY, NoName

ASSUME FilesAssumption ==
  /\ Slots \in Nat \ {0} /\ MaxBackups \in Nat /\ MaxFailures \in Nat
  /\ NOBODY \notin Threads
  /\ Directories \subseteq Seq(Seq(STRING))
  /\ \A d \in Directories : IsInjective(d)

VARIABLES
  directory,  \* the names
  dotted,     \* whether the path of the directory has a dot in it
  got,        \* how many of them have been put into the buffer
  data,       \* the buffer: the name in each slot
  size,       \* slots filled the last time
  offset,     \* slots read since
  mutex,      \* who holds directory_mutex
  pc,
  entry,      \* the slot each thread's entry points to
  in_path,    \* the file each thread took
  file_backups,
  refilled,   \* history: the buffer was filled since the thread took its file
  executed,   \* history: the files opened, in order
  failed,     \* history: who could not open which file
  cut,        \* history: names cut in the buffer by a thread with another file
  backups     \* backups made: of which file, its number, its path, refilled or not

stream == <<got, data, size, offset>>
histories == <<executed, failed, cut, backups>>
vars == <<directory, dotted, stream, mutex, pc, entry, in_path, file_backups, refilled, histories>>

Init ==
  /\ directory \in Directories /\ dotted \in BOOLEAN
  /\ got = 0 /\ size = 0 /\ offset = 0
  /\ data = [s \in 1..Slots |-> NoName]
  /\ mutex = NOBODY
  /\ pc = [t \in Threads |-> "lock"]
  /\ entry = [t \in Threads |-> 1]
  /\ in_path = [t \in Threads |-> NoName]
  /\ file_backups = [t \in Threads |-> 0]
  /\ refilled = [t \in Threads |-> FALSE]
  /\ executed = <<>> /\ failed = {} /\ cut = {} /\ backups = {}

Goto(t, label) == pc' = [pc EXCEPT ![t] = label]

\* The part before a leading dot.
NoText == ""

\* Faulty: the suffix is looked for from the first dot on.
IsJobFirst(name) == Tail(name) = <<"job">> /\ Head(name) # NoText

\* The suffix is ".job" and there is something before it.
IsJob(name) == Len(name) > 1 /\ Last(name) = "job" /\ name # <<NoText, "job">>

\* What should be run: "<something>.job", of a length that fits.
JobNames ==
  {n \in ToSet(directory) \ TooLong : Last(n) = "job" /\ Front(n) \notin {<<>>, <<NoText>>}}

-----------------------------------------------------------------------------
(* get_file                                                                *)

\* Faulty: the mutex is taken without waiting.
LockAlways(t) ==
  /\ pc[t] = "lock"
  /\ mutex' = t
  /\ Goto(t, "read")
  /\ UNCHANGED <<directory, dotted, stream, entry, in_path, file_backups, refilled, histories>>

Lock(t) ==
  /\ pc[t] = "lock" /\ mutex = NOBODY
  /\ mutex' = t
  /\ Goto(t, "read")
  /\ UNCHANGED <<directory, dotted, stream, entry, in_path, file_backups, refilled, histories>>

\* Faulty: entry is shared by the threads.
PointTo(t, s) == entry' = [u \in Threads |-> s]

Point(t, s) == entry' = [entry EXCEPT ![t] = s]

\* readdir returns the next slot of the buffer...
NextSlot(t) ==
  /\ pc[t] = "read" /\ offset < size
  /\ offset' = offset + 1
  /\ Point(t, offset + 1)
  /\ Goto(t, "check")
  /\ UNCHANGED <<directory, dotted, got, data, size, mutex, in_path, file_backups, refilled, histories>>

\* ... or fills it first, over what was there.
Refill(t) ==
  /\ pc[t] = "read" /\ offset = size /\ got < Len(directory)
  /\ LET n == IF Len(directory) - got < Slots THEN Len(directory) - got ELSE Slots
     IN  /\ data' = [s \in 1..Slots |-> IF s <= n THEN directory[got + s] ELSE data[s]]
         /\ size' = n
         /\ got' = got + n
  /\ offset' = 1
  /\ Point(t, 1)
  /\ refilled' = [u \in Threads |-> TRUE]
  /\ Goto(t, "check")
  /\ UNCHANGED <<directory, dotted, mutex, in_path, file_backups, histories>>

\* Faulty: the mutex stays locked.
EndOfDirectoryLocked(t) ==
  /\ pc[t] = "read" /\ offset = size /\ got = Len(directory)
  /\ Goto(t, "done")
  /\ UNCHANGED <<directory, dotted, stream, mutex, entry, in_path, file_backups, refilled, histories>>

EndOfDirectory(t) ==
  /\ pc[t] = "read" /\ offset = size /\ got = Len(directory)
  /\ mutex' = NOBODY
  /\ Goto(t, "done")
  /\ UNCHANGED <<directory, dotted, stream, entry, in_path, file_backups, refilled, histories>>

\* entry_files: looks for the suffix...
Check(t) ==
  /\ pc[t] = "check" /\ IsJob(data[entry[t]])
  /\ Goto(t, "copy")
  /\ UNCHANGED <<directory, dotted, stream, mutex, entry, in_path, file_backups, refilled, histories>>

\* ... passes over anything else and what is too long...
PassOver(t) ==
  /\ \/ pc[t] = "check" /\ ~IsJob(data[entry[t]])
     \/ pc[t] = "copy" /\ data[entry[t]] \in TooLong
  /\ Goto(t, "read")
  /\ UNCHANGED <<directory, dotted, stream, mutex, entry, in_path, file_backups, refilled, histories>>

\* ... and copies what the name has become.
Copy(t) ==
  /\ pc[t] = "copy" /\ data[entry[t]] \notin TooLong
  /\ Len(data[entry[t]]) > 1 \/ dotted
  /\ in_path' = [in_path EXCEPT ![t] = data[entry[t]]]
  /\ file_backups' = [file_backups EXCEPT ![t] = 0]
  /\ refilled' = [refilled EXCEPT ![t] = FALSE]
  /\ mutex' = NOBODY
  /\ Goto(t, "open")
  /\ UNCHANGED <<directory, dotted, stream, entry, histories>>

\* No dot in the name nor in the directory's path: strrchr gives NULL, and the
\* server ends by the signal.
Crash(t) ==
  /\ pc[t] = "copy" /\ data[entry[t]] \notin TooLong
  /\ Len(data[entry[t]]) = 1 /\ ~dotted
  /\ pc' = [u \in Threads |-> "crashed"]
  /\ mutex' = NOBODY
  /\ UNCHANGED <<directory, dotted, stream, entry, in_path, file_backups, refilled, histories>>

Open(t) ==
  /\ pc[t] = "open" /\ in_path[t] \in ToSet(directory)
  /\ executed' = Append(executed, in_path[t])
  /\ Goto(t, "run")
  /\ UNCHANGED <<directory, dotted, stream, mutex, entry, in_path, file_backups, refilled, failed, cut, backups>>

\* The input or the output file cannot be opened: the thread ends for good.
OpenFails(t) ==
  /\ pc[t] = "open"
  /\ Cardinality(failed) < MaxFailures \/ in_path[t] \notin ToSet(directory)
  /\ failed' = failed \cup {<<t, in_path[t]>>}
  /\ Goto(t, "done")
  /\ UNCHANGED <<directory, dotted, stream, mutex, entry, in_path, file_backups, refilled, executed, cut, backups>>

\* The path of backup number n: snprintf drops what does not fit.
bck_name(stem, n) ==
  IF stem \in DOMAIN Shortened THEN <<Shortened[stem]>> ELSE <<stem, n>>

\* strtok(name, "."): the first part that is not empty, if there is one.
FirstPart(name) == SelectInSeq(name, LAMBDA p : p # NoText)

\* What snprintf makes of it: of NULL, "(null)".
Stem(name) == IF FirstPart(name) = 0 THEN "(null)" ELSE name[FirstPart(name)]

\* strtok ends the name in the buffer after this part, which names the backup.
Cut(name) == IF FirstPart(name) = 0 THEN name ELSE SubSeq(name, 1, FirstPart(name))

\* A name that is cut does not look like another job's.  (Names that begin
\* with two dots may: "..job.old" becomes "..job".)
ASSUME CutAssumption ==
  \A d \in Directories : \A i \in DOMAIN d : IsJob(Cut(d[i])) => Cut(d[i]) = d[i]

Backup(t) ==
  /\ pc[t] = "run" /\ file_backups[t] < MaxBackups
  /\ file_backups' = [file_backups EXCEPT ![t] = @ + 1]
  /\ LET name == data[entry[t]]
     IN  /\ data' = [data EXCEPT ![entry[t]] = Cut(name)]
         /\ cut' = cut \cup ({name} \ {in_path[t], Cut(name)})
         /\ backups' = backups \cup
              {[job |-> in_path[t], number |-> file_backups'[t],
                path |-> bck_name(Stem(name), file_backups'[t]), stale |-> refilled[t]]}
  /\ UNCHANGED <<directory, dotted, got, size, offset, mutex, pc, entry, in_path, refilled, executed, failed>>

EndJob(t) ==
  /\ pc[t] = "run"
  /\ Goto(t, "lock")
  /\ UNCHANGED <<directory, dotted, stream, mutex, entry, in_path, file_backups, refilled, histories>>

Thread(t) ==
  \/ Lock(t)
  \/ NextSlot(t) \/ Refill(t) \/ EndOfDirectory(t)
  \/ Check(t) \/ PassOver(t) \/ Copy(t) \/ Crash(t)
  \/ Open(t) \/ OpenFails(t)
  \/ Backup(t) \/ EndJob(t)

Next == \E t \in Threads : Thread(t)

\* Job threads run as long as they can.
Spec == Init /\ [][Next]_vars /\ \A t \in Threads : WF_vars(Thread(t))

-----------------------------------------------------------------------------
(* Properties.                                                             *)

Holds(t) == pc[t] \in {"read", "check", "copy"}

\* What is left of the jobs' names that another file's thread cut.
TornNames == {Cut(n) : n \in {m \in cut \cap ToSet(directory) : IsJob(m)}}

\* directory_mutex has the thread that reads the stream for its owner, the
\* stream stays within its buffer, and a thread that runs anything but a job
\* file runs what is left of the name of one.
TypeOK ==
  /\ pc \in [Threads -> {"lock", "read", "check", "copy", "open", "run", "done", "crashed"}]
  /\ \A t \in Threads : Holds(t) <=> mutex = t
  /\ offset <= size /\ size <= Slots /\ got <= Len(directory)
  /\ entry \in [Threads -> 1..Slots]
  /\ \A t \in Threads : pc[t] \in {"open", "run"} => in_path[t] \in JobNames \cup TornNames

\* No job file is run twice: the name is copied before the mutex is unlocked,
\* and no other thread can have filled the slot again in between.  (Files that
\* only a torn name leads to may be.)
EachFileOnce ==
  \A i \in DOMAIN executed, j \in DOMAIN executed :
    executed[i] = executed[j] /\ executed[i] \in JobNames => i = j

AllDone == \A t \in Threads : pc[t] = "done"

\* When the threads have ended every job file has been run, unless it could
\* not be opened, or all threads had ended over files they could not open, or
\* its name was cut in the buffer by a thread whose pointer was out of date.
NoFileSkipped ==
  AllDone =>
    \A n \in JobNames :
      \/ n \in ToSet(executed) \cup {f[2] : f \in failed} \cup cut
      \/ Threads \subseteq {f[1] : f \in failed}

\* Two backups go to one path only if their files' names agree in the first
\* part that is not empty ("a.job", "a.b.job", ".a.job"), or the number did not
\* fit, or a pointer was out of date.
BackupsApart ==
  \A b \in backups, c \in backups :
    b.path = c.path /\ <<b.job, b.number>> # <<c.job, c.number>> =>
      \/ b.job # c.job /\ Stem(b.job) = Stem(c.job)
      \/ Len(b.path) = 1
      \/ b.stale \/ c.stale

ServerCrashed == \E t \in Threads : pc[t] = "crashed"

\* The job threads come to their end, whatever files cannot be opened, unless
\* the server crashes over a name that was cut by a thread whose pointer was
\* out of date.
ThreadsEnd == <>(AllDone \/ (ServerCrashed /\ cut # {}))
=============================================================================

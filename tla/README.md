# A TLA+ model of the KVS server and its clients

The repository is a key-value store for one machine. A server process (`kvs`)
executes job files with WRITE, READ, DELETE, SHOW, WAIT and BACKUP commands on a
hash table in memory; client processes connect to it through named pipes,
subscribe to keys and are notified when a job writes or deletes them. This
directory holds TLA+ modules for its parts, TLC configurations that check them
on small instances, and proofs for the TLA+ proof system.

To check a run: `tlc -config X.cfg M`; to check the proofs of a module:
`tlapm M.tla`. Line numbers below and in the modules refer to
`src/src/server/` unless another directory is named.

## 1. Inventory

Threads of the server: `max_threads` job threads (`get_file`),
`MAX_SESSION_COUNT` = 8 manager threads, one registration thread
(`main_Thread`), and a child process per backup. Processes outside: any number
of clients, each with a main thread and one that reads notifications.

| component | state | operations | interacts with |
|---|---|---|---|
| Registration (main.c:98-153, client/api.c:30-44) | registration FIFO, ring `buf` with `prodptr`, `consptr`, `count`, `mutexBuffer`, `podeProd`, `podeCons` | a client writes its request; `main_Thread` reads it and puts it; a manager gets it | messages from clients, shared state with the managers |
| Sessions (main.c:136-248, server_parser.c, client/api.c, client/main.c) | three FIFOs per client at paths made from its id, the server's descriptor table, where each manager and client is | handshake (FIFOs made and opened, first answer), subscribe, unsubscribe, disconnect, the end of a session | messages, file system, shared descriptor table, calls into the store |
| Hash table (kvs.c) | 26 chains of nodes; a list of notification descriptors per node | `write_pair`, `read_pair`, `delete_pair`, `execute_subscribe`, `execute_unsubscribe`, `execute_disconnect` | called by the store, holding `tablelock` |
| Store (operations.c) | `tablelock`; the commands in progress | `kvs_write`, `kvs_read`, `kvs_delete`, `kvs_show`, `kvs_backup`, `kvs_subs_or_unsubs`, `kvs_disconnect` | called by job and manager threads; writes to notification FIFOs under the lock; forks |
| Backup limit (main.c:319-334) | `active_backups`, `n_current_backups_lock`, child processes | admit, wait for a child, fork | kernel (`wait`, `fork`), store |
| Client notifications (client/api.c:110-133) | buffer, last notification printed | read, compare, print | notification FIFO |
| Signals (main.c:85-95) | the disposition of SIGUSR1 | SIGUSR1 writes a message into the registration FIFO | registration; interrupts system calls everywhere |
| Job files (main.c:60-81, 364-428, operations.c:141-145) | `DIR` stream and its buffer, `directory_mutex`, each thread's `entry` | take the next file, run it, name its backups | file system, store |
| Parsers (server/parser.c, client/parser.c) | a position in an input file | next command, its arguments | called by job threads and the client |
| Start and end (main.c:430-586) | the threads | create, join | everything |

What makes each correct, and what is hard about it:

- **Registration.** Every request is served by exactly one manager, in order of
  arrival, and nobody sleeps while there is work. Hard: condition variables
  with several waiters, spurious wakeups, a full and wrapping ring.
- **Sessions.** A client gets the answers to its own requests, each performed
  once; a manager whose client has gone takes another; a client's death never
  stops the server. Hard: opens that block until the other side comes, deaths
  between any two calls, ids (and so paths) that are used again, descriptors
  shared by all managers, one of them closed twice.
- **Hash table and store.** A key has one node, in its bucket; every command is
  atomic; subscribers are told every change, in order. Hard: requests that fail
  and return with the lock; a slow client's full pipe under the lock;
  descriptors that are closed but stay in a list; batches that name keys twice.
- **Backup limit.** Backups are bounded and nobody waits for ever. Hard: a
  counter that only grows, a wait inside a mutex, children that ended long ago.
- **Client notifications.** Every change that was told is printed. Hard: equal
  consecutive ones are suppressed, so a value deleted and written again between
  two others is not seen; the result of `read_all` is ignored.
- **Signals.** A signal announces something to the server, and clients keep
  their sessions. Hard: a handler that sends uninitialised paths, that writes
  to a FIFO which may be full from whatever thread took the signal, and calls
  that are interrupted in others.
- **Job files.** Every file is executed once, its files are its own. Hard: a
  directory entry used after its mutex is released, a `strtok` that writes into
  the directory stream's buffer, threads that end over a failed open.
- **Parsers.** A line is executed as written, or rejected alone. Hard: limits,
  clean-up that reads beyond the line, reads of several characters at once from
  an input that is a terminal or a file, results nobody looks at.

`PROJECT.json` lists the single hazards with their lines.

## 2. The modules

```
RegistrationQueue  <-- implemented by --  RegistrationBuffer  <- RegistrationBufferProofs
        ^
        | registration of
     Session  <- MCSession, SessionProofs    Signals    <- SignalsProofs

  KVTable <- KVStore  -- implements -->  AtomicStore
     ^          ^
     |          MCKVStore, KVStoreProofs     BackupGate <- BackupGateProofs
     |
     +--- Client <- MCClient, ClientProofs   JobFiles   <- MCJobFiles, JobFilesProofs
            |
       InputText <- JobLines <- JobParser <- MCJobParser, JobParserProofs
```

Arrows point from a module to one that extends it or uses it. The modules divide
the program at its narrow places. RegistrationBuffer and Session meet in
RegistrationQueue; Session and KVStore in the requests, whose results are
arbitrary in Session and decided in KVStore; KVStore and Client in the
notifications and in KVTable; JobParser and KVStore in the commands.

A proof module starts with what its proofs need to know of `Min`, `Max` and
`FlattenSeq` and the library's theorems do not say.

Faulty variants (`AdmitOneTooMany`, `PutSilently`, ...) stand before the
definitions they vary. No specification uses them; replacing the definition by
its variant makes the property named beside it in `PROJECT.json` fail, which
shows that the property can.

### BackupGate

`active_backups` and `max_backups` are those of main.c, `gate` is the owner of
`n_current_backups_lock`, `running` and `zombies` count the children that write
their file and those that nobody has reaped. `Backup`, `Lock`, `Admit` or
`BeginWait`/`EndWait`, `Fork` are the steps of `case CMD_BACKUP`; `Fork` is the
fork in `kvs_backup`, which comes after the unlock and can fail. `EndWait`
reaps a zombie, or returns with ECHILD when there are no children; the counter
stays as it is, as in the code. `InterruptWait` is SIGUSR1 in `wait(NULL)`,
which returns without having reaped a child; run_job cannot tell.

The counter is no bound on what it counts: once it has reached `max_backups`
it stays, and a thread then swaps one *ended* child for a new one, or, after a
signal, none. What is guaranteed is `ChildrenBounded`: children and admitted
forks never exceed `max_backups` or the number of job threads, whichever is
larger, by more than the signals that cut a wait short. The comment on
`max_backups`, "Maximum allowed simultaneous backups" (main.c:48), promises
less than that; with two threads and `max_backups` 1 the model has behaviours
with two backups running.

### RegistrationQueue and RegistrationBuffer

`RegistrationQueue` is the promise: requests arrive, wait in a queue, are taken
in order, each manager serves one at a time. `RegistrationBuffer` has the
threads: `pc` walks through lock, loop condition, `pthread_cond_wait`, relock
and the critical section; a signal moves one waiter, chosen arbitrarily, to
`relock`; `SpuriousWakeup` may return any waiter. `main_Thread`'s reset of
`count` and `prodptr` before its loop is there as well. The refinement maps the
queue to the ring's content, the message in `main_Thread`'s hands and the FIFO;
a session exists while its manager is at `serve`.

Left out: the content of messages (a request is a value), the unused
semaphores, and SIGUSR1 (see Signals).

### KVTable, AtomicStore and KVStore

`KVTable` has the functions of kvs.c as operators: a bucket is a sequence of
nodes, a node has its list of descriptors. `execute_disconnect` is translated as
it is, with a look at first nodes only and an end at the first empty bucket:
the descriptor of a client that disconnected "in every key he's in"
(operations.c:219) may stay in lists the walk does not reach.
Keys are strings whose first character's code is given by `Initial`; `hash`
folds upper to lower case and puts letters and digits into the same buckets.
Keys with another first character are excluded by `TableAssumption`, because
`table[-1]` has no meaning.

`KVStore` has the lock (`writer`, `readers`), one action per round of a
command's loop, and the notifications a round leaves behind, written one by one
with the lock held (`Notify`). A pipe holds `PipeCapacity` notifications;
`Notify` waits while it is full, and passes over descriptors that are closed or
whose reader is gone (EPIPE, EBADF; `write_all`'s result is ignored). A number
that stayed in a list may have become another notification pipe (`Audience`). It
may also have become another file of the server, a session's `f_req` or `f_resp`
or a job's file, which then gets the 80 bytes: for KVStore's state it counts as
closed, and what the bytes do there is modelled nowhere. Managers
open and close sessions on any free descriptor, receive requests from their
client or find it gone, and execute them. A request that fails returns with the
lock: `Release` does nothing then. The same manager can go on, because glibc's
`pthread_rwlock_wrlock` answers EDEADLK to its owner and the code does not
look; everybody else waits.

`told` is a history variable: what each client was last told of each key.

`AtomicStore` is the promise to the jobs: a function from keys to values, and
commands that take effect at one moment. The refinement lets a command take
effect when it gets the lock: the abstract store is what the table will be when
the lock's holder has finished (`StoreAfter`), the answer is what is printed
plus what will be (`StillToPrint`).

Left out: values longer than the buffers they are printed into, the order of
SHOW's output, a failing malloc, `kvs_init`'s and `kvs_terminate`'s checks for a
missing table (the table exists before any thread does and is never freed, see
section 6).

### Session

Client processes and managers, joined by FIFOs. A FIFO is named by the process
that made it and its kind; `node` says which FIFO each path leads to, so that
after a restart the old and the new FIFO of a path are different things.
`OpenPipe`/`OpenFifo` start an open and `Opened` ends it once the other side
has come (`met`); `desc` is the server's descriptor table, where `open` takes
the lowest free number, which `close` does not know until `open` returns.
`ClosePipe` closes *numbers* in the order f_resp, f_req, f_resp, f_notif
(main.c:130, 187-189): the second close of f_resp may hit a descriptor that
another manager was given in between; `clobbered` records that. The client
whose answer pipe was closed reads its end, and its `kvs_disconnect` returns 0
though nothing was done yet.

`Answer` is the call into the store. The store's result is arbitrary, but the
lock is there: a request that fails leaves `tablelock` with its manager
(`keeper`), a request of another manager waits for it, and one of the same
manager goes on and may give it back. A request for the empty key
(`SUBSCRIBE []`, `NoKey`) is its opcode alone; its manager then waits for a
key, and its client for the answer.

`CallRead` and `ReturnRead` split a read, so that a descriptor can be closed
and reused while a thread is in it. `Die` kills a client anywhere. An answer is
a pair of operation and result; `outcome` is a history variable with the
results of a client's request, once performed.

`IdOf` gives every process its id, chosen at the start among `IdMaps`.
`Careful` says when an id is used again: if TRUE, only once the server is done
with it, otherwise as soon as the earlier process has ended in the regular way.
After a process that was killed, or exited in the handshake, the next one always
waits for the server: else two managers come to serve one set of FIFOs, both
read its requests, and `AnswersMatch` fails. A manager unlinks its client's
paths *after* the answer, and may unlink the FIFOs of the next process with
that id, whose `kvs_connect` then exits; run `session` goes through it.
Registration is `RegistrationQueue`. Notifications are left out, and with them
those that come into an answer pipe by a descriptor number out of date
(kvs.c:62).

`AnswersMatch` speaks of the time the server is up: a client that is restarted at
once under its id can make the server exit (main.c:162-171), and with the server
the answer pipe of any client that waits ends before its answer. Nor does it say
anything of the sessions after a manager has closed a descriptor that was
another's (`clobbered`). `ServerSurvives` is claimed for `Careful` only.

`ClientsServed` and `ManagersReturn` name what keeps a manager where it is:
`Stranded` (its client died in the handshake), `AwaitsKey` and `AwaitsLock`. A
client is served unless its own manager is in one of them for good, or, while it
has none, every manager is or has a client that stays. A manager whose client
leaves is free again, also out of `AwaitsKey`, unless it waits for the lock for
good.

### Signals

SIGUSR1 in every thread: `Signal(t)` delivers it, to the handler if that is
installed, to the default action, which ends the server, if it is not.
`HandlerWrite` writes the handler's message, whose paths were never
initialised, into the registration FIFO and waits while that is full;
`HandlerReturn` installs the handler again and returns, with EINTR in the call
the thread was in. `restarts` distinguishes what signal() does: with glibc and
the Makefile's `_POSIX_C_SOURCE` the disposition is reset on delivery and calls
fail with EINTR; with BSD semantics it stays and they are restarted. A manager
interrupted in `open` exits the server (main.c:162-171), one in the read of an
opcode takes its client for disconnected (server_parser.c:15-19); a `read_all`
or `write_all` tries again, and the key of a request, which came in the same
write as the opcode, is read without blocking. A manager that gets the
handler's message finds no FIFO to open and exits the server.

`mutex` is the thread that a signal found with mutexBuffer; while it is in the
handler nobody else passes. The rest is the sessions in short: `client` says
how far each client is. A job thread takes signals and has nothing here to be
disturbed but `wait(NULL)`, which is in BackupGate.

Left out: a second signal to a thread that is in the handler; the read of the
key of an empty-key request, where the manager is stuck anyway.

### JobFiles

The job threads on one `DIR` stream. `data` is the stream's buffer, in which all
entries take one slot; `Refill` puts the next entries over the old ones when
all have been returned, `entry[t]` is the slot a thread's pointer refers to.
`Check` and `PassOver` are `entry_files`' tests, `Copy` its copies and the unlock.
Between them another thread's `strtok`, which takes no mutex, can cut the name:
`Copy` then takes what is left of it, `a` of `a.job`, and the thread goes on with
that file if the directory has it. If there is no dot in what is left nor in the
path of the directory (`dotted`), `strrchr(out_path, '.')` is NULL (main.c:78) and
the server ends by the signal (`Crash`). `Open` and `OpenFails` are the opens (a
thread that fails ends for good), `Backup` is
`kvs_backup`'s name: `strtok` cuts the name in slot `entry[t]`, whatever stands
there by now, after its first part that is not empty, and `bck_name` is made from
this part and the job's number of the backup; where snprintf's 50 characters leave no
room for the number, the path is what `Shortened` gives, which may be one for
several names. A name is the sequence of its parts
between dots; that of a hidden file begins with an empty one. A pointer that is out of date may lie at `.` or `..`, where strtok finds
nothing and snprintf prints `(null)` (`Stem`). `CutAssumption` leaves out the
directories with names such as `..job.old`: cut in the buffer before it is read,
this one would look like a job, and one that does not exist. `cut`, `executed`,
`failed`, `backups` and `refilled` are histories.

Left out: entries of different sizes (with them a pointer can come to lie in the
middle of another entry), what the jobs do (KVStore, JobParser), the child that
writes the backup (KVStore's `Fork`), output files, whose names are those of
the jobs with another suffix
(of what is left of a name without a dot: of the path up to the last dot of
the directory's); a refill between `strtok` and `snprintf` in one call of
kvs_backup; a number of which snprintf drops some digits only.

### InputText, JobLines and JobParser

`InputText` is a text with a position, and the functions that server/parser.c
and client/parser.c have in the same words (`cleanup`, `read_uint`). A line has
its characters and what its author meant: a command, or nothing.

`JobParser` is run_job's loop over one file: `NextCommand` and `NoCommand` are
`get_next`, `OpenList`, `ParsePair` or `ParseKey` per round, and `EndRound` are
`parse_write` and `parse_read_delete`, `ParseWait` is `parse_wait`. Every error
path goes through the `cleanup`s the code calls, with the characters read
before. `log` is a history: which line was taken for a command and what was
done. Initial states are all files of up to `MaxLines` lines.

`JobLines` says what these lines are: commands written as the HELP text says,
empty lines and comments, and three classes of faulty lines. `BadLines` show
their error before the newline; `GreedyLines` with it or in a pair, where the code
cleans up twice; `OtherLines` may run on into what follows. The configuration gives
the lines, and `LinesAssumption` says what each class means, as a grammar of lines:
a list goes from one delimiter to the next (`GoesOn`) until it is complete
(`Completes`), shows an error (`FailsBefore`) or has its error at the newline
(`FailsAtNewline`), within the limits on names and on their number; a number has
digits, is small enough, and is written without leading zeros. The grammar is about
lines alone: neither positions nor reads occur in it, and the proofs show that
the parser does with a line what its class says.

Left out: NUL characters (which the code accepts for a newline), numbers of
more than 15 digits (they leave read_uint's buffer).

### Client

A client after its connection. `main` reads its input like the job parser, with
the difference that most of its reads ask for several characters: a terminal
answers with what is left of the line at most, a file with what was asked for
(`ReadEnd`). `parse_key` reads once, 39 characters, looks for brackets and
drops the rest. The classes of lines are predicates on their characters
(`IsOfClass`): `Good` lines are commands, comments or empty, `Bad` lines show their
error before the newline or are read just to it, `Greedy` lines at it, where
`cleanup` takes the next line, `Stale` ones are UNSUBSCRIBEs without a key; of
"other" lines nothing is claimed. A malformed UNSUBSCRIBE is sent all the same, with what is in
the buffer, because `main` looks for -1 and `parse_key` returns 1. At the end
of its input the client disconnects and reads on: the second `kvs_disconnect`
fails and exits.

The server is what one client sees of it: `Serve` performs a request on
`KVTable`'s table, and keeps the lock after one that failed (`keeper`); while the
manager of another client keeps it (`OtherFails`, `OtherReturns`), requests,
the end of the session and the jobs wait. `WritePair` and
`DeletePair` are jobs, which leave one notification per entry of the client in
the key's list, and wait while the pipe is full. `ReadNotification` and
`ReadNothing` are rounds of `read_Thread`. `told` is the history of the changes
to keys the client was subscribed to at the time.

## 3. The runs

| run | instance | states | shows |
|---|---|---|---|
| backup_gate | 3 threads, `max_backups` 2, 2 commands each, 1 interrupted wait | 8 191 | `TypeOK`, `CounterInv`, `ChildrenBounded`; `BackupPassesGate` under fairness |
| registration_buffer | 3 requests, 3 managers, ring of 2, 1 spurious wakeup | 111 864 | `TypeOK`, `RingInv`, `NoLostWakeup`; refinement `FirstComeFirstServed`; `RequestsDispatched` under fairness |
| store_subscriptions | 1 job, 2 managers, 2 descriptors, 2 keys, 2 values, 8 inputs | 592 447 | `TypeOK`, `LeakMeansFailure`, `SubscribersUpToDate` |
| store_batches | 2 jobs, 1 manager, 3 keys (two in one bucket), 2 values, 5 inputs | 76 913 | `LockDiscipline`, `ChainsWellFormed`; refinement `JobsAtomic`; `EveryCallReturns` under fairness |
| session | 2 clients with own ids or one after the other under one, not `Careful`, 2 managers, 1 death | 988 303 | `TypeOK`, `AnswersMatch` |
| session_restart | 3 clients with own ids or all with one, `Careful`, 2 managers, one client dead at the start and 2 more deaths, the empty key | 26 923 | `ServerSurvives`; `ClientsServed`, `ManagersReturn` under fairness |
| job_parser | all files of up to 3 of 41 lines, complete or not, names of 2 characters, 2 pairs | 1 054 671 | `TypeOK`, `AtLineStart`, `ExecutedAsWritten`, `RejectedAlone`, `OneLineLost` |
| client | 67 inputs of up to 5 lines, typed or from a file, 3 changes by jobs or failures of others, pipe of 2 | 60 400 | `TypeOK`, `PrintedAreChanges`, `TypedIsDone`, `TypedIsTaken`; `ChangesPrinted`, `ClientEnds` under fairness |
| job_files | 2 threads, 4 directories of up to 7 entries with `.` and `..`, their path with a dot or without, buffer of 2, 2 backups a file, 2 failing opens | 1 070 250 | `TypeOK`, `EachFileOnce`, `NoFileSkipped`, `BackupsApart`; `ThreadsEnd` under fairness |
| signals | 2 managers, 2 clients, main and job thread, FIFO and ring of 1, 2 signals | 112 071 | `TypeOK`, `CutBySignals`; `SignalEndsServer` under fairness |

Two runs refute statements of the repository's own files:

| run | statement | what happens |
|---|---|---|
| store_write_returns | `kvs_write` returns 0 or 1 (operations.h:16-20) | a failed SUBSCRIBE keeps the lock, as `SUBSCRIBE [NONE]` in tests/client_tests.txt; the WRITE waits for ever |
| client_file | an input of commands, each on its line (tests/client_tests.txt) | read from a file, the lines after `SUBSCRIBE [a]` are swallowed with its key |

What the new properties say about behaviour that is easy to get wrong:

- **A job file's errors.** `get_next` always begins at the beginning of a line
  (`AtLineStart`): no rest of a faulty line is ever executed. An error that
  shows before the newline costs its line only (`RejectedAlone`), one that
  shows at it, or in a pair, costs the next line as well and no more
  (`OneLineLost`).
- **A client's input.** On a terminal each command does what it says and a
  faulty line sends nothing, a malformed UNSUBSCRIBE excepted (`TypedIsDone`);
  from a file neither holds. `ClientEnds` excepts the request for an empty key
  (`SUBSCRIBE []`), for whose key the manager waits while the client waits for
  the answer, and a manager that waits for good for a lock that another client's
  manager keeps.
- **Sessions.** A client waits for ever behind three things, and no other
  (`ClientsServed`, `ManagersReturn`): a manager whose client died in the
  handshake, which never comes back; a request for the empty key, of which the
  manager is free once that client dies; and a failed request, whose manager
  keeps everybody from the store until its client asks for something that
  succeeds. That a client dies after its failed request need not help: the
  `kvs_disconnect` its manager then performs gives the lock back only if it
  succeeds.
- **Notifications.** What is printed are the changes in order, with equal ones
  in a row once (`PrintedAreChanges`), however often the client is subscribed:
  a value written, deleted and written again is three changes, the same value
  written twice is one. The exception is a session that ends before the
  first notification: the uninitialised buffer may be printed.
- **Job files.** With both threads in one stream no file is run twice. One can be
  skipped: a thread whose pointer is out of date cuts, with its BACKUP, the name
  of a file that nobody has read yet, which then has no suffix (`cut` in
  `NoFileSkipped`). And its backup goes by the name of the other file (`stale` in
  `BackupsApart`). Otherwise two backups have one name only if their jobs' names
  agree in the first part that is not empty: `a.job` and `.a.job` do. A
  name that is cut after its suffix was tested sends a thread to another file, or
  to none, which ends the thread; where the directory's path has no dot, it ends
  the server (`TypeOK`, `ThreadsEnd`).
- **Signals.** SIGUSR1 ends the server (`SignalEndsServer`): by its message, once
  a manager takes it. It does not if all managers keep their clients, or if the
  handler waits for room in the FIFO in main_Thread, or in a thread with
  mutexBuffer: then nobody registers any more.

### Bounds, and why they are enough

- `MaxCommands` (BackupGate): with three threads and a limit of 2, two commands
  each let every thread find the counter full, wait for running and for ended
  children, and find none (failed forks). One interrupted wait exceeds the
  bound by one.
- `MaxWakeups`, `MAX_BUFFER_SIZE`, three requests: the ring fills up with one
  more request in hand, so that `main_Thread` sleeps; it wraps; three managers
  can sleep at once. A request is written once because nothing distinguishes a
  second request of the same client.
- `MaxInputs` (KVStore) counts commands, sessions and requests. Eight are
  enough to write two keys, open two sessions, subscribe, end one, open another
  on its descriptor, and write or delete again. Five allow two batches to
  overlap with a third command and a request, and a full pipe or a descriptor
  closed under a subscription.
- `PipeCapacity` 1 (KVStore): a pipe is full after one notification; what
  matters is that a writer can find it full, and that it can be emptied. Client
  has 2, the two notifications of a client that is subscribed twice.
- `TABLE_SIZE` 3: a bucket with two keys, one with one, one always empty.
- `MaxRequests` 1 and `MaxDeaths` 1 (Session): one request between the
  handshake and the disconnection; a second meets the same state. One death at
  any point, with another client in any state. The run with liveness,
  session_restart, starts in two states that `Spec` reaches (`MCInit`): a client
  with the id of all three was killed before it asked for a session, or one with
  an id of its own was killed in the handshake and its manager is lost. From there
  two clients and one or two managers have all the ways to stop each other, one by
  one and together; each exception of the two properties but `clobbered` is needed
  in it. `clobbered` needs two sessions that end side by side, with both managers
  free, which the run without liveness has.
- `MaxLines` 3 (JobParser): an error can take the next line, and the third shows
  that it takes no more. `MAX_STRING_SIZE` 3 and `MAX_WRITE_SIZE` 3 put names and
  lists on both sides of their limits; `UINT_MAX` 20 numbers of two digits.
- Scripts (Client): every pair of a line, good or faulty, and a command; each
  faulty line before two empty ones; double subscriptions. `MAX_STRING_SIZE` 20
  makes parse_key's read longer than a line and shorter than two, as 39 is. With
  `MaxChanges` 3 a key can be written, deleted and written again, or changed while
  another client's manager takes the lock and gives it back.
- `Slots` 2 and directories of up to seven entries (JobFiles): the buffer is
  filled up to four times, under one thread's running job as well; `MaxFailures` 2
  ends both threads.
- `MaxSignals` 2: one signal's message in the FIFO fills it for the other's
  handler; both semantics of signal(), and every thread, are chosen among.

Symmetry is used in runs of invariants and of step properties only, never in
those with liveness. Deadlock checking is off where the system really may stop:
clients, commands and requests come to an end, a thread may wait for a lock
that was kept or in an open whose client is dead; job threads, backups and
clients end; a server that was killed or exited does nothing more.

### Fairness

Weak fairness, per thread, of what a thread does when it can run: that is what
the scheduler of the operating system gives. Mutexes are granted to a thread
that keeps trying while others come and go only finitely often (bounded
commands), so weak fairness is enough. In addition:

- BackupGate: a child, which only writes a file, exits. The fork itself is *not*
  assumed: it needs the table's lock. Signals are not assumed.
- RegistrationBuffer: nothing is assumed of clients, neither that they connect
  nor that their sessions end.
- KVStore: a client that is alive reads its notifications, as its `read_Thread`
  does in an endless loop. That it stays alive is not assumed.
- Session: clients and managers go on when they can. What a client that is
  connected asks for, and whether it ever asks or leaves, is up to its user; so are
  starting and dying. With bounded requests the lock is kept and given back
  finitely often, so that a manager that waits for it gets it or waits for good.
- Client: main runs on a file, and within a command on a terminal; whether the
  user types another line is not assumed, nor that a job changes anything.
  The manager serves when it has the lock and `read_Thread` reads; that another
  client's manager gives the lock back is not assumed.
- JobFiles: each job thread; that includes its job coming to an end, so it
  stands on KVStore's `EveryCallReturns` and inherits its exception.
- Signals: main_Thread, managers and handlers. Neither signals nor clients are.

## 4. What is proved

For every value of the constants allowed by the modules' assumptions, by
`tlapm`, with no step left out. Each invariant is proved from an inductive one,
whose parts are named definitions of the proof module.

- `BackupGateProofs`: `TypeOK`; `GateHeld` (the mutex is held exactly by the
  thread that tests the counter or waits); `CounterInv`; `ChildrenBounded`. The
  last two need an inductive invariant that adds the two regimes of the counter: below the
  limit every child and every pending fork is counted; at the limit children
  and pending forks are within the larger bound. The step that matters is a
  thread let through the gate without a child left to reap: then there are
  only pending forks, and fewer of them than job threads; a wait that a signal
  cut short is counted. Cardinality facts
  about the set of pending forks are lemmas. Assumptions: `Jobs` is finite,
  `max_backups` positive (main.c rejects 0).
- `RegistrationBufferProofs`: `TypeOK`, `MutexHeld` and `RingInv`, which are
  inductive only together: that `count` stays in range needs that the thread
  past its loop still owns the mutex, and the ring equation needs `count` in
  range. `NoLostWakeup`, with the number of sleeping and of woken managers as
  cardinalities. `FirstComeFirstServed`, the safety part of the refinement of
  RegistrationQueue: every step of the threads is a step of the queue or none;
  it adds `HandedInv`, what main_Thread has in hand and what a manager took.
  Any finite set of managers, any set of requests, any size.
- `JobFilesProofs`: `TypeOK` and `EachFileOnce`, from an inductive invariant of
  four parts. The slots filled last hold the entries of the directory before
  `got`, each as it is or cut (`StreamOK`; cutting twice changes nothing,
  `CutIdempotent`); whoever reads the stream holds the mutex and its entry is the
  last one returned (`ThreadsOK`); a name that passed the test of its suffix is still
  the directory's own when it is copied, or has been cut by another thread
  (`CopyOK`); the job files taken so far are names before the read position, which
  only moves on (`FilesOK`). A name that entry_files accepts is not a cut one by
  `CutAssumption`, so it is the directory's own, behind all names taken. `NoFileSkipped` adds `SkipInv`: every name that was passed is
  run, failed, cut, or in a thread's hands, unless the server crashed; what is cut in the buffer was cut by its
  own job or by a stale pointer; and each failure ended a thread, until the
  directory is read. `BackupsApart` adds `NamesInv`: a backup has the name of the
  thread's own job unless the buffer was filled again in between. The first attempt at
  this proof failed where the first part of a name is empty, which `strtok` skips:
  the property and the run's directories now have hidden files. Any set of
  threads, any directories whose names differ, any buffer.
- `KVStoreProofs`: every operation of the hash table gives a table of the right
  shape whose nodes are in their buckets and have different keys, and what each
  does to the contents (`read_pair`) and to the lists. `TypeOK`,
  `LockDiscipline` and `ChainsWellFormed`; the first is inductive only
  together with the second: a job's loop counter and pending notifications make
  sense only for the job that holds the lock. `LeakMeansFailure` rests on both:
  only an execution that fails leaves the lock with its manager, and only that
  manager's next execution changes its result or gives the lock back.
  `JobsAtomic`, the refinement of AtomicStore, step by step: a round of a command
  changes neither what the table will be nor what will have been printed, so the
  command has its effect in the step that takes the lock (`AtomicInv`).
  `SubscribersUpToDate`, from `SubsInv`: descriptors of live sessions are apart
  (`PipesApart`), a session that ended has nobody listening (`EndedTold`), the
  lock's holder owes news of one key (`NewsOK`), and everybody else has been told
  (`ToldOK`). Any table size, keys, commands, numbers of threads;
  `TableAssumption` and `StoreAssumption`.
- `SignalsProofs`: `TypeOK` and `CutBySignals`, from `HandlingOK` (a thread in the
  handler, what it was interrupted in, and whose mutex it keeps), `QueuesOK`,
  `SessionsOK` (a client belongs to one manager) and `CutOK`: the clients that were
  cut, the sessions about to end for a signal and the threads in the handler are
  together no more than the signals. Any threads and clients.
- `SessionProofs`: `TypeOK`; `ServerSurvives` where ids are used again only when
  the server is done with them (`Careful`); `AnswersMatch`. The basis of all three is
  `SessionInv`: a client is in the queue once or with one manager
  (`RegisteredOK`), neither end of a handshake is ahead of the other (`MeetingsOK`),
  a path leads to no other process's FIFO while the server may still open it
  (`PathsOK`, `IdsOK`), and every descriptor in use is one of its manager's three
  numbers (`DescriptorsOK`), so that one is free (`FreeNumber`, a pigeonhole
  argument). `AnswersMatch` adds `AnswersInv`: while no descriptor was
  closed for another manager, a number that was opened and not yet closed is the
  manager's own (`HeldOK`), a manager reads requests of its own client only and is
  not ahead of it (`WorksOK`), and for each client what it has been told and by whom
  it will be told (`StageOK`). Any clients, managers, ids and requests.
- `JobParserProofs`: `TypeOK` and `AtLineStart`. The inductive invariant,
  `ParserInv`, says that a command that is being parsed began on a line of its own
  (`CallsOK`), so that the lines bound the calls. The lemmas say of each way to leave
  a command that it ends behind a newline or at the end (`LeftFor`): what `cleanup`
  skips, where the reads stop. That there are as many newlines as lines
  (`EndedLines`) is an argument about all files: the first line at which it failed
  would contradict the step to it (`FirstFailure`), which does the work of an
  induction.
  `ExecutedAsWritten`, `RejectedAlone` and `OneLineLost`, from one invariant,
  `LinesInv`, on top of it. The file has a layout `f`, the places where its lines
  begin (`FileIs`); an entry of the log means what its line does (`LogOK`); a line that is
  due has been taken or is where the parser is now, and after a greedy one this holds
  of the next but one (`OrderOK`); and between two rounds of a list, the parser is at
  a place of the line up to which the grammar goes on, with as many names or pairs
  read, and the same, as the line has before it (`ListAt`). Each kind of call
  is a lemma (`OpenListLines`, `ParsePairLines`, `ParseKeyLines`, ...): what
  read_string or read_uint makes of the line at that place, where cleanup goes
  from there, and that the class of the line allows just this outcome. That the three
  properties speak of the end of the file only, and `LinesInv` of every moment, is
  what makes it inductive. Any lines, complete or not, any limits;
  `LinesAssumption`: a line holds no newline and is of its class.
- `ClientProofs`: `TypeOK`, from what the reads of the parser and the operations of
  the table return, and `PrintedAreChanges`. The inductive invariant `ReaderInv`
  splits the changes the client was told of into those that read_Thread has read
  (`r`) and a rest: `printed` is `Squeeze(r)`, the two buffers hold the last of `r`,
  and the rest, which is what the pipe holds until the session ends, completes
  them, up to repetitions: `Squeeze(r \o rest) = Squeeze(told)`. A pipe that is
  closed with notifications in it makes the rest any sequence, and what is printed
  stays a prefix. The case apart is `GarbageOnly`: a thread that has read nothing
  when its session ends may print its unwritten buffer, once. The lemmas about `Squeeze`: one more element
  (`SqueezeStep`), copies count once (`SqueezeCopies`), equal results stay equal
  (`SqueezeSame`), what follows changes nothing before (`SqueezePrefix`). They are
  about all sequences; `SequencesByStep`, an induction for the members of a set,
  is derived from the smallest number at which it would fail.
  `TypedIsDone` and `TypedIsTaken`, from one invariant, `TypedIn`. A text has a
  layout (`LayoutExists`): the places where its lines begin, each behind the newline
  of the one before, so that `LineOf` is the number of the line (`LineOfLaid`). On a
  terminal main is, between two commands, where a line begins, unless the line is
  of class "other"; in a command it is behind that line's keyword (`On`). After
  a line that has begun comes the next, or after a greedy one the next but one
  (`Followed`), and an entry of the log means its line (`Meant`). One lemma says that
  a line carried out keeps this, wherever it stops as its class demands
  (`Stops`, `LineLogged`), and one for each kind of line that it does stop there:
  without a command (`LineWithoutCommand`), with a key (`LineWithKey`), with a
  number (`LineWithDelay`) and DISCONNECT (`LineOfDisconnect`).
  Any input, keys, values, size of the pipe and of parse_key's buffer, and number
  of changes; `TableAssumption`, `ClientAssumption`, `LinesAssumption` (lines are
  characters without a newline and are of their classes) and
  `BuffersAssumption`: the initial and the unwritten buffer hold no notification.

All invariants of the passing runs are proved. Only model-checked: liveness, which is out of
the prover's reach as is `ENABLED`; and that the lines of the configurations are of
the classes given for them, which TLC evaluates when it reads the assumptions.
`Find` and `remove_notif_pipe` are library operators on sequences, whose
properties are proved from their definitions, not over the loops of the code.

## 5. Plan

Every component the server and its clients run is in a module by now. What is
left, the most important first:

1. **Server**: Session with KVStore's answers instead of arbitrary ones, so that
   a lock is kept for the store's reasons only, and keeps jobs waiting as well.
2. Notifications in Session: the third descriptor is opened and closed there, but
   nothing is written to it.

The number of runs is kept small: where a new module asks a question of its
own, a run that asks less makes room for it.

## 6. What is not modelled, and why

- **The end of the server.** `dispatch_threads` joins the manager threads
  (main.c:491-497), which never return, so main's last waits, `kvs_terminate`
  and `free_table` are never reached. There is nothing to check beyond that.
- **Failing system calls** other than those named in the modules (malloc,
  pthread_create, mkfifo, read errors): the code exits or carries on blindly.
- **Strings** in the store: lengths, buffers, the layout of output. Keys and
  values are atomic there; the parsers' modules have lengths.
- **Undefined behaviour beyond a choice of values**: an index of -1 into the
  table, more than 15 digits, entries of a directory over the middle of others.
- **Standard output of the children**: a backup's child exits with the copy of
  the server's buffered output, which may be written twice (operations.c:174).
- **Starvation on the read-write lock** (operations.c:54): WRITE and DELETE wait
  for all readers, and with bounded inputs there is no endless stream of them.
- **Unused code**: the semaphores, `filter_job_files`, `write_uint`,
  `kvs_wait_backup`, the setters declared in operations.h, `parse_list`.
- The repository's binaries, debug symbols, sample jobs and their backups.

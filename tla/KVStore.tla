------------------------------ MODULE KVStore ------------------------------
(***************************************************************************)
(* The key-value store shared by the server's threads: the hash table of   *)
(* kvs.c behind its read-write lock, the commands that job threads run on  *)
(* it (operations.c), the subscribe, unsubscribe and disconnect requests   *)
(* that manager threads run on it for their clients, and the notifications *)
(* that a writing job sends while it holds the lock.                       *)
(*                                                                         *)
(* A session is reduced to what the store sees of it: the descriptor of    *)
(* its notification pipe, whether the client still reads it, and the       *)
(* client's requests.  A session's descriptor is any number that is not in *)
(* use: open() gives back the number that another session has closed.      *)
(***************************************************************************)
EXTENDS KVTable

CONSTANTS
  Jobs,          (* job threads (get_file)                                 *)
  Managers,      (* manager threads                                        *)
  Commands,      (* the commands in the job files                          *)
  PipeCapacity,  (* notifications that fit into a pipe                     *)
  MaxInputs,     (* bound: commands, sessions and requests in a behaviour  *)
  NOBODY,        (* no thread holds the lock for writing                   *)
  NoPipe,        (* no session                                             *)
  NoSub, NoNews, Gone,  (* see told                                        *)
  NoCommand      (* no command, no request                                 *)

Threads == Jobs \cup Managers

CommandOf(op, A) == [op : {op}, args : A]

ASSUME StoreAssumption ==
  /\ Jobs \cap Managers = {}
  /\ NOBODY \notin Threads
  /\ NoPipe \notin Pipes
  /\ {NoSub, NoNews, Gone} \cap Values = {}
  /\ NoSub # NoNews /\ NoSub # Gone /\ NoNews # Gone
  /\ PipeCapacity \in Nat \ {0}
  /\ MaxInputs \in Nat
  /\ Commands \subseteq
       CommandOf("write", Seq(Keys \X Values))
         \cup CommandOf("read", Seq(Keys)) \cup CommandOf("delete", Seq(Keys))
         \cup CommandOf("show", {<< >>}) \cup CommandOf("backup", {<< >>})
  /\ NoCommand \notin Commands

VARIABLES
  table,    (* kvs_table->table                                            *)
  writer,   (* the thread that holds tablelock for writing, or NOBODY      *)
  readers,  (* the threads that hold it for reading                        *)
  pc,       (* where each thread is                                        *)
  cmd,      (* the command of a job, the request of a manager              *)
  idx,      (* pairs, keys or buckets of the command already done          *)
  out,      (* what the job has written to its .out or .bck file           *)
  notify,   (* pipes that a writing job has still to notify                *)
  pipe,     (* f_notif of each manager's session, or NoPipe                *)
  reading,  (* managers whose client has its notification pipe open        *)
  pending,  (* notifications in each client's pipe, not read yet           *)
  result,   (* the char result of each manager: TRUE for '1'               *)
  told,     (* see below                                                   *)
  inputs    (* commands, sessions and requests so far                      *)

(* told is a history variable: what each client has been told of each key. *)
(* NoSub: it holds no subscription that the server has acknowledged.       *)
(* NoNews: subscribed, and not notified since.  Gone: notified that the    *)
(* key was deleted, which ends the subscription.  Otherwise the value of   *)
(* the last notification.                                                  *)

locks == <<writer, readers>>
jobVars == <<cmd, idx, out, notify>>
sessionVars == <<pipe, reading, pending, result, told>>
vars == <<table, locks, pc, jobVars, sessionVars, inputs>>

Requests == [op : {"subscribe", "unsubscribe"}, key : Keys]
              \cup {[op |-> "disconnect"]}

Writes(c) == c.op \in {"write", "delete"}

(* The key of the item i of a command that writes. *)
KeyOf(c, i) == IF c.op = "write" THEN c.args[i][1] ELSE c.args[i]

(* The loop bound: pairs or keys given, buckets to show, one fork. *)
Items(c) ==
  CASE c.op = "show"   -> TABLE_SIZE
    [] c.op = "backup" -> 1
    [] OTHER           -> Len(c.args)

(* pthread_rwlock_unlock by a job. *)
Unlock(j) ==
  /\ writer' = IF writer = j THEN NOBODY ELSE writer
  /\ readers' = readers \ {j}

Sessions == {m \in Managers : pipe[m] # NoPipe}

-----------------------------------------------------------------------------
(* Faulty variants of actions below.                                       *)

(* kvs_delete takes the lock for reading. *)
LockTableShared(j) ==
  /\ pc[j] = "lock"
  /\ writer = NOBODY
  /\ IF cmd[j].op = "write"
     THEN readers = {} /\ writer' = j /\ UNCHANGED readers
     ELSE readers' = readers \cup {j} /\ UNCHANGED writer
  /\ pc' = [pc EXCEPT ![j] = "work"]
  /\ UNCHANGED <<table, jobVars, sessionVars, inputs>>

(* The commands that only read take no lock. *)
LockTableToWriteOnly(j) ==
  /\ pc[j] = "lock"
  /\ IF Writes(cmd[j])
     THEN writer = NOBODY /\ readers = {} /\ writer' = j /\ UNCHANGED readers
     ELSE UNCHANGED locks
  /\ pc' = [pc EXCEPT ![j] = "work"]
  /\ UNCHANGED <<table, jobVars, sessionVars, inputs>>

(* The unlock at the end of a command is missing. *)
FinishLocked(j) ==
  /\ pc[j] = "work"
  /\ notify[j] = << >>
  /\ idx[j] = Items(cmd[j])
  /\ pc' = [pc EXCEPT ![j] = "idle"]
  /\ cmd' = [cmd EXCEPT ![j] = NoCommand]
  /\ idx' = [idx EXCEPT ![j] = 0]
  /\ out' = [out EXCEPT ![j] = {}]
  /\ UNCHANGED <<table, locks, notify, sessionVars, inputs>>

(* f_notif is not closed at the end of a session. *)
CloseSessionLeaky(m) ==
  /\ pc[m] = "closing"
  /\ pc' = [pc EXCEPT ![m] = "free"]
  /\ reading' = reading \ {m}
  /\ pending' = [pending EXCEPT ![m] = 0]
  /\ UNCHANGED <<table, locks, jobVars, pipe, result, told, inputs>>

(* A request that fails is the only one that releases the lock. *)
ReleaseSwapped(m, ok) == writer' = IF ok THEN writer ELSE NOBODY

-----------------------------------------------------------------------------
Init ==
  /\ table = create_hash_table
  /\ writer = NOBODY /\ readers = {}
  /\ pc = [t \in Threads |-> IF t \in Jobs THEN "idle" ELSE "free"]
  /\ cmd = [t \in Threads |-> NoCommand]
  /\ idx = [j \in Jobs |-> 0]
  /\ out = [j \in Jobs |-> {}]
  /\ notify = [j \in Jobs |-> << >>]
  /\ pipe = [m \in Managers |-> NoPipe]
  /\ reading = {}
  /\ pending = [m \in Managers |-> 0]
  /\ result = [m \in Managers |-> TRUE]
  /\ told = [m \in Managers |-> [k \in Keys |-> NoSub]]
  /\ inputs = 0

Input == inputs < MaxInputs /\ inputs' = inputs + 1

(* run_job has parsed a command and calls its kvs_ function. *)
Start(j, c) ==
  /\ pc[j] = "idle"
  /\ Input
  /\ pc' = [pc EXCEPT ![j] = "lock"]
  /\ cmd' = [cmd EXCEPT ![j] = c]
  /\ UNCHANGED <<table, locks, idx, out, notify, sessionVars>>

(* kvs_write and kvs_delete take the lock for writing, kvs_read, kvs_show  *)
(* and kvs_backup for reading.                                             *)
LockTable(j) ==
  /\ pc[j] = "lock"
  /\ writer = NOBODY
  /\ IF Writes(cmd[j])
     THEN readers = {} /\ writer' = j /\ UNCHANGED readers
     ELSE readers' = readers \cup {j} /\ UNCHANGED writer
  /\ pc' = [pc EXCEPT ![j] = "work"]
  /\ UNCHANGED <<table, jobVars, sessionVars, inputs>>

(* One round of the command's loop.  A pair written or deleted leaves the  *)
(* pipes to notify, which are served before the next round.                *)
Working(j, op) ==
  /\ pc[j] = "work"
  /\ cmd[j].op = op
  /\ notify[j] = << >>
  /\ idx[j] < Items(cmd[j])
  /\ idx' = [idx EXCEPT ![j] = @ + 1]
  /\ UNCHANGED <<locks, pc, cmd, sessionVars, inputs>>

WritePair(j) ==
  /\ Working(j, "write")
  /\ LET pair == cmd[j].args[idx[j] + 1]
     IN  /\ table' = write_pair(table, pair[1], pair[2])
         /\ notify' = [notify EXCEPT ![j] = NotifPipes(table, pair[1])]
  /\ UNCHANGED out

DeletePair(j) ==
  /\ Working(j, "delete")
  /\ LET i   == idx[j] + 1
         key == cmd[j].args[i]
     IN  /\ table' = delete_pair(table, key)
         /\ notify' = [notify EXCEPT ![j] = NotifPipes(table, key)]
         /\ out' = [out EXCEPT ![j] = @ \cup {<<i, Has(table, key)>>}]

ReadPair(j) ==
  /\ Working(j, "read")
  /\ LET i == idx[j] + 1
     IN  out' = [out EXCEPT ![j] =
                   @ \cup {<<i, read_pair(table, cmd[j].args[i])>>}]
  /\ UNCHANGED <<table, notify>>

ShowBucket(j) ==
  /\ Working(j, "show")
  /\ out' = [out EXCEPT ![j] = @ \cup Listing(table, idx[j])]
  /\ UNCHANGED <<table, notify>>

(* fork under the read lock: the child prints its own copy of the table as *)
(* it is at this moment.                                                   *)
Fork(j) ==
  /\ Working(j, "backup")
  /\ out' = [out EXCEPT ![j] = UNION {Listing(table, b) : b \in Buckets}]
  /\ UNCHANGED <<table, notify>>

(* The session whose notification pipe has descriptor p, if its client     *)
(* still reads it.                                                         *)
Audience(p) == {m \in Sessions \cap reading : pipe[m] = p}

(* What a notification about a key says. *)
News(j) ==
  IF cmd[j].op = "delete" THEN Gone ELSE cmd[j].args[idx[j]][2]

(* write_to_notif_pipe: it blocks while the pipe is full; on a closed      *)
(* descriptor, or when the reader is gone (SIGPIPE is ignored), write_all  *)
(* fails and its result is not looked at.  A number that was closed may    *)
(* have become any file of the server.  If it is no notification pipe, it  *)
(* counts as closed here: the bytes then go to a job's file or to a        *)
(* session's FIFO, and what they do there is not modelled.                 *)
Notify(j) ==
  /\ notify[j] # << >>
  /\ LET heard == Audience(Head(notify[j]))
         key   == KeyOf(cmd[j], idx[j])
     IN  /\ \A m \in heard : pending[m] < PipeCapacity
         /\ pending' = [m \in Managers |->
                          pending[m] + IF m \in heard THEN 1 ELSE 0]
         /\ told' = [m \in Managers |->
                       IF m \in heard /\ told[m][key] \notin {NoSub, Gone}
                       THEN [told[m] EXCEPT ![key] = News(j)]
                       ELSE told[m]]
  /\ notify' = [notify EXCEPT ![j] = Tail(@)]
  /\ UNCHANGED <<table, locks, pc, cmd, idx, out, pipe, reading, result, inputs>>

(* The command's unlock and return. *)
Finish(j) ==
  /\ pc[j] = "work"
  /\ notify[j] = << >>
  /\ idx[j] = Items(cmd[j])
  /\ Unlock(j)
  /\ pc' = [pc EXCEPT ![j] = "idle"]
  /\ cmd' = [cmd EXCEPT ![j] = NoCommand]
  /\ idx' = [idx EXCEPT ![j] = 0]
  /\ out' = [out EXCEPT ![j] = {}]
  /\ UNCHANGED <<table, notify, sessionVars, inputs>>

-----------------------------------------------------------------------------
(* A manager has opened a client's three FIFOs. *)
OpenSession(m, p) ==
  /\ pc[m] = "free"
  /\ \A n \in Managers : pipe[n] # p
  /\ Input
  /\ pc' = [pc EXCEPT ![m] = "ready"]
  /\ pipe' = [pipe EXCEPT ![m] = p]
  /\ reading' = reading \cup {m}
  /\ UNCHANGED <<table, locks, jobVars, pending, result, told>>

(* get_next2 has read a request of a client. *)
Receive(m, r) ==
  /\ pc[m] = "ready"
  /\ m \in reading
  /\ Input
  /\ pc' = [pc EXCEPT ![m] = "lock"]
  /\ cmd' = [cmd EXCEPT ![m] = r]
  /\ UNCHANGED <<table, locks, idx, out, notify, sessionVars>>

(* get_next2 finds the client gone and answers CMD_DISCONNECT. *)
HangUp(m) ==
  /\ pc[m] = "ready"
  /\ m \notin reading
  /\ pc' = [pc EXCEPT ![m] = "lock"]
  /\ cmd' = [cmd EXCEPT ![m] = [op |-> "disconnect"]]
  /\ UNCHANGED <<table, locks, idx, out, notify, sessionVars, inputs>>

(* pthread_rwlock_wrlock by a manager.  When the manager holds the lock    *)
(* itself since a request of its that failed, glibc returns EDEADLK, which *)
(* is not looked at, and the request goes on under the old lock.           *)
LockForRequest(m) ==
  /\ pc[m] = "lock"
  /\ \/ writer = NOBODY /\ readers = {}
     \/ writer = m
  /\ writer' = m
  /\ pc' = [pc EXCEPT ![m] = "exec"]
  /\ UNCHANGED <<table, readers, jobVars, sessionVars, inputs>>

(* kvs_subs_or_unsubs and kvs_disconnect after taking the lock: only a     *)
(* request that succeeds releases it.                                      *)
Outcome(m) ==
  CASE cmd[m].op = "subscribe" ->
         execute_subscribe(table, cmd[m].key, pipe[m])
    [] cmd[m].op = "unsubscribe" ->
         execute_unsubscribe(table, cmd[m].key, pipe[m])
    [] cmd[m].op = "disconnect" ->
         execute_disconnect(table, pipe[m])

(* The unlock after a request: missing on the paths that return early. *)
Release(m, ok) == writer' = IF ok THEN NOBODY ELSE writer

ToldAfter(m) ==
  CASE cmd[m].op = "subscribe" ->
         IF told[m][cmd[m].key] \in {NoSub, Gone}
         THEN [told[m] EXCEPT ![cmd[m].key] = NoNews] ELSE told[m]
    [] cmd[m].op = "unsubscribe" -> [told[m] EXCEPT ![cmd[m].key] = NoSub]
    [] cmd[m].op = "disconnect"  -> [k \in Keys |-> NoSub]

Execute(m) ==
  /\ pc[m] = "exec"
  /\ LET o  == Outcome(m)
         ok == o.code = 0
     IN  /\ table' = o.ht
         /\ Release(m, ok)
         /\ result' = [result EXCEPT ![m] = ok]
         /\ told' = IF ok \/ cmd[m].op = "disconnect"
                    THEN [told EXCEPT ![m] = ToldAfter(m)] ELSE told
  /\ pc' = [pc EXCEPT ![m] =
              IF cmd[m].op = "disconnect" THEN "closing" ELSE "ready"]
  /\ cmd' = [cmd EXCEPT ![m] = NoCommand]
  /\ UNCHANGED <<readers, idx, out, notify, pipe, reading, pending, inputs>>

(* After CMD_DISCONNECT the manager closes f_notif, whatever the result. *)
CloseSession(m) ==
  /\ pc[m] = "closing"
  /\ pc' = [pc EXCEPT ![m] = "free"]
  /\ pipe' = [pipe EXCEPT ![m] = NoPipe]
  /\ reading' = reading \ {m}
  /\ pending' = [pending EXCEPT ![m] = 0]
  /\ UNCHANGED <<table, locks, jobVars, result, told, inputs>>

(* The client's read_Thread takes a notification out of the pipe. *)
Drain(m) ==
  /\ m \in reading
  /\ pending[m] > 0
  /\ pending' = [pending EXCEPT ![m] = @ - 1]
  /\ UNCHANGED <<table, locks, pc, jobVars, pipe, reading, result, told, inputs>>

(* The client dies, or closes its pipes on its way out. *)
ClientGone(m) ==
  /\ m \in reading
  /\ reading' = reading \ {m}
  /\ pending' = [pending EXCEPT ![m] = 0]
  /\ UNCHANGED <<table, locks, pc, jobVars, pipe, result, told, inputs>>

JobStep(j) ==
  \/ LockTable(j)
  \/ WritePair(j) \/ DeletePair(j) \/ ReadPair(j) \/ ShowBucket(j) \/ Fork(j)
  \/ Notify(j)
  \/ Finish(j)

ManagerStep(m) ==
  HangUp(m) \/ LockForRequest(m) \/ Execute(m) \/ CloseSession(m)

Next ==
  \/ \E j \in Jobs : (\E c \in Commands : Start(j, c)) \/ JobStep(j)
  \/ \E m \in Managers :
       \/ \E p \in Pipes : OpenSession(m, p)
       \/ \E r \in Requests : Receive(m, r)
       \/ ManagerStep(m)
       \/ Drain(m)
       \/ ClientGone(m)

Spec == Init /\ [][Next]_vars

(* The scheduler runs every thread that can run, and a client that is      *)
(* alive goes on reading its notifications, as its read_Thread does.       *)
Fairness ==
  /\ \A j \in Jobs : WF_vars(JobStep(j))
  /\ \A m \in Managers : WF_vars(ManagerStep(m)) /\ WF_vars(Drain(m))

FairSpec == Spec /\ Fairness
-----------------------------------------------------------------------------
JobOK(j) ==
  /\ pc[j] \in {"idle", "lock", "work"}
  /\ cmd[j] \in IF pc[j] = "idle" THEN {NoCommand} ELSE Commands
  /\ idx[j] \in IF pc[j] = "work" THEN 0 .. Items(cmd[j]) ELSE {0}
  /\ notify[j] # << >> => pc[j] = "work" /\ Writes(cmd[j]) /\ idx[j] > 0

ManagerOK(m) ==
  /\ pc[m] \in {"free", "ready", "lock", "exec", "closing"}
  /\ cmd[m] \in IF pc[m] \in {"lock", "exec"} THEN Requests ELSE {NoCommand}
  /\ pipe[m] = NoPipe <=> pc[m] = "free"

(* Every variable keeps the shape its C counterpart has: the nodes of the  *)
(* table, the loop counter of a command between 0 and its bound, a pipe    *)
(* that never holds more than it can.                                      *)
TypeOK ==
  /\ table \in HashTable
  /\ writer \in Threads \cup {NOBODY}
  /\ readers \subseteq Jobs
  /\ pc \in [Threads -> {"idle", "free", "ready", "lock", "work", "exec",
                         "closing"}]
  /\ cmd \in [Threads -> Commands \cup Requests \cup {NoCommand}]
  /\ idx \in [Jobs -> Nat]
  /\ notify \in [Jobs -> Seq(Pipes)]
  /\ pipe \in [Managers -> Pipes \cup {NoPipe}]
  /\ reading \subseteq Sessions
  /\ pending \in [Managers -> 0 .. PipeCapacity]
  /\ result \in [Managers -> BOOLEAN]
  /\ told \in [Managers -> [Keys -> Values \cup {NoSub, NoNews, Gone}]]
  /\ inputs \in 0 .. MaxInputs
  /\ \A j \in Jobs : JobOK(j)
  /\ \A m \in Managers : ManagerOK(m)

(* tablelock excludes: a job changes the table only alone, jobs read it    *)
(* only while nobody changes it, and a request runs only alone             *)
(* (operations.c:54-61, 71-87, 97-115, 125-138, 147-149, 193, 217).        *)
LockDiscipline ==
  /\ writer # NOBODY => readers = {}
  /\ \A j \in Jobs :
       /\ writer = j <=> pc[j] = "work" /\ Writes(cmd[j])
       /\ j \in readers <=> pc[j] = "work" /\ ~Writes(cmd[j])
  /\ \A m \in Managers : pc[m] = "exec" => writer = m

(* Whatever sequence of writes, deletions and subscriptions, interrupted   *)
(* by whatever else the lock lets in: every node stays in the bucket of    *)
(* its key, and no key gets a second node (kvs.c:87-118, 149-183).         *)
ChainsWellFormed == WellFormed(table)

(* A manager holds the lock outside a request only after a request of its  *)
(* failed; one that succeeds later gives it back (operations.c:193-206,    *)
(* 217-225).                                                               *)
Leaked == writer \in Managers /\ pc[writer] # "exec"

LeakMeansFailure == Leaked => ~result[writer]

(* Between two commands, whoever holds an acknowledged subscription to a   *)
(* key and still reads its pipe is in the key's list, and the last value   *)
(* it was told is the value of the key: no write is lost on it, none is    *)
(* told out of order, however sessions and their descriptors come and go   *)
(* (kvs.c:69-82, 100, 169, 255-277; main.c:179-240).  Of keys a session    *)
(* has not asked for nothing is claimed: it may be told of them when its   *)
(* descriptor was left in a list by an earlier one (kvs.c:315).            *)
SubscribersUpToDate ==
  writer \notin Jobs =>
    \A m \in reading : \A k \in Keys :
      told[m][k] \notin {NoSub, Gone} =>
        /\ Has(table, k)
        /\ Contains(NotifPipes(table, k), pipe[m])
        /\ told[m][k] \in {NoNews, read_pair(table, k)}

(* The jobs' commands are atomic (AtomicStore).  A command takes effect    *)
(* when it gets the lock: the store is what the table will be when the     *)
(* command that holds the lock has done its remaining items, the answer    *)
(* what is printed already and what will be.  Of a command c, n items are  *)
(* done.                                                                   *)
StillToCome(c, n, k) == {i \in n + 1 .. Items(c) : KeyOf(c, i) = k}

StoreAfter ==
  [k \in Keys |->
     LET coming == StillToCome(cmd[writer], idx[writer], k)
     IN  IF writer \in Jobs /\ coming # {}
         THEN IF cmd[writer].op = "write"
              THEN cmd[writer].args[CHOOSE i \in coming : \A h \in coming : h <= i][2]
              ELSE NoValue
         ELSE read_pair(table, k)]

StillToPrint(ht, c, n) ==
  LET items == n + 1 .. Items(c)
  IN  CASE c.op = "write"  -> {}
        [] c.op = "read"   -> {<<i, read_pair(ht, c.args[i])>> : i \in items}
        [] c.op = "delete" ->
             {<<i, /\ Has(ht, c.args[i])
                   /\ \A h \in n + 1 .. i - 1 : c.args[h] # c.args[i]>>
                : i \in items}
        [] c.op = "show"   -> UNION {Listing(ht, b - 1) : b \in items}
        [] c.op = "backup" ->
             UNION {Listing(ht, b) : b \in IF items = {} THEN {} ELSE Buckets}

Atomic == INSTANCE AtomicStore
  WITH store  <- StoreAfter,
       call   <- [j \in Jobs |-> cmd[j]],
       done   <- {j \in Jobs : pc[j] = "work"},
       answer <- [j \in Jobs |->
                    IF pc[j] = "work"
                    THEN out[j] \cup StillToPrint(table, cmd[j], idx[j]) ELSE {}]

JobsAtomic == Atomic!Spec

(* Every command and every request that has been started returns, unless   *)
(* a manager leaves with the lock: neither a full notification pipe nor a  *)
(* client that dies, nor a descriptor closed under a subscription stops    *)
(* the threads for good (kvs.c:46-82; operations.c:47-139, 187-226).       *)
EveryCallReturns ==
  \A t \in Threads :
    pc[t] = "lock" ~> (pc[t] \in {"idle", "ready", "closing"} \/ Leaked)

-----------------------------------------------------------------------------
(* A statement of the repository's comments that the code does not keep.   *)

(* operations.h:16-20: kvs_write returns, "0 if the pairs were written     *)
(* successfully, 1 otherwise".                                             *)
WriteReturns ==
  \A j \in Jobs :
    pc[j] = "lock" /\ cmd[j].op = "write" ~> pc[j] = "idle"
=============================================================================

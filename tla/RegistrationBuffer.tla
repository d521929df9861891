------------------------- MODULE RegistrationBuffer -------------------------
(***************************************************************************)
(* How connection requests travel from the registration FIFO to the        *)
(* manager threads: main_Thread reads them into the ring buffer buf, the   *)
(* manager threads take them out, and the two sides wait for each other on *)
(* the condition variables podeProd and podeCons under mutexBuffer.        *)
(***************************************************************************)
EXTENDS Integers, Sequences, FiniteSets

CONSTANTS
  Requests,         (* connection requests, one per client                 *)
  Managers,         (* manager threads, MAX_SESSION_COUNT of them          *)
  Main,             (* the thread running main_Thread                      *)
  MAX_BUFFER_SIZE,  (* slots of buf                                        *)
  MaxWakeups,       (* bound: spurious wakeups of condition waits          *)
  NOBODY,           (* no thread: mutexBuffer is free                      *)
  NoRequest         (* no request: zeroed memory, no session               *)

ASSUME BufferAssumption ==
  /\ IsFiniteSet(Managers)
  /\ Main \notin Managers
  /\ MAX_BUFFER_SIZE \in Nat \ {0}
  /\ MaxWakeups \in Nat
  /\ NOBODY \notin Managers \cup {Main}
  /\ NoRequest \notin Requests

Threads == Managers \cup {Main}

Slots == 0 .. MAX_BUFFER_SIZE - 1

VARIABLES
  sent,      (* requests that clients have written to the FIFO             *)
  fifo,      (* the registration FIFO: written and not yet read            *)
  buf,       (* the ring buffer                                            *)
  prodptr, consptr, count,
  mutex,     (* owner of mutexBuffer, or NOBODY                            *)
  pc,        (* where each thread is                                       *)
  msg,       (* the local variable sessionMessage of each thread           *)
  wakeups    (* spurious wakeups so far                                    *)

vars == <<sent, fifo, buf, prodptr, consptr, count, mutex, pc, msg, wakeups>>
ring == <<buf, prodptr, consptr, count>>

(* start, reset: main_Thread before its loop.  read: main_Thread in        *)
(* read_all.  lock: at pthread_mutex_lock.  check: holding the mutex, at   *)
(* the while condition.  wait: in pthread_cond_wait.  relock: woken, about *)
(* to take the mutex again.  put, get: holding the mutex, past the while.  *)
(* serve: a manager with a session.                                        *)
MainPCs == {"start", "reset", "read", "lock", "check", "wait", "relock", "put"}
ManagerPCs == {"lock", "check", "wait", "relock", "get", "serve"}

(* Faulty: the index is not wrapped at the end of the ring. *)
AdvanceNoWrap(i) == i + 1

(* The place after slot i in the ring. *)
Advance(i) == IF i + 1 = MAX_BUFFER_SIZE THEN 0 ELSE i + 1

(* pthread_cond_signal on a condition variable whose waiters are W: one of *)
(* them, if there is one, goes on to take the mutex.  Thread t moves to p. *)
SignalAndMove(W, t, p) ==
  LET waiting == {w \in W : pc[w] = "wait"}
  IN  \/ /\ waiting = {}
         /\ pc' = [pc EXCEPT ![t] = p]
      \/ \E w \in waiting : pc' = [pc EXCEPT ![t] = p, ![w] = "relock"]

-----------------------------------------------------------------------------
(* Faulty variants of definitions below.                                   *)

(* if instead of while around pthread_cond_wait: a woken thread does not   *)
(* test the condition again.                                               *)
RelockUnchecked(t) ==
  /\ pc[t] = "relock"
  /\ mutex = NOBODY
  /\ mutex' = t
  /\ pc' = [pc EXCEPT ![t] = IF t = Main THEN "put" ELSE "get"]
  /\ UNCHANGED <<sent, fifo, msg, wakeups>> /\ UNCHANGED ring

(* The producer does not signal podeCons. *)
PutSilently ==
  /\ pc[Main] = "put"
  /\ buf' = [buf EXCEPT ![prodptr] = msg[Main]]
  /\ prodptr' = Advance(prodptr)
  /\ count' = count + 1
  /\ pc' = [pc EXCEPT ![Main] = "read"]
  /\ mutex' = NOBODY
  /\ UNCHANGED <<sent, fifo, consptr, msg, wakeups>>

(* A manager takes the mutex without looking whether it is free. *)
LockWithoutMutex(t) ==
  /\ pc[t] = "lock"
  /\ mutex' = t
  /\ pc' = [pc EXCEPT ![t] = "check"]
  /\ UNCHANGED <<sent, fifo, msg, wakeups>> /\ UNCHANGED ring

(* A manager copies the request after advancing consptr. *)
GetNextSlot(m) ==
  /\ pc[m] = "get"
  /\ msg' = [msg EXCEPT ![m] = buf[Advance(consptr)]]
  /\ consptr' = Advance(consptr)
  /\ count' = count - 1
  /\ SignalAndMove({Main}, m, "serve")
  /\ mutex' = NOBODY
  /\ UNCHANGED <<sent, fifo, buf, prodptr, wakeups>>

(* A manager does not signal podeProd. *)
GetSilently(m) ==
  /\ pc[m] = "get"
  /\ msg' = [msg EXCEPT ![m] = buf[consptr]]
  /\ consptr' = Advance(consptr)
  /\ count' = count - 1
  /\ pc' = [pc EXCEPT ![m] = "serve"]
  /\ mutex' = NOBODY
  /\ UNCHANGED <<sent, fifo, buf, prodptr, wakeups>>

-----------------------------------------------------------------------------
(* dispatch_threads creates the manager threads before main_Thread; all    *)
(* the shared variables are zero-initialised globals.                      *)
Init ==
  /\ sent = {}
  /\ fifo = << >>
  /\ buf = [i \in Slots |-> NoRequest]
  /\ prodptr = 0 /\ consptr = 0 /\ count = 0
  /\ mutex = NOBODY
  /\ pc = [t \in Threads |-> IF t = Main THEN "start" ELSE "lock"]
  /\ msg = [t \in Threads |-> NoRequest]
  /\ wakeups = 0

(* A client's kvs_connect writes its request, smaller than PIPE_BUF and so *)
(* in one piece.                                                           *)
Connect(r) ==
  /\ r \notin sent
  /\ sent' = sent \cup {r}
  /\ fifo' = Append(fifo, r)
  /\ UNCHANGED <<mutex, pc, msg, wakeups>> /\ UNCHANGED ring

(* main_Thread empties the buffer under the mutex before its loop. *)
ResetLock ==
  /\ pc[Main] = "start"
  /\ mutex = NOBODY
  /\ mutex' = Main
  /\ pc' = [pc EXCEPT ![Main] = "reset"]
  /\ UNCHANGED <<sent, fifo, msg, wakeups>> /\ UNCHANGED ring

Reset ==
  /\ pc[Main] = "reset"
  /\ count' = 0
  /\ prodptr' = 0
  /\ mutex' = NOBODY
  /\ pc' = [pc EXCEPT ![Main] = "read"]
  /\ UNCHANGED <<sent, fifo, buf, consptr, msg, wakeups>>

(* read_all on the registration FIFO, open O_RDWR: it never sees the end   *)
(* of the file and returns one whole message.                              *)
Read ==
  /\ pc[Main] = "read"
  /\ fifo # << >>
  /\ msg' = [msg EXCEPT ![Main] = Head(fifo)]
  /\ fifo' = Tail(fifo)
  /\ pc' = [pc EXCEPT ![Main] = "lock"]
  /\ UNCHANGED <<sent, mutex, wakeups>> /\ UNCHANGED ring

Lock(t) ==
  /\ pc[t] = "lock"
  /\ mutex = NOBODY
  /\ mutex' = t
  /\ pc' = [pc EXCEPT ![t] = "check"]
  /\ UNCHANGED <<sent, fifo, msg, wakeups>> /\ UNCHANGED ring

(* pthread_cond_wait takes the mutex again before it returns to the loop.  *)
Relock(t) ==
  /\ pc[t] = "relock"
  /\ mutex = NOBODY
  /\ mutex' = t
  /\ pc' = [pc EXCEPT ![t] = "check"]
  /\ UNCHANGED <<sent, fifo, msg, wakeups>> /\ UNCHANGED ring

(* The while condition: the producer waits while the buffer is full, a     *)
(* manager while it is empty; pthread_cond_wait releases the mutex.        *)
MustWait(t) == count = (IF t = Main THEN MAX_BUFFER_SIZE ELSE 0)

Wait(t) ==
  /\ pc[t] = "check"
  /\ MustWait(t)
  /\ mutex' = NOBODY
  /\ pc' = [pc EXCEPT ![t] = "wait"]
  /\ UNCHANGED <<sent, fifo, msg, wakeups>> /\ UNCHANGED ring

GoOn(t) ==
  /\ pc[t] = "check"
  /\ ~MustWait(t)
  /\ pc' = [pc EXCEPT ![t] = IF t = Main THEN "put" ELSE "get"]
  /\ UNCHANGED <<sent, fifo, mutex, msg, wakeups>> /\ UNCHANGED ring

(* POSIX lets pthread_cond_wait return without a signal. *)
SpuriousWakeup(t) ==
  /\ pc[t] = "wait"
  /\ wakeups < MaxWakeups
  /\ wakeups' = wakeups + 1
  /\ pc' = [pc EXCEPT ![t] = "relock"]
  /\ UNCHANGED <<sent, fifo, mutex, msg>> /\ UNCHANGED ring

Put ==
  /\ pc[Main] = "put"
  /\ buf' = [buf EXCEPT ![prodptr] = msg[Main]]
  /\ prodptr' = Advance(prodptr)
  /\ count' = count + 1
  /\ SignalAndMove(Managers, Main, "read")
  /\ mutex' = NOBODY
  /\ UNCHANGED <<sent, fifo, consptr, msg, wakeups>>

Get(m) ==
  /\ pc[m] = "get"
  /\ msg' = [msg EXCEPT ![m] = buf[consptr]]
  /\ consptr' = Advance(consptr)
  /\ count' = count - 1
  /\ SignalAndMove({Main}, m, "serve")
  /\ mutex' = NOBODY
  /\ UNCHANGED <<sent, fifo, buf, prodptr, wakeups>>

(* The client disconnects or dies: the manager is back at the buffer. *)
EndSession(m) ==
  /\ pc[m] = "serve"
  /\ pc' = [pc EXCEPT ![m] = "lock"]
  /\ UNCHANGED <<sent, fifo, mutex, msg, wakeups>> /\ UNCHANGED ring

MainStep == ResetLock \/ Reset \/ Read \/ Put
ThreadStep(t) == Lock(t) \/ Relock(t) \/ Wait(t) \/ GoOn(t)

Next ==
  \/ \E r \in Requests : Connect(r)
  \/ MainStep
  \/ \E t \in Threads : ThreadStep(t) \/ SpuriousWakeup(t)
  \/ \E m \in Managers : Get(m) \/ EndSession(m)

Spec == Init /\ [][Next]_vars

(* The scheduler runs every thread that is not blocked.  Clients need not  *)
(* connect, nor ever disconnect.                                           *)
Fairness ==
  /\ WF_vars(MainStep)
  /\ \A t \in Threads : WF_vars(ThreadStep(t))
  /\ \A m \in Managers : WF_vars(Get(m))

FairSpec == Spec /\ Fairness
-----------------------------------------------------------------------------
(* Every variable keeps the shape its C counterpart has; in particular the *)
(* two indices stay inside buf and count between 0 and its size.           *)
TypeOK ==
  /\ sent \in SUBSET Requests
  /\ fifo \in Seq(Requests)
  /\ buf \in [Slots -> Requests \cup {NoRequest}]
  /\ prodptr \in Slots /\ consptr \in Slots
  /\ count \in 0 .. MAX_BUFFER_SIZE
  /\ mutex \in Threads \cup {NOBODY}
  /\ pc \in [Threads -> MainPCs \cup ManagerPCs]
  /\ pc[Main] \in MainPCs
  /\ \A m \in Managers : pc[m] \in ManagerPCs
  /\ msg \in [Threads -> Requests \cup {NoRequest}]
  /\ wakeups \in 0 .. MaxWakeups

(* mutexBuffer is owned exactly by the thread that is between its lock and *)
(* its unlock (main.c:103-106, 113-120, 146-153), so the ring and its      *)
(* counters have one user at a time.                                       *)
MutexHeld ==
  \A t \in Threads : pc[t] \in {"reset", "check", "put", "get"} <=> mutex = t

(* The slot that lies i places after consptr. *)
Slot(i) ==
  IF consptr + i >= MAX_BUFFER_SIZE THEN consptr + i - MAX_BUFFER_SIZE
                                    ELSE consptr + i

(* prodptr is always count places after consptr, whoever moved last        *)
(* (main.c:117-118, 150-151), and a thread past its while loop finds room  *)
(* or an item, however it was woken.                                       *)
RingInv ==
  /\ prodptr = (IF count = MAX_BUFFER_SIZE THEN consptr ELSE Slot(count))
  /\ pc[Main] = "put" => count < MAX_BUFFER_SIZE
  /\ \A m \in Managers : pc[m] = "get" => count > 0
  /\ pc[Main] \in {"start", "reset"} => prodptr = 0 /\ count = 0

(* No wakeup is lost (main.c:114, 119, 147, 152): while some manager       *)
(* sleeps on podeCons, there is for every request in the buffer another    *)
(* manager on its way to it; and main_Thread sleeps on podeProd only while *)
(* the buffer is full.                                                     *)
Awake == {m \in Managers : pc[m] \in {"lock", "relock", "check", "get"}}

NoLostWakeup ==
  /\ (\E m \in Managers : pc[m] = "wait") => count <= Cardinality(Awake)
  /\ pc[Main] = "wait" => count = MAX_BUFFER_SIZE

(* The requests nobody serves yet, oldest first: those in the ring, the    *)
(* one in main_Thread's hands, those in the FIFO.                          *)
Buffered == [i \in 1 .. count |-> buf[Slot(i - 1)]]

InHand ==
  IF pc[Main] \in {"lock", "check", "wait", "relock", "put"}
  THEN <<msg[Main]>> ELSE << >>

Waiting == Buffered \o InHand \o fifo

Queue == INSTANCE RegistrationQueue
  WITH arrived <- sent,
       queue   <- Waiting,
       session <- [m \in Managers |->
                     IF pc[m] = "serve" THEN msg[m] ELSE NoRequest]

(* The threads implement the queue: main.c:98-153 hands every request to   *)
(* one manager, in the order of arrival, whatever the interleaving.        *)
FirstComeFirstServed == Queue!Spec

(* A request that reached the FIFO is taken by a manager, unless every     *)
(* manager thread is busy with a session first (main.c:108-121, 144-153).  *)
IsWaiting(r) == \E i \in DOMAIN Waiting : Waiting[i] = r

AllBusy == \A m \in Managers : pc[m] = "serve"

RequestsDispatched ==
  \A r \in Requests : IsWaiting(r) ~> (~IsWaiting(r) \/ AllBusy)
=============================================================================

------------------------------ MODULE Signals ------------------------------
(***************************************************************************)
(* SIGUSR1.  Its handler apanha_usr1 writes a connection request of which  *)
(* only the opcode is set into the registration FIFO, in whatever thread   *)
(* the signal is delivered to, and installs itself again.  The rest of the *)
(* server is what a signal disturbs: main_Thread between FIFO and ring,    *)
(* managers in the calls that a signal interrupts, and the job threads,    *)
(* which may take a signal and have nothing here to be disturbed.          *)
(*                                                                         *)
(* The Makefile's _POSIX_C_SOURCE gives glibc's signal() its System V      *)
(* semantics: the disposition is reset when a signal is delivered, and a   *)
(* call that blocks fails with EINTR.  On the BSDs and macOS it stays, and *)
(* calls are restarted.                                                    *)
(***************************************************************************)
EXTENDS Naturals, Sequences, FiniteSets

CONSTANTS
  Managers, Clients,
  MainThread, JobThread,   \* main_Thread, and a thread that runs jobs
  FifoCapacity,            \* messages that fit into the registration FIFO
  MAX_BUFFER_SIZE,         \* messages that fit into the ring
  MaxSignals, MaxRequests, \* bounds: signals; requests of a client
  NoClient, NOBODY

ASSUME SignalsAssumption ==
  /\ FifoCapacity \in Nat \ {0} /\ MAX_BUFFER_SIZE \in Nat \ {0}
  /\ MaxSignals \in Nat /\ MaxRequests \in Nat
  /\ {MainThread, JobThread} \cap Managers = {} /\ MainThread # JobThread
  /\ NoClient \notin Clients /\ NOBODY \notin Managers \cup {MainThread, JobThread}

VARIABLES
  started,    \* whether main_Thread has called signal()
  restarts,   \* whether signal() has BSD semantics
  handler,    \* whether apanha_usr1 is installed
  inside,     \* where each thread is in the handler: "no", "write", "install"
  signals,    \* signals so far
  server,     \* "up", "killed" by the default action, or "exited" with 1
  mutex,      \* the thread that a signal found with mutexBuffer, or NOBODY
  fifo, ring, \* requests: a client, or NoClient for the handler's
  hands,      \* what main_Thread has read and not put yet: a sequence
  pc,         \* managers: "get", "open", "opcode", "answer", "close"
  session,    \* the request each manager took
  client,     \* "off", "sent", "on", "asking", "leaving", "cut" or "gone"
  requests    \* requests of each client so far

queues == <<fifo, ring, hands>>
handling == <<restarts, started, handler, inside, signals, mutex>>
vars == <<handling, server, queues, pc, session, client, requests>>

Garbage == NoClient
Threads == Managers \cup {MainThread, JobThread}

Init ==
  /\ restarts \in BOOLEAN
  /\ started = FALSE /\ handler = FALSE
  /\ inside = [t \in Threads |-> "no"]
  /\ signals = 0
  /\ server = "up"
  /\ mutex = NOBODY
  /\ fifo = <<>> /\ ring = <<>> /\ hands = <<>>
  /\ pc = [m \in Managers |-> "get"]
  /\ session = [m \in Managers |-> NoClient]
  /\ client = [c \in Clients |-> "off"]
  /\ requests = [c \in Clients |-> 0]

-----------------------------------------------------------------------------
(* The signal and its handler.                                             *)

\* A thread between the FIFO and the ring, or between the ring and its
\* session, may have mutexBuffer when the signal comes.
MayHoldMutex(t) == IF t = MainThread THEN hands # <<>> ELSE t \in Managers /\ pc[t] = "get"

\* apanha_usr1 is called, or the default action ends the server.  (A thread
\* that is in the handler takes no further signal here: where it could, the
\* disposition is reset, and the signal does what it does in any thread.)
Signal(t) ==
  /\ server = "up" /\ signals < MaxSignals
  /\ inside[t] = "no"
  /\ signals' = signals + 1
  /\ IF handler
       THEN /\ inside' = [inside EXCEPT ![t] = "write"]
            /\ handler' = restarts
            /\ mutex' \in IF mutex = NOBODY /\ MayHoldMutex(t) THEN {NOBODY, t} ELSE {mutex}
            /\ UNCHANGED server
       ELSE server' = "killed" /\ UNCHANGED <<inside, handler, mutex>>
  /\ UNCHANGED <<restarts, started, queues, pc, session, client, requests>>

\* The write waits while the FIFO is full.
HandlerWrite(t) ==
  /\ server = "up" /\ inside[t] = "write"
  /\ Len(fifo) < FifoCapacity
  /\ fifo' = Append(fifo, Garbage)
  /\ inside' = [inside EXCEPT ![t] = "install"]
  /\ UNCHANGED <<restarts, started, handler, signals, mutex, server, ring, hands, pc, session, client, requests>>

\* What a call that is interrupted does to a manager: a failed open ends the
\* server, a failed read of an opcode is CMD_DISCONNECT.  (The key has come
\* with the opcode, and its read does not block; mutexes and conditions are
\* not interrupted.)
Interrupted(m) ==
  \/ pc[m] = "open" /\ server' = "exited" /\ UNCHANGED pc
  \/ pc[m] = "opcode" /\ pc' = [pc EXCEPT ![m] = "close"] /\ UNCHANGED server

\* Faulty: an interrupted read is taken for a disconnection on every system.
ReturnInterrupted(t) ==
  /\ server = "up" /\ inside[t] = "install"
  /\ handler' = TRUE
  /\ inside' = [inside EXCEPT ![t] = "no"]
  /\ mutex' = IF mutex = t THEN NOBODY ELSE mutex
  /\ \/ UNCHANGED <<pc, server>>
     \/ t \in Managers /\ Interrupted(t)
  /\ UNCHANGED <<restarts, started, signals, queues, session, client, requests>>

\* signal(), and the return to the thread, which was in a call or not; what it
\* does with mutexBuffer locked is then done.  main_Thread's read_all calls
\* read again.
HandlerReturn(t) ==
  /\ server = "up" /\ inside[t] = "install"
  /\ handler' = TRUE
  /\ inside' = [inside EXCEPT ![t] = "no"]
  /\ mutex' = IF mutex = t THEN NOBODY ELSE mutex
  /\ \/ UNCHANGED <<pc, server>>
     \/ ~restarts /\ t \in Managers /\ Interrupted(t)
  /\ UNCHANGED <<restarts, started, signals, queues, session, client, requests>>

-----------------------------------------------------------------------------
(* The threads, while they are not in the handler.                         *)

Runs(t) == server = "up" /\ inside[t] = "no"

Install ==
  /\ Runs(MainThread) /\ ~started
  /\ started' = TRUE /\ handler' = TRUE
  /\ UNCHANGED <<restarts, inside, signals, mutex, server, queues, pc, session, client, requests>>

ReadRequest ==
  /\ Runs(MainThread) /\ started
  /\ hands = <<>> /\ fifo # <<>>
  /\ hands' = <<Head(fifo)>> /\ fifo' = Tail(fifo)
  /\ UNCHANGED <<handling, server, ring, pc, session, client, requests>>

\* Faulty: what comes while the ring is full is dropped.
PutOrDrop ==
  /\ Runs(MainThread)
  /\ hands # <<>> /\ mutex = NOBODY
  /\ ring' = IF Len(ring) < MAX_BUFFER_SIZE THEN ring \o hands ELSE ring
  /\ hands' = <<>>
  /\ UNCHANGED <<handling, server, fifo, pc, session, client, requests>>

PutRequest ==
  /\ Runs(MainThread)
  /\ hands # <<>> /\ mutex = NOBODY
  /\ Len(ring) < MAX_BUFFER_SIZE
  /\ ring' = ring \o hands /\ hands' = <<>>
  /\ UNCHANGED <<handling, server, fifo, pc, session, client, requests>>

\* Faulty: the request stays in the ring.
GetRequestAgain(m) ==
  /\ Runs(m) /\ pc[m] = "get"
  /\ ring # <<>> /\ mutex = NOBODY
  /\ session' = [session EXCEPT ![m] = Head(ring)]
  /\ pc' = [pc EXCEPT ![m] = "open"]
  /\ UNCHANGED <<handling, server, queues, client, requests>>

GetRequest(m) ==
  /\ Runs(m) /\ pc[m] = "get"
  /\ ring # <<>> /\ mutex = NOBODY
  /\ session' = [session EXCEPT ![m] = Head(ring)]
  /\ ring' = Tail(ring)
  /\ pc' = [pc EXCEPT ![m] = "open"]
  /\ UNCHANGED <<handling, server, fifo, hands, client, requests>>

\* There is no FIFO at a path that was never initialised: open fails.
OpenPipes(m) ==
  /\ Runs(m) /\ pc[m] = "open"
  /\ IF session[m] = Garbage
       THEN server' = "exited" /\ UNCHANGED <<pc, client>>
       ELSE /\ pc' = [pc EXCEPT ![m] = "opcode"]
            /\ client' = [client EXCEPT ![session[m]] = "on"]
            /\ UNCHANGED server
  /\ UNCHANGED <<handling, queues, session, requests>>

\* get_next2, and the read of the key.
ReadOpcode(m) ==
  /\ Runs(m) /\ pc[m] = "opcode"
  /\ pc' = [pc EXCEPT ![m] = CASE client[session[m]] = "asking"  -> "answer"
                                [] client[session[m]] = "leaving" -> "close"
                                [] OTHER -> "opcode"]
  /\ UNCHANGED <<handling, server, queues, session, client, requests>>

Answer(m) ==
  /\ Runs(m) /\ pc[m] = "answer"
  /\ pc' = [pc EXCEPT ![m] = "opcode"]
  /\ client' = [client EXCEPT ![session[m]] = "on"]
  /\ UNCHANGED <<handling, server, queues, session, requests>>

\* The end of a session: what the client asked for, or what cuts it off.
CloseSession(m) ==
  /\ Runs(m) /\ pc[m] = "close"
  /\ pc' = [pc EXCEPT ![m] = "get"]
  /\ session' = [session EXCEPT ![m] = NoClient]
  /\ client' = [client EXCEPT ![session[m]] = IF @ = "leaving" THEN "gone" ELSE "cut"]
  /\ UNCHANGED <<handling, server, queues, requests>>

ManagerStep(m) ==
  GetRequest(m) \/ OpenPipes(m) \/ ReadOpcode(m) \/ Answer(m) \/ CloseSession(m)

-----------------------------------------------------------------------------
(* The clients: they connect, ask and leave when they like.                *)

Becomes(c, state) == client' = [client EXCEPT ![c] = state]

Connect(c) ==
  /\ server = "up" /\ client[c] = "off" /\ Len(fifo) < FifoCapacity
  /\ fifo' = Append(fifo, c)
  /\ Becomes(c, "sent")
  /\ UNCHANGED <<handling, server, ring, hands, pc, session, requests>>

Ask(c) ==
  /\ server = "up" /\ client[c] = "on" /\ requests[c] < MaxRequests
  /\ requests' = [requests EXCEPT ![c] = @ + 1]
  /\ Becomes(c, "asking")
  /\ UNCHANGED <<handling, server, queues, pc, session>>

Leave(c) ==
  /\ server = "up" /\ client[c] = "on"
  /\ Becomes(c, "leaving")
  /\ UNCHANGED <<handling, server, queues, pc, session, requests>>

HandlerStep(t) == HandlerWrite(t) \/ HandlerReturn(t)

MainStep == Install \/ ReadRequest \/ PutRequest

Next ==
  \/ \E t \in Threads : Signal(t) \/ HandlerStep(t)
  \/ MainStep
  \/ \E m \in Managers : ManagerStep(m)
  \/ \E c \in Clients : Connect(c) \/ Ask(c) \/ Leave(c)

\* The threads run as long as they can.  Nobody has to send signals, and a
\* client may keep its session for ever.
Spec ==
  /\ Init /\ [][Next]_vars
  /\ \A t \in Threads : WF_vars(HandlerStep(t))
  /\ WF_vars(MainStep)
  /\ \A m \in Managers : WF_vars(ManagerStep(m))

-----------------------------------------------------------------------------
(* Properties.                                                             *)

\* mutexBuffer stays with a thread only while that is in the handler, a
\* manager has a session from its request to the end of it, and only the
\* handler's message stands for no client.
TypeOK ==
  /\ inside \in [Threads -> {"no", "write", "install"}]
  /\ mutex # NOBODY => inside[mutex] # "no"
  /\ server \in {"up", "killed", "exited"}
  /\ signals \in 0..MaxSignals
  /\ Len(fifo) <= FifoCapacity /\ Len(ring) <= MAX_BUFFER_SIZE /\ Len(hands) <= 1
  /\ \A m \in Managers : pc[m] \in {"opcode", "answer", "close"} => session[m] \in Clients
  /\ \A m \in Managers, n \in Managers :
       session[m] = session[n] /\ session[m] # NoClient => m = n

\* By the read it interrupts, a signal costs at most one client its session,
\* and none where calls are restarted: clients that were cut off without having
\* asked to leave, or are about to be, are no more than the signals.  (Its
\* message ends the server, and with it every session: that is not counted.)
CutBySignals ==
  LET cut == {c \in Clients : client[c] = "cut"}
      next == {m \in Managers : pc[m] = "close" /\ client[session[m]] # "leaving"}
  IN  Cardinality(cut) + Cardinality(next) <= IF restarts THEN 0 ELSE signals

Full == Len(fifo) = FifoCapacity

\* The signal is meant to announce something to the server, and ends it: its
\* message comes to a manager, which finds no FIFO to open.  The server stays
\* up only if every manager keeps its client for ever, or a thread is caught
\* in the handler, its write waiting for ever for room in the FIFO, which
\* main_Thread, if it is not that thread itself, is kept from emptying.
SignalEndsServer ==
  \/ [](signals = 0)
  \/ <>(server # "up")
  \/ <>[](\A m \in Managers : session[m] # NoClient)
  \/ <>[](Full /\ \E t \in Threads : inside[t] = "write")
=============================================================================

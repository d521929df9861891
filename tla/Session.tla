------------------------------- MODULE Session -------------------------------
(***************************************************************************)
(* A client's session with the server: the handshake that opens its three  *)
(* FIFOs, the requests and their answers, the end of the session, and the  *)
(* death of a client at any point (client api.c and main.c, manager_thread *)
(* of the server's main.c, get_next2).                                     *)
(*                                                                         *)
(* A FIFO is known to the server by its path only, and a path belongs to a *)
(* client id, not to a process: a client that is started again under its   *)
(* id makes new FIFOs at the old paths.  A FIFO is named here by the       *)
(* process that made it and its kind.  Managers, being threads, share one  *)
(* descriptor table, in which open takes the lowest number that is free.   *)
(*                                                                         *)
(* Registration is RegistrationQueue.  What a request does to the store is *)
(* KVStore: here it succeeds or fails, and a manager whose request failed  *)
(* has tablelock until one of its requests succeeds; the others wait.      *)
(* Notifications are left out, and so are the descriptors that the job     *)
(* threads have open.                                                      *)
(***************************************************************************)
EXTENDS Naturals, Sequences, FiniteSetsExt

CONSTANTS
  Clients,      (* client processes                                        *)
  Managers,     (* manager threads                                         *)
  Ids,          (* client ids                                              *)
  IdMaps,       (* ways to start the processes, each with an id            *)
  Careful,      (* TRUE: an id is used again only once the server is done  *)
  Opcodes,      (* the requests with a key: subscribe, unsubscribe         *)
  Keys,         (* keys in requests; NoKey is one, see parse_key           *)
  MaxRequests,  (* bound: requests of a client before it disconnects       *)
  MaxDeaths,    (* bound: clients killed in a behaviour                    *)
  NoClient, NoFd

Fds == 1 .. 3 * Cardinality(Managers)

ASSUME SessionAssumption ==
  /\ IdMaps \subseteq [Clients -> Ids]
  /\ Careful \in BOOLEAN
  /\ Opcodes \subseteq {"subscribe", "unsubscribe"}
  /\ IsFiniteSet(Managers)
  /\ MaxRequests \in Nat /\ MaxDeaths \in Nat
  /\ Clients \cap Managers = {}
  /\ NoClient \notin Clients /\ NoFd \notin Fds

VARIABLES
  IdOf,      (* the id of each client process                              *)
  arrived, queue, session,  (* as in RegistrationQueue                     *)
  node,      (* the FIFO at each path: who made it, or NoClient            *)
  pc,        (* where each client process and each manager is              *)
  step,      (* which of the calls of a row of open or close is next       *)
  met,       (* processes whose open has found its other end               *)
  end,       (* the FIFOs each client process has open                     *)
  fd,        (* f_req, f_resp, f_notif of each manager                     *)
  desc,      (* the server's descriptor table                              *)
  reading,   (* managers inside read(f_req): the FIFO they read            *)
  req, resp, (* what is in the FIFOs of these kinds                        *)
  op,        (* the request of a waiting client, of a manager at work      *)
  keeper,    (* the manager, if any, that left the store with tablelock    *)
  up,        (* the server has not exited                                  *)
  asked, deaths,  (* counters for the bounds                               *)
  from,      (* history: the client a manager's request came from          *)
  outcome,   (* history: results of a client's request, once performed     *)
  clobbered  (* history: a manager has closed another one's descriptor     *)

registration == <<arrived, queue, session>>
control == <<pc, step>>
ends == <<met, end, fd, desc, reading>>
data == <<req, resp>>
calls == <<op, keeper, from, outcome>>
rest == <<up, asked, deaths, clobbered>>
vars == <<IdOf, registration, node, control, ends, data, calls, rest>>

Queue == INSTANCE RegistrationQueue
  WITH Requests <- Clients, NoRequest <- NoClient

Kinds == {"req", "resp", "notif"}
NoKey == ""
NoPipes == [k \in Kinds |-> NoClient]
Free == [owner |-> NoClient, kind |-> "none", of |-> NoClient, ready |-> FALSE]

(* The orders of the calls.  At the end of a session f_resp is closed by   *)
(* write_to_resp_pipe, and again by manager_thread.                        *)
OpenOrder == <<"resp", "req", "notif">>
CloseOrder == <<"resp", "req", "resp", "notif">>

Ended == {"off", "done", "dead", "failed"}

(* The id whose paths a process uses: a client its own, a manager that of  *)
(* the request it has taken.                                               *)
PathId(p) == IdOf[IF p \in Clients THEN p ELSE session[p]]

(* The ends of the FIFO of kind k that c made.  A process that waits in    *)
(* open counts, and so does a read that has not returned.                  *)
ClientEnd(k, c) == {x \in Clients : end[x][k] = c}
ServerFds(k, c) == {d \in Fds : desc[d].kind = k /\ desc[d].of = c}
ServerEnd(k, c) ==
  ServerFds(k, c) \cup (IF k = "req" THEN {m \in Managers : reading[m] = c} ELSE {})

Goto(p, where) == pc' = [pc EXCEPT ![p] = where] /\ UNCHANGED step

(* The next call of a row, or what follows the row. *)
NextCall(p, row, after) ==
  /\ pc' = [pc EXCEPT ![p] = IF step[p] < Len(row) THEN @ ELSE after]
  /\ step' = [step EXCEPT ![p] = IF @ < Len(row) THEN @ + 1 ELSE 1]

(* The three FIFOs of an id are unlinked. *)
Unlinked(id) == [node EXCEPT ![id] = NoPipes]

(* Faulty variant of Opened: kvs_connect does not wait for the answer. *)
OpenedUnanswered(p) ==
  /\ pc[p] = "opening" /\ p \in met
  /\ met' = met \ {p}
  /\ pc' = [pc EXCEPT ![p] =
              CASE OpenOrder[step[p]] = "notif" -> "ready"
                [] OpenOrder[step[p]] = "resp" /\ p \in Managers -> "hello"
                [] OTHER -> "open"]
  /\ step' = [step EXCEPT ![p] = IF @ = Len(OpenOrder) THEN 1 ELSE @ + 1]

(* open waits until the other end is open too.  After f_resp a manager     *)
(* writes a first answer and the client reads it ("hello"); after f_notif  *)
(* the handshake is over ("ready").                                        *)
Opened(p) ==
  /\ pc[p] = "opening" /\ p \in met
  /\ met' = met \ {p}
  /\ pc' = [pc EXCEPT ![p] = CASE OpenOrder[step[p]] = "resp"  -> "hello"
                               [] OpenOrder[step[p]] = "req"   -> "open"
                               [] OpenOrder[step[p]] = "notif" -> "ready"]
  /\ step' = [step EXCEPT ![p] = IF @ = Len(OpenOrder) THEN 1 ELSE @ + 1]

(* The client closes its FIFOs, on its way out or by dying: what is left   *)
(* in its answer pipe, which only it reads, is lost.                       *)
Close(c) ==
  /\ end' = [end EXCEPT ![c] = NoPipes]
  /\ met' = met \ {c}
  /\ resp' = [resp EXCEPT ![c] = << >>]

Exit(c, how) ==
  /\ Goto(c, how)
  /\ Close(c)
  /\ op' = [op EXCEPT ![c] = "none"]
  /\ asked' = [asked EXCEPT ![c] = 0]
  /\ outcome' = [outcome EXCEPT ![c] = << >>]
-----------------------------------------------------------------------------
Init ==
  /\ IdOf \in IdMaps
  /\ Queue!Init
  /\ node = [i \in Ids |-> NoPipes]
  /\ pc = [p \in Clients \cup Managers |-> IF p \in Clients THEN "off" ELSE "idle"]
  /\ step = [p \in Clients \cup Managers |-> 1]
  /\ met = {}
  /\ end = [c \in Clients |-> NoPipes]
  /\ fd = [m \in Managers |-> [k \in Kinds |-> NoFd]]
  /\ desc = [d \in Fds |-> Free]
  /\ reading = [m \in Managers |-> NoClient]
  /\ req = [c \in Clients |-> << >>]
  /\ resp = [c \in Clients |-> << >>]
  /\ op = [p \in Clients \cup Managers |-> "none"]
  /\ keeper = {}
  /\ up = TRUE
  /\ asked = [c \in Clients |-> 0] /\ deaths = 0
  /\ from = [m \in Managers |-> NoClient]
  /\ outcome = [c \in Clients |-> << >>]
  /\ clobbered = FALSE

-----------------------------------------------------------------------------
(* The client.  One process per id at a time; after one that was killed or *)
(* exited in the handshake, and always if Careful, only once no request    *)
(* for the id waits and no manager is busy with one.                       *)
Start(c) ==
  /\ pc[c] = "off" /\ up
  /\ \A x \in Clients \ {c} : IdOf[x] = IdOf[c] =>
       /\ pc[x] \in Ended
       /\ Careful \/ pc[x] \in {"dead", "failed"} =>
                     /\ \A i \in 1 .. Len(queue) : queue[i] # x
                     /\ \A m \in Managers : session[m] # x
  /\ Goto(c, "mkfifo")
  /\ UNCHANGED <<registration, node, ends, data, calls, rest>>

(* Faulty variant of MakeFifos: the notification FIFO is forgotten. *)
MakeTwoFifos(c) ==
  /\ pc[c] = "mkfifo"
  /\ node' = [Unlinked(PathId(c)) EXCEPT
               ![PathId(c)] = [NoPipes EXCEPT !["req"] = c, !["resp"] = c]]
  /\ Goto(c, "connect")
  /\ UNCHANGED <<registration, ends, data, calls, rest>>

(* FIFOs that an earlier process left are unlinked, and new ones made: one *)
(* step, because only the manager of that process looks at the paths now,  *)
(* to unlink them too; mkfifo finds nothing in the way.                    *)
MakeFifos(c) ==
  /\ pc[c] = "mkfifo"
  /\ node' = [Unlinked(PathId(c)) EXCEPT ![PathId(c)] = [k \in Kinds |-> c]]
  /\ Goto(c, "connect")
  /\ UNCHANGED <<registration, ends, data, calls, rest>>

(* The request for a session, with the paths, goes to the server. *)
Connect(c) ==
  /\ pc[c] = "connect"
  /\ Queue!Arrive(c)
  /\ Goto(c, "open")
  /\ UNCHANGED <<node, ends, data, calls, rest>>

(* open fails if there is no FIFO at the path, which ends the process. *)
OpenFails(c) ==
  /\ pc[c] = "open"
  /\ node[PathId(c)][OpenOrder[step[c]]] = NoClient
  /\ Exit(c, "failed")
  /\ UNCHANGED <<registration, node, fd, desc, reading, req, keeper, from, up, deaths,
                 clobbered>>

OpenFifo(c) ==
  /\ pc[c] = "open"
  /\ LET kind  == OpenOrder[step[c]]
         maker == node[PathId(c)][kind]
     IN  /\ maker # NoClient
         /\ end' = [end EXCEPT ![c][kind] = maker]
         /\ met' = met \cup {desc[d].owner : d \in {d \in ServerFds(kind, maker) :
                                                      ~desc[d].ready}}
                       \cup (IF ServerEnd(kind, maker) # {} THEN {c} ELSE {})
  /\ Goto(c, "opening")
  /\ UNCHANGED <<registration, node, fd, desc, reading, data, calls, rest>>

FifoOpened(c) ==
  /\ Opened(c)
  /\ UNCHANGED <<registration, node, end, fd, desc, reading, data, calls, rest>>

(* read_response: the oldest answer in the pipe, or nothing at its end.    *)
(* It is printed, and what follows does not depend on it.                  *)
ReadResponse(c) ==
  /\ pc[c] \in {"hello", "await", "bye"}
  /\ LET maker == end[c]["resp"]
     IN  IF resp[maker] # << >>
         THEN resp' = [resp EXCEPT ![maker] = Tail(@)]
         ELSE ServerEnd("resp", maker) = {} /\ UNCHANGED resp
  /\ Goto(c, CASE pc[c] = "hello" -> "open"
               [] pc[c] = "await" -> "ready"
               [] pc[c] = "bye"   -> "close")
  /\ op' = [op EXCEPT ![c] = "none"]
  /\ UNCHANGED <<registration, node, ends, req, keeper, from, outcome, rest>>

(* kvs_subscribe_unsubscribe and kvs_disconnect: an opcode, with the bytes *)
(* of the key, in one write to f_req.                                      *)
Request(c, o, key) ==
  /\ pc[c] = "ready"
  /\ LET maker == end[c]["req"]
     IN  /\ ServerEnd("req", maker) # {}
         /\ req' = [req EXCEPT ![maker] =
                      @ \o <<o>> \o IF key = NoKey THEN << >> ELSE <<key>>]
  /\ Goto(c, IF o = "disconnect" THEN "bye" ELSE "await")
  /\ op' = [op EXCEPT ![c] = o]
  /\ outcome' = [outcome EXCEPT ![c] = << >>]
  /\ UNCHANGED <<registration, node, ends, resp, keeper, from, up, deaths, clobbered>>

AskForKey(c) ==
  /\ asked[c] < MaxRequests
  /\ \E o \in Opcodes, key \in Keys : Request(c, o, key)
  /\ asked' = [asked EXCEPT ![c] = @ + 1]

(* DISCONNECT or the end of the commands. *)
Disconnect(c) == Request(c, "disconnect", NoKey) /\ UNCHANGED asked

(* A request that nobody reads: SIGPIPE kills the client. *)
BrokenPipe(c) ==
  /\ pc[c] = "ready"
  /\ ServerEnd("req", end[c]["req"]) = {}
  /\ Exit(c, "dead")
  /\ UNCHANGED <<registration, node, fd, desc, reading, req, keeper, from, up, deaths,
                 clobbered>>

(* The FIFOs are closed, then unlinked. *)
CloseFifos(c) ==
  /\ pc[c] = "close"
  /\ Close(c)
  /\ Goto(c, "remove")
  /\ UNCHANGED <<registration, node, fd, desc, reading, req, calls, rest>>

UnlinkFifos(c) ==
  /\ pc[c] = "remove"
  /\ node' = Unlinked(PathId(c))
  /\ Exit(c, "done")
  /\ UNCHANGED <<registration, fd, desc, reading, req, keeper, from, up, deaths,
                 clobbered>>

(* The client is killed. *)
Die(c) ==
  /\ pc[c] \notin Ended
  /\ deaths < MaxDeaths /\ deaths' = deaths + 1
  /\ Exit(c, "dead")
  /\ UNCHANGED <<registration, node, fd, desc, reading, req, keeper, from, up, clobbered>>
-----------------------------------------------------------------------------
(* A manager. *)
At(m, where) == up /\ pc[m] = where

(* Like buf, the request it takes holds paths only. *)
Take(m) ==
  /\ At(m, "idle")
  /\ Queue!Take(m)
  /\ Goto(m, "open")
  /\ UNCHANGED <<node, ends, data, calls, rest>>

(* open reserves the lowest free number, which close() does not know until *)
(* open returns.  If there is no FIFO at the path the server exits.        *)
OpenPipe(m) ==
  /\ At(m, "open")
  /\ LET kind  == OpenOrder[step[m]]
         maker == node[PathId(m)][kind]
         there == ClientEnd(kind, maker)
         d     == Min({x \in Fds : desc[x] = Free})
     IN  IF maker = NoClient
         THEN /\ up' = FALSE
              /\ desc' = [x \in Fds |-> Free]
              /\ reading' = [n \in Managers |-> NoClient]
              /\ UNCHANGED <<control, fd, met>>
         ELSE /\ Goto(m, "opening")
              /\ desc' = [desc EXCEPT ![d] = [owner |-> m, kind |-> kind,
                                              of |-> maker, ready |-> FALSE]]
              /\ fd' = [fd EXCEPT ![m][kind] = d]
              /\ met' = met \cup {c \in there : pc[c] = "opening"}
                            \cup (IF there # {} THEN {m} ELSE {})
              /\ UNCHANGED <<reading, up>>
  /\ UNCHANGED <<registration, node, end, data, calls, asked, deaths, clobbered>>

PipeOpened(m) ==
  /\ At(m, "opening")
  /\ Opened(m)
  /\ desc' = [desc EXCEPT ![fd[m][OpenOrder[step[m]]]].ready = TRUE]
  /\ UNCHANGED <<registration, node, end, fd, reading, data, calls, rest>>

(* write(f_resp): whatever has that number now gets the answer, if it is   *)
(* an answer pipe that somebody reads; the result is not looked at.        *)
WriteAnswer(m, answer) ==
  LET d == desc[fd[m]["resp"]]
  IN  resp' = IF d.ready /\ d.kind = "resp" /\ ClientEnd("resp", d.of) # {}
              THEN [resp EXCEPT ![d.of] = Append(@, answer)] ELSE resp

(* Faulty variant of Hello: the answer to the connection is not written. *)
HelloSilent(m) ==
  /\ At(m, "hello")
  /\ Goto(m, "open")
  /\ UNCHANGED <<registration, node, ends, data, calls, rest>>

Hello(m) ==
  /\ At(m, "hello")
  /\ WriteAnswer(m, <<"connect", TRUE>>)
  /\ Goto(m, "open")
  /\ UNCHANGED <<registration, node, ends, req, calls, rest>>

(* Faulty variant of NothingRead: a client that is gone is asked again. *)
NothingReadIgnored(m) == Goto(m, "ready") /\ op' = [op EXCEPT ![m] = "none"]

(* read(f_req) for an opcode ("ready") or a key ("key") gives nothing: the *)
(* client counts as disconnected, or the request is dropped.               *)
NothingRead(m) ==
  IF pc[m] = "ready"
  THEN Goto(m, "exec") /\ op' = [op EXCEPT ![m] = "disconnect"]
  ELSE Goto(m, "ready") /\ op' = [op EXCEPT ![m] = "none"]

(* The call of read: an error if the number is no request pipe now. *)
CallRead(m) ==
  /\ At(m, "ready") \/ At(m, "key")
  /\ reading[m] = NoClient
  /\ LET d == desc[fd[m]["req"]]
     IN  IF d.ready /\ d.kind = "req"
         THEN reading' = [reading EXCEPT ![m] = d.of] /\ UNCHANGED <<control, op>>
         ELSE NothingRead(m) /\ UNCHANGED reading
  /\ UNCHANGED <<registration, node, met, end, fd, desc, data, keeper, from, outcome,
                 rest>>

(* Its return.  get_next2 takes one byte, and what is no opcode counts as  *)
(* a disconnection; the read of the key takes all there is.                *)
ReturnRead(m) ==
  /\ up /\ reading[m] # NoClient
  /\ reading' = [reading EXCEPT ![m] = NoClient]
  /\ LET maker == reading[m]
         sent  == req[maker]
         wants == Head(sent)
     IN  \/ /\ sent # << >> /\ pc[m] = "ready"
            /\ IF wants \in {"subscribe", "unsubscribe"}
               THEN Goto(m, "key") /\ op' = [op EXCEPT ![m] = wants]
               ELSE Goto(m, "exec") /\ op' = [op EXCEPT ![m] = "disconnect"]
            /\ req' = [req EXCEPT ![maker] = Tail(@)]
            /\ from' = [from EXCEPT ![m] = maker]
         \/ /\ sent # << >> /\ pc[m] = "key"
            /\ Goto(m, "exec")
            /\ req' = [req EXCEPT ![maker] = << >>]
            /\ UNCHANGED <<op, from>>
         \/ /\ sent = << >> /\ ClientEnd("req", maker) = {}
            /\ NothingRead(m)
            /\ UNCHANGED <<req, from>>
  /\ UNCHANGED <<registration, node, met, end, fd, desc, resp, keeper, outcome, rest>>

(* kvs_subs_or_unsubs or kvs_disconnect, and the answer.  The request      *)
(* waits for tablelock, which it releases if it succeeds; a manager that   *)
(* has it already goes on (EDEADLK).                                       *)
Answer(m) ==
  /\ At(m, "exec")
  /\ keeper \subseteq {m}
  /\ \E result \in BOOLEAN :
       /\ keeper' = IF result THEN {} ELSE {m}
       /\ WriteAnswer(m, <<op[m], result>>)
       /\ outcome' = [c \in Clients |-> outcome[c] \o
                        IF c = from[m] THEN <<<<op[m], result>>>> ELSE << >>]
  /\ Goto(m, IF op[m] = "disconnect" THEN "close" ELSE "ready")
  /\ op' = [op EXCEPT ![m] = "none"]
  /\ from' = [from EXCEPT ![m] = NoClient]
  /\ UNCHANGED <<registration, node, ends, req, rest>>

(* close of a number, whoever has it now. *)
ClosePipe(m) ==
  /\ At(m, "close")
  /\ LET d == fd[m][CloseOrder[step[m]]]
     IN  IF desc[d].ready
         THEN /\ desc' = [desc EXCEPT ![d] = Free]
              /\ clobbered' = (clobbered \/ desc[d].owner # m)
         ELSE UNCHANGED <<desc, clobbered>>
  /\ NextCall(m, CloseOrder, "remove")
  /\ UNCHANGED <<registration, node, met, end, fd, reading, data, calls, up,
                 asked, deaths>>

(* Faulty variant of UnlinkPipes: the session is not given up. *)
UnlinkPipesOnly(m) ==
  /\ At(m, "remove")
  /\ node' = Unlinked(PathId(m))
  /\ fd' = [fd EXCEPT ![m] = [k \in Kinds |-> NoFd]]
  /\ Goto(m, "idle")
  /\ UNCHANGED <<registration, met, end, desc, reading, data, calls, rest>>

(* The paths are unlinked, then the manager is ready for another client. *)
UnlinkPipes(m) ==
  /\ At(m, "remove")
  /\ node' = Unlinked(PathId(m))
  /\ Queue!End(m)
  /\ fd' = [fd EXCEPT ![m] = [k \in Kinds |-> NoFd]]
  /\ Goto(m, "idle")
  /\ UNCHANGED <<met, end, desc, reading, data, calls, rest>>
-----------------------------------------------------------------------------
ClientStep(c) ==
  \/ MakeFifos(c) \/ Connect(c)
  \/ OpenFails(c) \/ OpenFifo(c) \/ FifoOpened(c)
  \/ AskForKey(c) \/ Disconnect(c) \/ BrokenPipe(c) \/ ReadResponse(c)
  \/ CloseFifos(c) \/ UnlinkFifos(c)

ManagerStep(m) ==
  \/ Take(m) \/ OpenPipe(m) \/ PipeOpened(m) \/ Hello(m)
  \/ CallRead(m) \/ ReturnRead(m) \/ Answer(m)
  \/ ClosePipe(m) \/ UnlinkPipes(m)

Next ==
  /\ \/ \E c \in Clients : Start(c) \/ ClientStep(c) \/ Die(c)
     \/ \E m \in Managers : ManagerStep(m)
  /\ UNCHANGED IdOf

Spec == Init /\ [][Next]_vars

(* The scheduler runs every process and thread that can run.  What a       *)
(* client that is connected asks for, and when, is up to its user.         *)
Fairness ==
  /\ \A c \in Clients : WF_vars(pc[c] # "ready" /\ ClientStep(c) /\ UNCHANGED IdOf)
  /\ \A m \in Managers : WF_vars(ManagerStep(m) /\ UNCHANGED IdOf)

FairSpec == Spec /\ Fairness
-----------------------------------------------------------------------------
Requests == {"subscribe", "unsubscribe", "disconnect"}
Answers == (Requests \cup {"connect"}) \X BOOLEAN

(* Every variable keeps its shape: a manager has a session unless it waits *)
(* for one and descriptor numbers once it uses them, whoever is reported   *)
(* to have found the other end of a FIFO waits in open.                    *)
TypeOK ==
  /\ arrived \subseteq Clients /\ queue \in Seq(arrived)
  /\ session \in [Managers -> Clients \cup {NoClient}]
  /\ node \in [Ids -> [Kinds -> Clients \cup {NoClient}]]
  /\ \A c \in Clients :
       pc[c] \in {"mkfifo", "connect", "open", "opening", "hello",
                 "ready", "await", "bye", "close", "remove"} \cup Ended
  /\ \A m \in Managers :
       /\ pc[m] \in {"idle", "open", "opening", "hello", "ready", "key",
                     "exec", "close", "remove"}
       /\ session[m] = NoClient <=> pc[m] = "idle"
       /\ pc[m] \in {"ready", "key", "exec", "close"} =>
            \A k \in Kinds : fd[m][k] \in Fds
       /\ reading[m] # NoClient => pc[m] \in {"ready", "key"}
  /\ step \in [Clients \cup Managers -> 1 .. Len(CloseOrder)]
  /\ met \subseteq {p \in Clients \cup Managers : pc[p] = "opening"}
  /\ end \in [Clients -> [Kinds -> Clients \cup {NoClient}]]
  /\ fd \in [Managers -> [Kinds -> Fds \cup {NoFd}]]
  /\ \A d \in Fds : desc[d] \in
       {Free} \cup [owner : Managers, kind : Kinds, of : Clients, ready : BOOLEAN]
  /\ reading \in [Managers -> Clients \cup {NoClient}]
  /\ req \in [Clients -> Seq(Requests \cup Keys)]
  /\ resp \in [Clients -> Seq(Answers)] /\ outcome \in [Clients -> Seq(Answers)]
  /\ op \in [Clients \cup Managers -> Requests \cup {"none"}]
  /\ from \in [Managers -> Clients \cup {NoClient}]
  /\ keeper \subseteq Managers /\ Cardinality(keeper) <= 1
  /\ up \in BOOLEAN /\ clobbered \in BOOLEAN
  /\ asked \in [Clients -> 0 .. MaxRequests] /\ deaths \in 0 .. MaxDeaths

Waiting(c) == pc[c] \in {"await", "bye"}

(* A client that waits for an answer gets the answer to its own request,   *)
(* performed once, with its result, and no other; the pipe does not end    *)
(* before (api.c:57-107; main.c:177-245).  It is claimed as long as the    *)
(* server is up, and no manager has closed a descriptor that was another's *)
(* (main.c:130, 188).  Notifications, which may come into an answer pipe   *)
(* by a descriptor number that is out of date (kvs.c:62), are not in this  *)
(* module.                                                                 *)
AnswersMatch ==
  ~clobbered =>
    \A c \in Clients : Waiting(c) =>
      LET answers == resp[end[c]["resp"]]
      IN  /\ outcome[c] \in {<< >>} \cup {<<<<op[c], result>>>> : result \in BOOLEAN}
          /\ answers = outcome[c]
          /\ up /\ answers = << >> => ServerEnd("resp", end[c]["resp"]) # {}

(* The server survives its clients if each id is used again only once the  *)
(* server is done with it (Careful): whenever one dies, and whatever FIFOs *)
(* it leaves behind, no manager finds a FIFO of a handshake missing        *)
(* (main.c:162, 169, 171, where it would exit).  It does not hold for a    *)
(* process that is started at once under the id of one that has ended,     *)
(* whose manager may unlink its FIFOs.                                     *)
ServerSurvives == up

(* Three things keep a manager where it is, the last two as long as a      *)
(* client pleases: its client died in the handshake (main.c:162-171), it   *)
(* reads the key of a request for the empty key, which has none            *)
(* (main.c:201, 223), or another manager's request has failed and left     *)
(* tablelock locked (operations.c:193-198, 217-222).                       *)
Stranded(m) ==
  pc[m] = "opening" /\ m \notin met /\ pc[session[m]] \in Ended

AwaitsKey(m) ==
  /\ pc[m] = "key" /\ reading[m] # NoClient
  /\ req[reading[m]] = << >> /\ ClientEnd("req", reading[m]) # {}

AwaitsLock(m) == pc[m] = "exec" /\ ~(keeper \subseteq {m})

Stuck(m) == Stranded(m) \/ AwaitsKey(m) \/ AwaitsLock(m)

InUse(m) == session[m] # NoClient /\ pc[session[m]] \in {"ready", "await"}

(* A client that asks for a session gets one, and an answer to each of its *)
(* requests, unless its manager is stuck for good, or, for one that has    *)
(* none, every manager is, or keeps a client that stays; or unless another *)
(* manager has closed a descriptor that was not its own.                   *)
ClientsServed ==
  \A c \in Clients :
    pc[c] = "open" \/ Waiting(c) ~>
      \/ pc[c] \in Ended \cup {"ready"} \/ clobbered
      \/ \E m \in Managers : [](session[m] = c /\ Stuck(m))
      \/ \A m \in Managers : [](Stuck(m) \/ InUse(m))

Leaving(m) ==
  pc[m] = "ready" /\ pc[session[m]] \in Ended \cup {"bye", "close", "remove"}

(* A manager whose client has come through the handshake takes clients     *)
(* again when this one disconnects or dies, unless it waits for tablelock  *)
(* for good, or a descriptor was closed that was another's.                *)
ManagersReturn ==
  \A m \in Managers :
    Leaving(m) ~> pc[m] = "idle" \/ clobbered \/ []AwaitsLock(m)
=============================================================================

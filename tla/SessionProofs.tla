--------------------------- MODULE SessionProofs ---------------------------
(***************************************************************************)
(* Proofs about Session, for any number of client processes, managers and  *)
(* ids, any keys and any bounds.                                           *)
(***************************************************************************)
EXTENDS Session, FunctionTheorems, FiniteSetTheorems, SequenceTheorems,
        WellFoundedInduction, TLAPS

(* Min chooses an element that no other is below. *)
LEMMA MinimumExists ==
  ASSUME NEW I \in SUBSET Nat, I # {}
  PROVE  Min(I) \in I /\ \A i \in I : Min(I) <= i
<1>1. PICK x \in I : \A y \in I : ~(<<y, x>> \in OpToRel(<, Nat))
  BY NatLessThanWellFounded, WFMin, Zenon
<1>2. ASSUME NEW y \in I
      PROVE  x <= y
  <2>1. y < x => <<y, x>> \in OpToRel(<, Nat)
    BY DEF OpToRel
  <2>2. ~(y < x)
    BY <1>1, <2>1, Zenon
  <2> QED
    BY <2>2
<1> QED
  BY <1>1, <1>2 DEF Min

-----------------------------------------------------------------------------
(* The inductive invariant.                                                *)

Processes == Clients \cup Managers

Labels ==
  {"off", "mkfifo", "connect", "open", "opening", "hello", "ready", "await", "bye",
   "close", "remove", "idle", "key", "exec"} \cup Ended

(* The place of a kind in OpenOrder. *)
Turn == [k \in Kinds |-> CASE k = "resp" -> 1 [] k = "req" -> 2 [] k = "notif" -> 3]

(* For how many FIFOs a process has called open. *)
Called(p) ==
  CASE pc[p] \in {"off", "idle", "mkfifo", "connect"} -> 0
    [] pc[p] \in {"open", "hello"}                    -> step[p] - 1
    [] pc[p] = "opening"                              -> step[p]
    [] OTHER                                          -> 3

Queued(c) == \E i \in 1 .. Len(queue) : queue[i] = c
Served(c) == \E m \in Managers : session[m] = c

(* A process that runs, or whose request the server still has. *)
Around(c) == pc[c] \notin Ended \/ Queued(c) \/ Served(c)

(* No manager is yet to open the first n FIFOs of c. *)
Past(c, n) ==
  n > 0 => c \in arrived /\ ~Queued(c) /\ \A m \in Managers : session[m] = c => Called(m) >= n

ShapesOK ==
  /\ IdOf \in [Clients -> Ids]
  /\ pc \in [Processes -> Labels]
  /\ DOMAIN desc = Fds
  /\ \A p \in Processes :
       /\ pc[p] \in {"open", "opening"} => step[p] <= 3
       /\ pc[p] = "hello" => step[p] = 2
       /\ pc[p] \notin {"open", "opening", "hello", "close", "dead", "failed"} => step[p] = 1
       /\ pc[p] \in {"key", "exec"} => op[p] # "none"
  /\ \A c \in Clients : pc[c] = "close" => step[c] = 1

RegisteredOK ==
  /\ \A i \in 1 .. Len(queue), j \in 1 .. Len(queue) : queue[i] = queue[j] => i = j
  /\ \A m \in Managers : session[m] # NoClient =>
       /\ session[m] \in arrived /\ ~Queued(session[m])
       /\ \A n \in Managers : session[n] = session[m] => n = m
  /\ \A c \in Clients : pc[c] \in {"off", "mkfifo", "connect"} => c \notin arrived

(* A manager's numbers are those of the FIFOs it has opened; a descriptor  *)
(* that is in use has been opened by the manager that has its number, for  *)
(* its session, and is ready unless the manager still waits in open.       *)
FdsOK ==
  \A m \in Managers, k \in Kinds : fd[m][k] # NoFd <=> Turn[k] <= Called(m)

DescriptorOK(d) ==
  LET m == desc[d].owner
      k == desc[d].kind
  IN  /\ fd[m][k] = d
      /\ desc[d].of = session[m] /\ session[m] # NoClient
      /\ desc[d].ready <=> ~(pc[m] = "opening" /\ Turn[k] = step[m])
      /\ pc[m] # "remove"
      /\ pc[m] = "close" => \A i \in 1 .. step[m] - 1 : CloseOrder[i] # k

WaitsInOpen(m) ==
  desc[fd[m][OpenOrder[step[m]]]]
    = [owner |-> m, kind |-> OpenOrder[step[m]], of |-> session[m], ready |-> FALSE]

DescriptorsOK ==
  /\ \A d \in Fds : desc[d] # Free => DescriptorOK(d)
  /\ \A m \in Managers : up /\ pc[m] = "opening" => WaitsInOpen(m)

(* Two processes with one id are not around at the same time, unless one   *)
(* of them has come to its regular end.                                    *)
IdsOK ==
  \A x \in Clients, y \in Clients :
    x # y /\ IdOf[x] = IdOf[y] /\ Around(x) /\ Around(y) =>
      ~Careful /\ "done" \in {pc[x], pc[y]}

Handshaking(c) ==
  pc[c] = "connect" \/ Queued(c) \/ \E m \in Managers : session[m] = c /\ Called(m) < 3

PathsOK ==
  \A c \in Clients, k \in Kinds :
    /\ pc[c] \notin {"mkfifo", "done"} /\ Around(c) => node[IdOf[c]][k] \in {c, NoClient}
    /\ Careful /\ Handshaking(c) => node[IdOf[c]][k] = c

EndsOK ==
  \A c \in Clients, k \in Kinds :
    end[c][k] = IF Turn[k] <= Called(c) /\ pc[c] \notin Ended \cup {"remove"} THEN c ELSE NoClient

(* Neither end of the handshake gets ahead of the other. *)
MeetingsOK ==
  /\ \A c \in Clients :
       pc[c] \notin {"off", "dead", "failed"} =>
         Past(c, IF pc[c] = "opening" /\ c \notin met THEN step[c] - 1 ELSE Called(c))
  /\ \A m \in Managers : reading[m] # NoClient => Past(reading[m], 2)

SessionInv ==
  /\ TypeOK /\ ShapesOK /\ RegisteredOK
  /\ FdsOK /\ DescriptorsOK
  /\ IdsOK /\ PathsOK /\ EndsOK /\ MeetingsOK

-----------------------------------------------------------------------------
(* The orders of the calls.                                                *)
LEMMA Orders ==
  /\ Len(OpenOrder) = 3 /\ Len(CloseOrder) = 4
  /\ \A k \in Kinds : Turn[k] \in 1 .. 3 /\ OpenOrder[Turn[k]] = k
  /\ \A i \in 1 .. 3 : OpenOrder[i] \in Kinds /\ Turn[OpenOrder[i]] = i
  /\ \A i \in 1 .. 4 : CloseOrder[i] \in Kinds
  /\ \A k \in Kinds : \E i \in 1 .. 4 : CloseOrder[i] = k
<1>1. Len(OpenOrder) = 3 /\ Len(CloseOrder) = 4
  BY DEF OpenOrder, CloseOrder
<1>2. /\ OpenOrder[1] = "resp" /\ OpenOrder[2] = "req" /\ OpenOrder[3] = "notif"
      /\ CloseOrder[1] = "resp" /\ CloseOrder[2] = "req"
      /\ CloseOrder[3] = "resp" /\ CloseOrder[4] = "notif"
  BY DEF OpenOrder, CloseOrder
<1>3. Turn["resp"] = 1 /\ Turn["req"] = 2 /\ Turn["notif"] = 3
  BY DEF Turn, Kinds
<1>4. Kinds = {"resp", "req", "notif"}
  BY DEF Kinds
<1>5. \A i \in 1 .. 3 : i = 1 \/ i = 2 \/ i = 3
  OBVIOUS
<1>6. \A i \in 1 .. 4 : i = 1 \/ i = 2 \/ i = 3 \/ i = 4
  OBVIOUS
<1>7. 1 \in 1 .. 4 /\ 2 \in 1 .. 4 /\ 4 \in 1 .. 4 /\ {1, 2, 3} \subseteq 1 .. 3
  OBVIOUS
<1> QED
  BY <1>1, <1>2, <1>3, <1>4, <1>5, <1>6, <1>7

LEMMA Constants ==
  /\ Clients \cap Managers = {} /\ Processes = Clients \cup Managers
  /\ NoClient \notin Clients /\ NoFd \notin Fds
  /\ Cardinality(Managers) \in Nat /\ Fds \subseteq Nat
  /\ \A d \in Fds : ~(Free.ready) /\ Free.owner = NoClient /\ Free.of = NoClient
BY SessionAssumption, FS_CardinalityType DEF Processes, Fds, Free

LEMMA CalledBounds ==
  ASSUME SessionInv, NEW p \in Processes
  PROVE  Called(p) \in 0 .. 3
<1>1. step[p] \in 1 .. 4
  BY Orders DEF SessionInv, TypeOK, Processes
<1>2. /\ pc[p] \in {"open", "opening"} => step[p] <= 3
      /\ pc[p] = "hello" => step[p] = 2
  BY DEF SessionInv, ShapesOK
<1> QED
  BY <1>1, <1>2 DEF Called

LEMMA SessionInit == Init => SessionInv
<1> SUFFICES ASSUME Init
             PROVE  SessionInv
  OBVIOUS
<1>1. /\ IdOf \in IdMaps /\ arrived = {} /\ queue = << >>
      /\ session = [m \in Managers |-> NoClient]
      /\ Len(queue) = 0 /\ queue \in Seq(arrived)
  BY DEF Init, Queue!Init
<1>2. \A c \in Clients : pc[c] = "off" /\ step[c] = 1 /\ Called(c) = 0
                         /\ ~Queued(c) /\ ~Served(c)
  BY <1>1, Constants DEF Init, Called, Queued, Served
<1>3. \A m \in Managers : pc[m] = "idle" /\ step[m] = 1 /\ Called(m) = 0
  BY Constants DEF Init, Called
<1>4. TypeOK
  <2>1. /\ step \in [Clients \cup Managers -> 1 .. Len(CloseOrder)]
        /\ asked \in [Clients -> 0 .. MaxRequests] /\ deaths \in 0 .. MaxDeaths
    BY SessionAssumption, Orders DEF Init
  <2>2. /\ req \in [Clients -> Seq(Requests \cup Keys)]
        /\ resp \in [Clients -> Seq(Answers)] /\ outcome \in [Clients -> Seq(Answers)]
    BY DEF Init
  <2>3. /\ node \in [Ids -> [Kinds -> Clients \cup {NoClient}]]
        /\ end \in [Clients -> [Kinds -> Clients \cup {NoClient}]]
        /\ fd \in [Managers -> [Kinds -> Fds \cup {NoFd}]]
    BY DEF Init, NoPipes
  <2>4. /\ \A d \in Fds : desc[d] = Free
        /\ op \in [Clients \cup Managers -> Requests \cup {"none"}]
        /\ met = {} /\ up = TRUE /\ clobbered = FALSE
        /\ reading \in [Managers -> Clients \cup {NoClient}]
        /\ from \in [Managers -> Clients \cup {NoClient}]
        /\ \A m \in Managers : reading[m] = NoClient
    BY DEF Init
  <2>5. keeper \subseteq Managers /\ Cardinality(keeper) <= 1
    BY FS_EmptySet DEF Init
  <2> QED
    BY <1>1, <1>2, <1>3, <2>1, <2>2, <2>3, <2>4, <2>5 DEF TypeOK, Ended
<1>5. ShapesOK
  BY <1>1, <1>2, <1>3, Constants, SessionAssumption DEF Init, ShapesOK, Labels, Ended
<1>6. RegisteredOK
  BY <1>1 DEF RegisteredOK
<1>7. FdsOK /\ DescriptorsOK
  <2>1. \A m \in Managers, k \in Kinds : fd[m][k] = NoFd /\ ~(Turn[k] <= 0)
    BY Orders DEF Init
  <2> QED
    BY <1>3, <2>1 DEF Init, FdsOK, DescriptorsOK
<1>8. IdsOK /\ PathsOK
  BY <1>1, <1>2 DEF IdsOK, PathsOK, Around, Handshaking, Ended, Served
<1>9. EndsOK
  BY <1>2 DEF Init, EndsOK, NoPipes, Ended
<1>10. MeetingsOK
  BY <1>2 DEF Init, MeetingsOK, Past
<1> QED
  BY <1>4, <1>5, <1>6, <1>7, <1>8, <1>9, <1>10 DEF SessionInv

-----------------------------------------------------------------------------
(* The steps of a client.  They leave the managers alone, but for what     *)
(* open reports to the other end.                                          *)
ClientMoves(c) == Start(c) \/ ClientStep(c) \/ Die(c)

Exits(c) == OpenFails(c) \/ BrokenPipe(c) \/ UnlinkFifos(c) \/ Die(c)

Asks(c) == AskForKey(c) \/ Disconnect(c)

LEMMA ClientMovesOne ==
  ASSUME SessionInv, NEW c \in Clients, ClientMoves(c)
  PROVE  /\ UNCHANGED <<session, fd, desc, reading, from, up, clobbered>>
         /\ \A p \in Processes \ {c} : pc'[p] = pc[p] /\ step'[p] = step[p]
         /\ pc' \in [Processes -> Labels]
         /\ step' \in [Processes -> 1 .. Len(CloseOrder)]
<1>1. pc \in [Processes -> Labels] /\ step \in [Processes -> 1 .. Len(CloseOrder)]
      /\ c \in Processes /\ Len(CloseOrder) = 4
  BY Constants, Orders DEF SessionInv, ShapesOK, TypeOK
<1>2. CASE FifoOpened(c)
  <2>1. /\ pc' = [pc EXCEPT ![c] = CASE OpenOrder[step[c]] = "resp"  -> "hello"
                                     [] OpenOrder[step[c]] = "req"   -> "open"
                                     [] OpenOrder[step[c]] = "notif" -> "ready"]
        /\ step' = [step EXCEPT ![c] = IF @ = Len(OpenOrder) THEN 1 ELSE @ + 1]
        /\ pc[c] = "opening"
    BY <1>2 DEF FifoOpened, Opened
  <2>2. step[c] \in 1 .. 3
    BY <1>1, <2>1 DEF SessionInv, ShapesOK
  <2>3. OpenOrder[step[c]] \in {"resp", "req", "notif"}
    BY <2>2, Orders DEF Kinds
  <2>4. pc'[c] \in {"hello", "open", "ready"} /\ step'[c] \in 1 .. 4
    BY <1>1, <2>1, <2>2, <2>3, Orders
  <2>5. pc'[c] \in Labels
    BY <2>4 DEF Labels
  <2> QED
    BY <1>1, <1>2, <2>1, <2>4, <2>5 DEF FifoOpened, registration, rest, calls
<1>3. CASE ~FifoOpened(c)
  <2>1. step' = step /\ \E where \in Labels : pc' = [pc EXCEPT ![c] = where]
    <3>1. CASE ReadResponse(c)
      BY <3>1 DEF ReadResponse, Goto, Labels
    <3>2. CASE Exits(c)
      BY <3>2 DEF Exits, OpenFails, BrokenPipe, UnlinkFifos, Die, Exit, Goto, Labels, Ended
    <3>3. CASE Asks(c)
      BY <3>3 DEF Asks, AskForKey, Disconnect, Request, Goto, Labels
    <3> QED
      BY <1>3, <3>1, <3>2, <3>3
         DEF ClientMoves, ClientStep, Exits, Asks, Start, MakeFifos, Connect, OpenFifo,
             CloseFifos, Goto, Labels
  <2>2. UNCHANGED <<session, fd, desc, reading, from, up, clobbered>>
    BY <1>3 DEF ClientMoves, ClientStep, Start, MakeFifos, Connect, OpenFails, OpenFifo,
         AskForKey, Disconnect, Request, BrokenPipe, ReadResponse, CloseFifos, UnlinkFifos,
         Die, Exit, Close, registration, ends, data, calls, rest, Queue!Arrive
  <2> QED
    BY <1>1, <2>1, <2>2
<1> QED
  BY <1>2, <1>3

(* What managers know does not change.                                     *)
LEMMA ClientMovesNoFd ==
  ASSUME SessionInv, NEW c \in Clients, ClientMoves(c)
  PROVE  /\ FdsOK' /\ DescriptorsOK'
         /\ \A m \in Managers : Called(m)' = Called(m)
<1>1. \A m \in Managers : pc'[m] = pc[m] /\ step'[m] = step[m] /\ session'[m] = session[m]
  BY ClientMovesOne, Constants
<1>2. \A m \in Managers : Called(m)' = Called(m)
  BY <1>1 DEF Called
<1>3. UNCHANGED <<fd, desc, up>>
  BY ClientMovesOne
<1>4. FdsOK'
  BY <1>2, <1>3 DEF SessionInv, FdsOK
<1>5. ASSUME NEW d \in Fds, desc[d] # Free
      PROVE  DescriptorOK(d)'
  <2>1. desc[d].owner \in Managers
    BY <1>5 DEF SessionInv, TypeOK
  <2> QED
    BY <1>1, <1>3, <1>5, <2>1 DEF SessionInv, DescriptorsOK, DescriptorOK
<1>6. \A m \in Managers : up' /\ pc'[m] = "opening" => WaitsInOpen(m)'
  BY <1>1, <1>3 DEF SessionInv, DescriptorsOK, WaitsInOpen
<1> QED
  BY <1>2, <1>3, <1>4, <1>5, <1>6 DEF DescriptorsOK

(* Who waits in open is there.                                             *)
LEMMA NotReadyWaits ==
  ASSUME SessionInv, NEW d \in Fds, desc[d] # Free, ~desc[d].ready
  PROVE  /\ desc[d].owner \in Managers /\ pc[desc[d].owner] = "opening"
         /\ Turn[desc[d].kind] = step[desc[d].owner] /\ fd[desc[d].owner][desc[d].kind] = d
BY DEF SessionInv, TypeOK, DescriptorsOK, DescriptorOK

LEMMA ClientMet ==
  ASSUME SessionInv, NEW c \in Clients, ClientMoves(c)
  PROVE  /\ met' \subseteq {p \in Processes : pc'[p] = "opening"}
         /\ ~OpenFifo(c) => met' \subseteq met
         /\ met' \subseteq met \cup Managers \cup {c}
<1>1. /\ \A p \in Processes \ {c} : pc'[p] = pc[p]
      /\ met \subseteq {p \in Processes : pc[p] = "opening"} /\ c \in Processes
      /\ Managers \subseteq Processes /\ c \notin Managers
      /\ pc \in [Processes -> Labels]
  BY ClientMovesOne, Constants DEF SessionInv, TypeOK, ShapesOK, Processes
<1>2. CASE OpenFifo(c)
  <2> DEFINE kind  == OpenOrder[step[c]]
             maker == node[PathId(c)][kind]
             W     == {desc[d].owner : d \in {d \in ServerFds(kind, maker) : ~desc[d].ready}}
  <2>1. /\ maker # NoClient /\ pc'[c] = "opening"
        /\ met' \subseteq met \cup W \cup {c}
    BY <1>1, <1>2 DEF OpenFifo, Goto
  <2>2. \A x \in W : x \in Managers /\ pc[x] = "opening"
    <3> SUFFICES ASSUME NEW d \in Fds, desc[d].of = maker, ~desc[d].ready
                 PROVE  desc[d].owner \in Managers /\ pc[desc[d].owner] = "opening"
      BY DEF ServerFds
    <3>1. desc[d] # Free
      BY <2>1, Constants
    <3> QED
      BY <3>1, NotReadyWaits
  <2> HIDE DEF W
  <2>3. \A p \in met' : p \in met \/ p \in Managers \/ p = c
    BY <2>1, <2>2
  <2>4. \A p \in met' : p \in Processes /\ pc'[p] = "opening"
    BY <1>1, <2>1, <2>2
  <2> QED
    BY <1>2, <2>3, <2>4
<1>3. CASE ~OpenFifo(c)
  <2>1. \/ met' = met \ {c}
        \/ met' = met /\ pc[c] # "opening"
    BY <1>3 DEF ClientMoves, ClientStep, Start, MakeFifos, Connect, OpenFails, FifoOpened,
       Opened, AskForKey, Disconnect, Request, BrokenPipe, ReadResponse, CloseFifos,
       UnlinkFifos, Die, Exit, Close, ends
  <2>2. met' \subseteq met /\ c \notin met'
    BY <1>1, <2>1
  <2>3. \A p \in met' : p \in Processes /\ pc'[p] = "opening"
    BY <1>1, <2>2
  <2> QED
    BY <1>3, <2>2, <2>3
<1> QED
  BY <1>2, <1>3

(* What a client step writes of the FIFOs, and of the client itself.       *)
LEMMA ClientData ==
  ASSUME SessionInv, NEW c \in Clients, ClientMoves(c)
  PROVE  /\ node' \in [Ids -> [Kinds -> Clients \cup {NoClient}]]
         /\ end' \in [Clients -> [Kinds -> Clients \cup {NoClient}]]
         /\ req' \in [Clients -> Seq(Requests \cup Keys)]
         /\ resp' \in [Clients -> Seq(Answers)] /\ outcome' \in [Clients -> Seq(Answers)]
         /\ op' \in [Clients \cup Managers -> Requests \cup {"none"}]
         /\ asked' \in [Clients -> 0 .. MaxRequests] /\ deaths' \in 0 .. MaxDeaths
<1>0. /\ IdOf \in [Clients -> Ids] /\ c \in Processes /\ c \in Clients \cup Managers
      /\ node \in [Ids -> [Kinds -> Clients \cup {NoClient}]]
      /\ end \in [Clients -> [Kinds -> Clients \cup {NoClient}]]
      /\ req \in [Clients -> Seq(Requests \cup Keys)]
      /\ resp \in [Clients -> Seq(Answers)] /\ outcome \in [Clients -> Seq(Answers)]
      /\ op \in [Clients \cup Managers -> Requests \cup {"none"}]
      /\ asked \in [Clients -> 0 .. MaxRequests] /\ deaths \in 0 .. MaxDeaths
      /\ pc[c] = "open" => step[c] \in 1 .. 3
  BY Constants, Orders DEF SessionInv, TypeOK, ShapesOK
<1>1. IdOf[c] \in Ids /\ PathId(c) = IdOf[c]
  BY <1>0 DEF PathId
<1>2. node' \in [Ids -> [Kinds -> Clients \cup {NoClient}]]
  <2> DEFINE none == [k \in Kinds |-> NoClient]
             mine == [k \in Kinds |-> c]
  <2>1. \/ node' = node
        \/ node' = [node EXCEPT ![IdOf[c]] = none]
        \/ node' = [[node EXCEPT ![IdOf[c]] = none] EXCEPT ![IdOf[c]] = mine]
    BY <1>1 DEF ClientMoves, ClientStep, Start, MakeFifos, Connect, OpenFails, OpenFifo,
       FifoOpened, AskForKey, Disconnect, Request, BrokenPipe, ReadResponse, CloseFifos,
       UnlinkFifos, Die, Unlinked, NoPipes
  <2>2. /\ none \in [Kinds -> Clients \cup {NoClient}]
        /\ mine \in [Kinds -> Clients \cup {NoClient}]
    OBVIOUS
  <2> HIDE DEF none, mine
  <2> QED
    BY <1>0, <2>1, <2>2
<1>3. end' \in [Clients -> [Kinds -> Clients \cup {NoClient}]]
  <2>1. CASE OpenFifo(c)
    <3> DEFINE kind == OpenOrder[step[c]]
               maker == node[IdOf[c]][kind]
    <3>1. pc[c] = "open" /\ end' = [end EXCEPT ![c][kind] = maker]
      BY <1>1, <2>1 DEF OpenFifo
    <3>2. kind \in Kinds
      BY <1>0, <3>1, Orders
    <3>3. maker \in Clients \cup {NoClient}
      BY <1>0, <1>1, <3>2
    <3> HIDE DEF maker, kind
    <3> QED
      BY <1>0, <3>1, <3>2, <3>3
  <2>2. CASE ~OpenFifo(c)
    <3> DEFINE none == [k \in Kinds |-> NoClient]
    <3>1. end' = end \/ end' = [end EXCEPT ![c] = none]
      BY <2>2 DEF ClientMoves, ClientStep, Start, MakeFifos, Connect, OpenFails,
         FifoOpened, AskForKey, Disconnect, Request, BrokenPipe, ReadResponse, CloseFifos,
         UnlinkFifos, Die, Exit, Close, NoPipes, ends
    <3>2. none \in [Kinds -> Clients \cup {NoClient}]
      OBVIOUS
    <3> HIDE DEF none
    <3> QED
      BY <1>0, <3>1, <3>2
  <2> QED
    BY <2>1, <2>2
<1>4. /\ Asks(c) => \E o \in Requests, key \in Keys \cup {NoKey} :
                      (key \in Keys \/ key = NoKey) /\ Request(c, o, key)
      /\ ~Asks(c) => req' = req
  <2>1. /\ Opcodes \subseteq Requests /\ "disconnect" \in Requests
        /\ NoKey \in Keys \cup {NoKey}
    BY SessionAssumption DEF Requests
  <2>2. CASE Asks(c)
    <3>1. CASE AskForKey(c)
      BY <2>1, <2>2, <3>1 DEF AskForKey
    <3>2. CASE Disconnect(c)
      BY <2>1, <2>2, <3>2 DEF Disconnect
    <3> QED
      BY <2>2, <3>1, <3>2 DEF Asks
  <2>3. CASE ~Asks(c)
    BY <2>3 DEF ClientMoves, ClientStep, Asks, Start, MakeFifos, Connect, OpenFails, OpenFifo,
       FifoOpened, BrokenPipe, ReadResponse, CloseFifos, UnlinkFifos, Die, data
  <2> QED
    BY <2>2, <2>3
<1>5. req' \in [Clients -> Seq(Requests \cup Keys)]
  <2>1. CASE Asks(c)
    <3>1. PICK o \in Requests, key \in Keys \cup {NoKey} :
                 (key \in Keys \/ key = NoKey) /\ Request(c, o, key)
      BY <1>4, <2>1
    <3> DEFINE sent == IF key = NoKey THEN << >> ELSE <<key>>
               first == <<o>>
               maker == end[c]["req"]
               S == Seq(Requests \cup Keys)
    <3>2. first \in S /\ sent \in S
      <4>1. o \in Requests \cup Keys /\ (key # NoKey => key \in Requests \cup Keys)
        BY <3>1
      <4>2. \A x \in Requests \cup Keys : <<x>> \in S
        OBVIOUS
      <4>3. << >> \in S
        OBVIOUS
      <4> HIDE DEF S
      <4> QED
        BY <4>1, <4>2, <4>3
    <3>3. req' = [req EXCEPT ![maker] = req[maker] \o first \o sent]
      BY <3>1 DEF Request
    <3>4. \A s \in S : s \o first \o sent \in S
      <4> HIDE DEF first, sent
      <4> QED
        BY <3>2
    <3> HIDE DEF sent, first, maker, S
    <3> QED
      <4>1. maker \in Clients => req[maker] \in S
        BY <1>0 DEF S
      <4> QED
        BY <1>0, <3>3, <3>4, <4>1 DEF S
  <2> QED
    BY <1>0, <1>4, <2>1
<1>6. resp' \in [Clients -> Seq(Answers)]
  <2>1. \/ resp' = resp
        \/ resp' = [resp EXCEPT ![c] = << >>]
        \/ \E x : resp[x] # << >> /\ resp' = [resp EXCEPT ![x] = Tail(resp[x])]
    <3>1. CASE ReadResponse(c)
      BY <3>1 DEF ReadResponse
    <3>2. CASE ~ReadResponse(c)
      BY <3>2 DEF ClientMoves, ClientStep, Start, MakeFifos, Connect, OpenFails, OpenFifo,
         FifoOpened, AskForKey, Disconnect, Request, BrokenPipe, CloseFifos,
         UnlinkFifos, Die, Exit, Close, data
    <3> QED
      BY <3>1, <3>2
  <2>2. \A x \in Clients : resp[x] # << >> => Tail(resp[x]) \in Seq(Answers)
    BY <1>0
  <2> DEFINE S == Seq(Answers)
             T == [x \in Clients |-> Tail(resp[x])]
  <2>3. << >> \in S /\ resp \in [Clients -> S] /\ \A x \in Clients : resp[x] # << >> => T[x] \in S
    BY <1>0, <2>2
  <2>4. \/ resp' = resp
        \/ resp' = [resp EXCEPT ![c] = << >>]
        \/ \E x \in Clients : resp[x] # << >> /\ resp' = [resp EXCEPT ![x] = T[x]]
    <3>1. \A x, y : x \notin Clients => [resp EXCEPT ![x] = y] = resp
      BY <1>0
    <3> QED
      BY <2>1, <3>1
  <2>5. resp' \in [Clients -> S]
    <3> HIDE DEF S, T
    <3> QED
      BY <2>3, <2>4
  <2> QED
    BY <2>5
<1>7. /\ outcome' = outcome \/ outcome' = [outcome EXCEPT ![c] = << >>]
      /\ \E o \in Requests \cup {"none"} : op' = op \/ op' = [op EXCEPT ![c] = o]
      /\ \/ asked' = asked \/ asked' = [asked EXCEPT ![c] = 0]
         \/ asked[c] < MaxRequests /\ asked' = [asked EXCEPT ![c] = asked[c] + 1]
      /\ deaths' = deaths \/ (deaths < MaxDeaths /\ deaths' = deaths + 1)
  <2>1. CASE Asks(c)
    <3>1. PICK o \in Requests, key \in Keys \cup {NoKey} : Request(c, o, key)
      BY <1>4, <2>1
    <3>2. /\ outcome' = [outcome EXCEPT ![c] = << >>] /\ op' = [op EXCEPT ![c] = o]
          /\ deaths' = deaths
      BY <3>1 DEF Request
    <3>3. \/ asked' = asked
          \/ asked[c] < MaxRequests /\ asked' = [asked EXCEPT ![c] = asked[c] + 1]
      BY <2>1 DEF Asks, AskForKey, Disconnect
    <3> QED
      BY <3>2, <3>3
  <2>2. CASE ~Asks(c)
    <3>1. /\ outcome' = outcome \/ outcome' = [outcome EXCEPT ![c] = << >>]
          /\ op' = op \/ op' = [op EXCEPT ![c] = "none"]
          /\ asked' = asked \/ asked' = [asked EXCEPT ![c] = 0]
          /\ deaths' = deaths \/ (deaths < MaxDeaths /\ deaths' = deaths + 1)
      BY <2>2 DEF ClientMoves, ClientStep, Asks, Start, MakeFifos, Connect, OpenFails, OpenFifo,
         FifoOpened, BrokenPipe, ReadResponse, CloseFifos, UnlinkFifos, Die, Exit, Close,
         calls, rest
    <3> QED
      BY <3>1
  <2> QED
    BY <2>1, <2>2
<1>8. /\ outcome' \in [Clients -> Seq(Answers)]
      /\ op' \in [Clients \cup Managers -> Requests \cup {"none"}]
  <2>1. << >> \in Seq(Answers)
    OBVIOUS
  <2>2. outcome' \in [Clients -> Seq(Answers)]
    BY <1>0, <1>7, <2>1
  <2>3. op' \in [Clients \cup Managers -> Requests \cup {"none"}]
    BY <1>0, <1>7
  <2> QED
    BY <2>2, <2>3
<1>9. asked' \in [Clients -> 0 .. MaxRequests] /\ deaths' \in 0 .. MaxDeaths
  <2>1. MaxRequests \in Nat /\ MaxDeaths \in Nat /\ asked[c] \in 0 .. MaxRequests
    BY <1>0, SessionAssumption
  <2>2. 0 \in 0 .. MaxRequests /\ (asked[c] < MaxRequests => asked[c] + 1 \in 0 .. MaxRequests)
    BY <2>1
  <2> DEFINE next == asked[c] + 1
             B == 0 .. MaxRequests
  <2>3. \/ asked' = asked \/ asked' = [asked EXCEPT ![c] = 0]
        \/ asked[c] < MaxRequests /\ asked' = [asked EXCEPT ![c] = next]
    BY <1>7
  <2>4. asked \in [Clients -> B] /\ 0 \in B /\ (asked[c] < MaxRequests => next \in B)
    BY <1>0, <2>2
  <2>5. asked' \in [Clients -> B]
    <3> HIDE DEF next, B
    <3> QED
      BY <2>3, <2>4
  <2>6. deaths' \in 0 .. MaxDeaths
    BY <1>0, <1>7, <2>1
  <2> QED
    BY <2>5, <2>6
<1> QED
  BY <1>2, <1>3, <1>5, <1>6, <1>8, <1>9

(* Where a client step leads, and who touches what managers share.         *)
LEMMA ClientControl ==
  ASSUME SessionInv, NEW c \in Clients, ClientMoves(c)
  PROVE  \/ /\ FifoOpened(c) /\ pc[c] = "opening" /\ c \in met /\ c \notin met'
            /\ \/ step[c] = 1 /\ pc'[c] = "hello" /\ step'[c] = 2
               \/ step[c] = 2 /\ pc'[c] = "open" /\ step'[c] = 3
               \/ step[c] = 3 /\ pc'[c] = "ready" /\ step'[c] = 1
         \/ /\ ~FifoOpened(c) /\ step'[c] = step[c]
            /\ \/ Start(c) /\ pc[c] = "off" /\ pc'[c] = "mkfifo"
               \/ MakeFifos(c) /\ pc[c] = "mkfifo" /\ pc'[c] = "connect"
               \/ Connect(c) /\ pc[c] = "connect" /\ pc'[c] = "open"
               \/ OpenFifo(c) /\ pc[c] = "open" /\ pc'[c] = "opening"
               \/ pc[c] = "hello" /\ pc'[c] = "open"
               \/ pc[c] = "await" /\ pc'[c] = "ready"
               \/ pc[c] = "bye" /\ pc'[c] = "close"
               \/ pc[c] = "ready" /\ pc'[c] \in {"await", "bye"}
               \/ pc[c] = "close" /\ pc'[c] = "remove"
               \/ UnlinkFifos(c) /\ pc[c] = "remove" /\ pc'[c] = "done"
               \/ Exits(c) /\ pc[c] \notin Ended /\ pc'[c] \in {"dead", "failed"}
<1>1. pc \in [Processes -> Labels] /\ step \in [Processes -> 1 .. Len(CloseOrder)]
      /\ c \in Processes /\ (pc[c] = "opening" => step[c] \in 1 .. 3)
  BY Constants, Orders DEF SessionInv, ShapesOK, TypeOK
<1>2. CASE FifoOpened(c)
  <2>1. /\ pc' = [pc EXCEPT ![c] = CASE OpenOrder[step[c]] = "resp"  -> "hello"
                                     [] OpenOrder[step[c]] = "req"   -> "open"
                                     [] OpenOrder[step[c]] = "notif" -> "ready"]
        /\ step' = [step EXCEPT ![c] = IF @ = Len(OpenOrder) THEN 1 ELSE @ + 1]
        /\ pc[c] = "opening" /\ c \in met /\ met' = met \ {c}
    BY <1>2 DEF FifoOpened, Opened
  <2>2. /\ OpenOrder[1] = "resp" /\ OpenOrder[2] = "req" /\ OpenOrder[3] = "notif"
        /\ Len(OpenOrder) = 3
    BY DEF OpenOrder
  <2>3. CASE step[c] = 1
    BY <1>1, <1>2, <2>1, <2>2, <2>3
  <2>4. CASE step[c] = 2
    BY <1>1, <1>2, <2>1, <2>2, <2>4
  <2>5. CASE step[c] = 3
    BY <1>1, <1>2, <2>1, <2>2, <2>5
  <2>6. step[c] = 1 \/ step[c] = 2 \/ step[c] = 3
    BY <1>1, <2>1
  <2> QED
    BY <2>3, <2>4, <2>5, <2>6
<1>3. CASE ReadResponse(c)
  <2>1. /\ pc[c] \in {"hello", "await", "bye"} /\ step' = step
        /\ pc'[c] = CASE pc[c] = "hello" -> "open"
                      [] pc[c] = "await" -> "ready"
                      [] pc[c] = "bye"   -> "close"
    BY <1>1, <1>3 DEF ReadResponse, Goto
  <2>2. ~FifoOpened(c)
    BY <2>1 DEF FifoOpened, Opened
  <2> QED
    BY <2>1, <2>2
<1>4. CASE Asks(c)
  <2>1. pc[c] = "ready" /\ pc'[c] \in {"await", "bye"} /\ step' = step
    BY <1>1, <1>4 DEF Asks, AskForKey, Disconnect, Request, Goto
  <2>2. ~FifoOpened(c)
    BY <2>1 DEF FifoOpened, Opened
  <2> QED
    BY <2>1, <2>2
<1>5. CASE /\ ~FifoOpened(c) /\ ~UnlinkFifos(c)
           /\ OpenFails(c) \/ BrokenPipe(c) \/ Die(c)
  <2>1. Exits(c) /\ pc[c] \notin Ended /\ pc'[c] \in {"dead", "failed"} /\ step' = step
    BY <1>1, <1>5 DEF OpenFails, BrokenPipe, Die, Exit, Goto, Ended, Exits
  <2> QED
    BY <1>5, <2>1
<1>6. CASE UnlinkFifos(c)
  <2>1. pc[c] = "remove" /\ pc'[c] = "done" /\ step' = step
    BY <1>1, <1>6 DEF UnlinkFifos, Exit, Goto
  <2>2. ~FifoOpened(c)
    BY <2>1 DEF FifoOpened, Opened
  <2> QED
    BY <1>6, <2>1, <2>2
<1>7. CASE ~FifoOpened(c) /\ (Start(c) \/ MakeFifos(c) \/ Connect(c) \/ OpenFifo(c) \/ CloseFifos(c))
  BY <1>1, <1>7 DEF Start, MakeFifos, Connect, OpenFifo, CloseFifos, Goto
<1> QED
  BY <1>2, <1>3, <1>4, <1>5, <1>6, <1>7 DEF ClientMoves, ClientStep, Asks

LEMMA ClientShares ==
  ASSUME SessionInv, NEW c \in Clients, ClientMoves(c)
  PROVE  /\ ~Connect(c) => UNCHANGED <<arrived, queue>>
         /\ ~MakeFifos(c) /\ ~UnlinkFifos(c) => node' = node
         /\ ~OpenFifo(c) => end' = end \/ end' = [end EXCEPT ![c] = NoPipes]
         /\ pc'[c] \in Ended \cup {"remove"} => end' = [end EXCEPT ![c] = NoPipes]
         /\ pc'[c] \notin Ended \cup {"remove"} /\ ~OpenFifo(c) => end' = end
<1>1. pc \in [Processes -> Labels] /\ c \in Processes
  BY Constants DEF SessionInv, ShapesOK
<1>2. CASE Exits(c) \/ CloseFifos(c)
  BY <1>1, <1>2 DEF Exits, OpenFails, CloseFifos, BrokenPipe, UnlinkFifos, Die, Exit, Close,
     Goto, registration, Ended
<1>3. CASE OpenFifo(c)
  BY <1>1, <1>3 DEF OpenFifo, Goto, registration, Ended
<1>4. CASE FifoOpened(c)
  <2>1. pc'[c] \notin Ended \cup {"remove"}
    BY <1>4, ClientControl DEF Ended
  <2> QED
    BY <1>4, <2>1 DEF FifoOpened, registration
<1>5. CASE Asks(c)
  BY <1>1, <1>5 DEF Asks, AskForKey, Disconnect, Request, Goto, registration, Ended, ends
<1>6. CASE ReadResponse(c)
  BY <1>1, <1>6 DEF ReadResponse, Goto, registration, Ended, ends
<1>7. CASE Start(c) \/ MakeFifos(c) \/ Connect(c)
  BY <1>1, <1>7 DEF Start, MakeFifos, Connect, Goto, registration, Ended, ends
<1> QED
  BY <1>2, <1>3, <1>4, <1>5, <1>6, <1>7 DEF ClientMoves, ClientStep, Exits, Asks

LEMMA ClientRegisters ==
  ASSUME SessionInv, NEW c \in Clients, ClientMoves(c)
  PROVE  /\ arrived' \subseteq Clients /\ queue' \in Seq(arrived') /\ RegisteredOK'
         /\ arrived \subseteq arrived'
         /\ \A x \in Clients : ~Connect(c) \/ x # c => (Queued(x)' <=> Queued(x))
         /\ Connect(c) => c \notin arrived /\ Queued(c)'
         /\ \A x \in Clients : (Served(x)' <=> Served(x))
<1>1. /\ session' = session /\ \A p \in Processes \ {c} : pc'[p] = pc[p]
      /\ arrived \subseteq Clients /\ queue \in Seq(arrived)
      /\ session \in [Managers -> Clients \cup {NoClient}] /\ c \in Processes
      /\ Clients \subseteq Processes
  BY ClientMovesOne, Constants DEF SessionInv, TypeOK, Processes
<1>2. \A x \in Clients : (Served(x)' <=> Served(x))
  BY <1>1 DEF Served
<1>3. CASE Connect(c)
  <2> DEFINE n == Len(queue)
  <2>1. /\ c \notin arrived /\ arrived' = arrived \cup {c} /\ queue' = Append(queue, c)
        /\ pc'[c] = "open"
    <3>1. pc \in [Processes -> Labels]
      BY DEF SessionInv, ShapesOK
    <3> QED
      BY <1>1, <1>3, <3>1 DEF Connect, Queue!Arrive, Goto
  <2>2. /\ n \in Nat /\ Len(queue') = n + 1 /\ queue'[n + 1] = c
        /\ \A i \in 1 .. n : queue'[i] = queue[i] /\ queue[i] \in arrived
    BY <1>1, <2>1
  <2>3. arrived' \subseteq Clients /\ arrived \subseteq arrived' /\ queue' \in Seq(arrived')
    <3>1. queue \in Seq(arrived') /\ c \in arrived'
      <4>1. \A i \in 1 .. n : queue[i] \in arrived'
        BY <2>1, <2>2
      <4> QED
        BY <1>1, <2>1, <4>1
    <3> QED
      BY <1>1, <2>1, <3>1
  <2> DEFINE last == n + 1
  <2>4. \A i : i \in 1 .. last <=> i \in 1 .. n \/ i = last
    BY <2>2
  <2>5. last \notin 1 .. n /\ Len(queue') = last /\ queue'[last] = c
    BY <2>2
  <2> HIDE DEF last, n
  <2>6. \A x \in Clients : Queued(x)' <=> Queued(x) \/ x = c
    <3> DEFINE new == queue'
    <3>1. \A x : (\E i \in 1 .. last : new[i] = x) <=> (\E i \in 1 .. n : queue[i] = x) \/ x = c
      BY <2>2, <2>4, <2>5
    <3> QED
      BY <2>5, <3>1 DEF Queued, n
  <2>7. \A i \in 1 .. Len(queue'), j \in 1 .. Len(queue') : queue'[i] = queue'[j] => i = j
    <3>1. \A i \in 1 .. n : queue'[i] # c
      BY <2>1, <2>2
    <3>2. \A i \in 1 .. n, j \in 1 .. n : queue[i] = queue[j] => i = j
      BY DEF SessionInv, RegisteredOK, n
    <3> QED
      BY <2>2, <2>4, <2>5, <3>1, <3>2
  <2>8. \A m \in Managers : session[m] # NoClient =>
          /\ session[m] \in arrived' /\ ~\E i \in 1 .. Len(queue') : queue'[i] = session[m]
          /\ \A x \in Managers : session[x] = session[m] => x = m
    <3> SUFFICES ASSUME NEW m \in Managers, session[m] # NoClient
                 PROVE  /\ session[m] \in arrived'
                        /\ ~\E i \in 1 .. Len(queue') : queue'[i] = session[m]
                        /\ \A x \in Managers : session[x] = session[m] => x = m
      OBVIOUS
    <3>1. /\ session[m] \in arrived /\ ~Queued(session[m]) /\ session[m] \in Clients
          /\ \A x \in Managers : session[x] = session[m] => x = m
      BY <1>1 DEF SessionInv, RegisteredOK
    <3>2. PICK s \in Clients : s = session[m]
      BY <3>1
    <3>3. s # c /\ s \in arrived /\ ~Queued(s)
      BY <2>1, <3>1, <3>2
    <3>4. ~Queued(s)'
      BY <2>6, <3>3
    <3> QED
      BY <2>1, <3>1, <3>2, <3>3, <3>4 DEF Queued
  <2>9. \A x \in Clients : pc'[x] \in {"off", "mkfifo", "connect"} => x \notin arrived'
    BY <1>1, <2>1 DEF SessionInv, RegisteredOK
  <2>10. RegisteredOK'
    BY <1>1, <2>7, <2>8, <2>9 DEF RegisteredOK, Queued
  <2>11. \A x \in Clients : x # c => (Queued(x)' <=> Queued(x))
    BY <2>6 DEF Queued
  <2>12. \A x \in Clients : ~Connect(c) \/ x # c => (Queued(x)' <=> Queued(x))
    BY <1>3, <2>11
  <2>13. c \notin arrived /\ Queued(c)'
    BY <2>1, <2>6
  <2> QED
    BY <1>2, <2>3, <2>10, <2>12, <2>13
<1>4. CASE ~Connect(c)
  <2>1. UNCHANGED <<arrived, queue, session>>
    BY <1>1, <1>4, ClientShares
  <2>2. \A x \in Clients : (Queued(x)' <=> Queued(x))
    BY <2>1 DEF Queued
  <2>3. pc'[c] \in {"off", "mkfifo", "connect"} => pc[c] \in {"off", "mkfifo", "connect"}
    BY <1>4, ClientControl DEF Exits
  <2>4. \A x \in Clients : pc'[x] \in {"off", "mkfifo", "connect"} => x \notin arrived
    BY <1>1, <2>3 DEF SessionInv, RegisteredOK
  <2>5. RegisteredOK'
    BY <2>1, <2>4 DEF SessionInv, RegisteredOK, Queued
  <2> QED
    BY <1>1, <1>2, <1>4, <2>1, <2>2, <2>5
<1> QED
  BY <1>3, <1>4

LEMMA ClientTypes ==
  ASSUME SessionInv, UNCHANGED IdOf, NEW c \in Clients, ClientMoves(c)
  PROVE  TypeOK' /\ ShapesOK'
<1>1. /\ UNCHANGED <<session, fd, desc, reading, from, up, clobbered>>
      /\ \A p \in Processes \ {c} : pc'[p] = pc[p] /\ step'[p] = step[p]
      /\ pc' \in [Processes -> Labels] /\ step' \in [Clients \cup Managers -> 1 .. Len(CloseOrder)]
  BY ClientMovesOne, Constants
<1>2. /\ Processes = Clients \cup Managers /\ c \notin Managers /\ c \in Processes
  BY Constants
<1>3. /\ pc'[c] \in {"mkfifo", "connect", "open", "opening", "hello",
                     "ready", "await", "bye", "close", "remove"} \cup Ended
      /\ pc'[c] \in {"open", "opening"} => step'[c] <= 3
      /\ pc'[c] = "hello" => step'[c] = 2
      /\ pc'[c] \notin {"open", "opening", "hello", "dead", "failed"} => step'[c] = 1
      /\ pc'[c] \notin {"key", "exec"}
  <2>1. /\ pc[c] \in {"open", "opening"} => step[c] <= 3
        /\ pc[c] = "hello" => step[c] = 2
        /\ pc[c] \notin {"open", "opening", "hello", "dead", "failed"} => step[c] = 1
        /\ step[c] \in Nat
    <3>1. step[c] \in Nat
      <4>1. step \in [Clients \cup Managers -> 1 .. Len(CloseOrder)]
        BY DEF SessionInv, TypeOK
      <4> QED
        BY <1>2, <4>1, Orders
    <3>2. ShapesOK
      BY DEF SessionInv
    <3> QED
      BY <1>2, <3>1, <3>2 DEF ShapesOK
  <2> QED
    BY <2>1, ClientControl DEF Ended
<1>4. \A m \in Managers : op'[m] = op[m]
  <2>1. \/ op' = op
        \/ \E o : op' = [op EXCEPT ![c] = o]
    BY DEF ClientMoves, ClientStep, Start, MakeFifos, Connect, OpenFails, OpenFifo,
       FifoOpened, AskForKey, Disconnect, Request, BrokenPipe, ReadResponse, CloseFifos,
       UnlinkFifos, Die, Exit, calls
  <2> QED
    BY <1>2, <2>1 DEF SessionInv, TypeOK
<1>5. TypeOK'
  <2>1. \A x \in Clients :
          pc'[x] \in {"mkfifo", "connect", "open", "opening", "hello",
                      "ready", "await", "bye", "close", "remove"} \cup Ended
    BY <1>1, <1>2, <1>3 DEF SessionInv, TypeOK
  <2>2. \A m \in Managers :
          /\ pc'[m] \in {"idle", "open", "opening", "hello", "ready", "key",
                         "exec", "close", "remove"}
          /\ session'[m] = NoClient <=> pc'[m] = "idle"
          /\ pc'[m] \in {"ready", "key", "exec", "close"} => \A k \in Kinds : fd'[m][k] \in Fds
          /\ reading'[m] # NoClient => pc'[m] \in {"ready", "key"}
    BY <1>1, <1>2 DEF SessionInv, TypeOK
  <2>3. met' \subseteq {p \in Clients \cup Managers : pc'[p] = "opening"}
    BY <1>2, ClientMet
  <2>4. /\ session' \in [Managers -> Clients \cup {NoClient}]
        /\ fd' \in [Managers -> [Kinds -> Fds \cup {NoFd}]]
        /\ \A d \in Fds : desc'[d] \in
             {Free} \cup [owner : Managers, kind : Kinds, of : Clients, ready : BOOLEAN]
        /\ reading' \in [Managers -> Clients \cup {NoClient}]
        /\ from' \in [Managers -> Clients \cup {NoClient}]
        /\ up' \in BOOLEAN /\ clobbered' \in BOOLEAN
    BY <1>1 DEF SessionInv, TypeOK
  <2>5. keeper' \subseteq Managers /\ Cardinality(keeper') <= 1
    <3>1. keeper' = keeper
      BY DEF ClientMoves, ClientStep, Start, MakeFifos, Connect, OpenFails, OpenFifo,
         FifoOpened, AskForKey, Disconnect, Request, BrokenPipe, ReadResponse, CloseFifos,
         UnlinkFifos, Die, calls
    <3> QED
      BY <3>1 DEF SessionInv, TypeOK
  <2> QED
    BY <1>1, <2>1, <2>2, <2>3, <2>4, <2>5, ClientData, ClientRegisters DEF TypeOK
<1>6. ShapesOK'
  <2>1. \A p \in Processes :
          /\ pc'[p] \in {"open", "opening"} => step'[p] <= 3
          /\ pc'[p] = "hello" => step'[p] = 2
          /\ pc'[p] \notin {"open", "opening", "hello", "close", "dead", "failed"} => step'[p] = 1
          /\ pc'[p] \in {"key", "exec"} => op'[p] # "none"
    <3> SUFFICES ASSUME NEW p \in Processes
                 PROVE  /\ pc'[p] \in {"open", "opening"} => step'[p] <= 3
                        /\ pc'[p] = "hello" => step'[p] = 2
                        /\ pc'[p] \notin {"open", "opening", "hello", "close", "dead", "failed"} => step'[p] = 1
                        /\ pc'[p] \in {"key", "exec"} => op'[p] # "none"
      OBVIOUS
    <3>1. CASE p = c
      BY <1>3, <3>1
    <3>2. CASE p # c
      <4>1. p \in Clients => pc[p] \notin {"key", "exec"}
        BY DEF SessionInv, TypeOK, Ended
      <4> QED
        BY <1>1, <1>2, <1>4, <3>2, <4>1 DEF SessionInv, ShapesOK
    <3> QED
      BY <3>1, <3>2
  <2>2. \A x \in Clients : pc'[x] = "close" => step'[x] = 1
    BY <1>1, <1>2, <1>3 DEF SessionInv, ShapesOK
  <2>3. IdOf' \in [Clients -> Ids] /\ DOMAIN desc' = Fds
    BY <1>1 DEF SessionInv, ShapesOK
  <2> QED
    BY <1>1, <2>1, <2>2, <2>3 DEF ShapesOK
<1> QED
  BY <1>5, <1>6

(* A client is around before its step and after it, except for the first.  *)
LEMMA ClientAround ==
  ASSUME SessionInv, NEW c \in Clients, ClientMoves(c)
  PROVE  /\ \A x \in Clients \ {c} : Around(x)' <=> Around(x)
         /\ ~Start(c) => Around(c)
         /\ \A x \in Clients \ {c} : Handshaking(x)' <=> Handshaking(x)
         /\ Handshaking(c)' => Handshaking(c) \/ MakeFifos(c)
         /\ \A x \in Clients : Handshaking(x) => Around(x)
         /\ \A x \in Clients : Handshaking(x)' => Around(x)'
<1>1. /\ \A x \in Clients \ {c} : pc'[x] = pc[x]
      /\ \A m \in Managers : session'[m] = session[m] /\ Called(m)' = Called(m)
      /\ \A x \in Clients : Served(x)' <=> Served(x)
      /\ \A x \in Clients \ {c} : Queued(x)' <=> Queued(x)
      /\ ~Connect(c) => (Queued(c)' <=> Queued(c))
  BY ClientMovesOne, ClientMovesNoFd, ClientRegisters, Constants
<1>2. ~Start(c) => Around(c)
  BY ClientControl DEF Around, Ended
<1>3. \A x \in Clients \ {c} : Handshaking(x)' <=> Handshaking(x)
  BY <1>1 DEF Handshaking
<1>4. Handshaking(c)' => Handshaking(c) \/ MakeFifos(c)
  <2>1. pc'[c] = "connect" => MakeFifos(c)
    BY ClientControl
  <2>2. Connect(c) => pc[c] = "connect"
    BY DEF Connect
  <2> QED
    BY <1>1, <2>1, <2>2 DEF Handshaking
<1>5. \A x \in Clients : Handshaking(x) => Around(x)
  BY DEF Handshaking, Around, Served, Ended
<1>6. \A x \in Clients : Handshaking(x)' => Around(x)'
  BY DEF Handshaking, Around, Served, Ended
<1>7. \A x \in Clients \ {c} : Around(x)' <=> Around(x)
  BY <1>1 DEF Around
<1> QED
  BY <1>2, <1>3, <1>4, <1>5, <1>6, <1>7

LEMMA ClientIds ==
  ASSUME SessionInv, UNCHANGED IdOf, NEW c \in Clients, ClientMoves(c)
  PROVE  IdsOK'
<1>1. /\ \A x \in Clients \ {c} : (pc'[x] = pc[x]) /\ (Around(x)' <=> Around(x))
      /\ ~Start(c) => Around(c)
  BY ClientMovesOne, ClientAround, Constants DEF Processes
<1>2. ~Start(c) => pc[c] # "done"
  BY ClientControl DEF Ended
<1>3. ASSUME NEW x \in Clients \ {c}, IdOf[x] = IdOf[c], Around(x)
      PROVE  ~Careful /\ pc[x] = "done"
  <2>1. CASE Start(c)
    <3>1. /\ pc[x] \in Ended
          /\ Careful \/ pc[x] \in {"dead", "failed"} => ~Queued(x) /\ ~Served(x)
      BY <1>3, <2>1 DEF Start, Queued, Served
    <3>2. pc[x] \in {"off", "done"} /\ ~Careful
      BY <1>3, <3>1 DEF Around, Ended
    <3>3. pc[x] = "off" => ~Queued(x) /\ ~Served(x)
      <4>1. pc[x] = "off" => x \notin arrived
        BY DEF SessionInv, RegisteredOK
      <4>2. Queued(x) \/ Served(x) => x \in arrived
        <5>1. queue \in Seq(arrived) /\ x # NoClient
          BY Constants DEF SessionInv, TypeOK
        <5>2. \A i \in 1 .. Len(queue) : queue[i] \in arrived
          BY <5>1
        <5>3. \A m \in Managers : session[m] = x => x \in arrived
          BY <5>1 DEF SessionInv, RegisteredOK
        <5> QED
          BY <5>2, <5>3 DEF Queued, Served
      <4> QED
        BY <4>1, <4>2
    <3> QED
      BY <1>3, <3>1, <3>2, <3>3 DEF Around
  <2>2. CASE ~Start(c)
    <3>1. "done" \in {pc[x], pc[c]} /\ ~Careful
      BY <1>1, <1>3, <2>2 DEF SessionInv, IdsOK
    <3> QED
      BY <1>2, <2>2, <3>1
  <2> QED
    BY <2>1, <2>2
<1>4. ASSUME NEW x \in Clients, NEW y \in Clients,
             x # y, IdOf[x] = IdOf[y], Around(x)', Around(y)'
      PROVE  ~Careful /\ "done" \in {pc'[x], pc'[y]}
  <2>1. CASE x = c
    BY <1>1, <1>3, <1>4, <2>1
  <2>2. CASE y = c
    BY <1>1, <1>3, <1>4, <2>2
  <2>3. CASE x # c /\ y # c
    BY <1>1, <1>4, <2>3 DEF SessionInv, IdsOK
  <2> QED
    BY <2>1, <2>2, <2>3
<1> QED
  BY <1>4 DEF IdsOK

LEMMA ClientPaths ==
  ASSUME SessionInv, UNCHANGED IdOf, NEW c \in Clients, ClientMoves(c)
  PROVE  PathsOK'
<1>1. /\ \A x \in Clients \ {c} : /\ pc'[x] = pc[x]
                                  /\ Around(x)' <=> Around(x)
                                  /\ Handshaking(x)' <=> Handshaking(x)
      /\ \A x \in Clients : Handshaking(x) => Around(x)
      /\ Handshaking(c)' => Handshaking(c) \/ MakeFifos(c)
  BY ClientMovesOne, ClientAround, Constants DEF Processes
<1>2. /\ IdOf \in [Clients -> Ids] /\ node \in [Ids -> [Kinds -> Clients \cup {NoClient}]]
      /\ PathId(c) = IdOf[c]
  BY DEF SessionInv, TypeOK, ShapesOK, PathId
<1>3. CASE MakeFifos(c) \/ UnlinkFifos(c)
  <2>1. pc[c] \in {"mkfifo", "remove"} /\ Around(c)
    BY <1>3 DEF MakeFifos, UnlinkFifos, Around, Ended
  <2>2. \A i \in Ids \ {IdOf[c]} : node'[i] = node[i]
    BY <1>2, <1>3 DEF MakeFifos, UnlinkFifos, Unlinked
  <2>3. /\ MakeFifos(c) => \A k \in Kinds : node'[IdOf[c]][k] = c
        /\ UnlinkFifos(c) => \A k \in Kinds : node'[IdOf[c]][k] = NoClient
    BY <1>2 DEF MakeFifos, UnlinkFifos, Unlinked, NoPipes
  <2>4. ASSUME NEW x \in Clients \ {c}, IdOf[x] = IdOf[c], Around(x)
        PROVE  ~Careful /\ pc[x] = "done"
    BY <2>1, <2>4 DEF SessionInv, IdsOK
  <2>5. ~Handshaking(c)' \/ MakeFifos(c)
    <3>1. CASE UnlinkFifos(c)
      <4>1. pc[c] = "remove" /\ Called(c) = 3
        BY <3>1 DEF UnlinkFifos, Called
      <4>2. Past(c, 3)
        BY <4>1 DEF SessionInv, MeetingsOK
      <4>3. ~Handshaking(c)
        <5>1. \A m \in Managers : session[m] = c => ~(Called(m) < 3)
          <6>1. ASSUME NEW m \in Managers, session[m] = c
                PROVE  ~(Called(m) < 3)
            <7>1. Called(m) >= 3
              BY <4>2, <6>1 DEF Past
            <7>2. Called(m) \in 0 .. 3
              BY CalledBounds, Constants
            <7> QED
              BY <7>1, <7>2
          <6> QED
            BY <6>1
        <5> QED
          BY <4>1, <4>2, <5>1 DEF Past, Handshaking
      <4> QED
        BY <1>1, <4>3
    <3> QED
      BY <1>3, <3>1
  <2>6. ASSUME NEW x \in Clients, NEW k \in Kinds
        PROVE  /\ pc'[x] \notin {"mkfifo", "done"} /\ Around(x)' => node'[IdOf[x]][k] \in {x, NoClient}
               /\ Careful /\ Handshaking(x)' => node'[IdOf[x]][k] = x
    <3>1. CASE x = c
      BY <1>3, <2>3, <2>5, <3>1
    <3>2. CASE x # c /\ IdOf[x] = IdOf[c]
      BY <1>1, <2>4, <3>2
    <3>3. CASE x # c /\ IdOf[x] # IdOf[c]
      <4>1. node'[IdOf[x]] = node[IdOf[x]]
        BY <1>2, <2>2, <3>3
      <4> QED
        BY <1>1, <3>3, <4>1 DEF SessionInv, PathsOK
    <3> QED
      BY <3>1, <3>2, <3>3
  <2> QED
    BY <2>6 DEF PathsOK
<1>4. CASE ~MakeFifos(c) /\ ~UnlinkFifos(c)
  <2>1. node' = node
    BY <1>4, ClientShares
  <2>2. \A x \in Clients : Handshaking(x)' => Handshaking(x)
    BY <1>1, <1>4
  <2>3. pc'[c] \notin {"mkfifo", "done"} /\ Around(c)' => pc[c] \notin {"mkfifo", "done"} /\ Around(c)
    <3>1. CASE pc[c] = "mkfifo"
      <4>1. pc'[c] \in {"dead", "failed"} /\ ~Connect(c)
        BY <1>4, <3>1, ClientControl DEF Connect
      <4>2. ~Queued(c) /\ ~Served(c)
        <5>1. c \notin arrived
          BY <3>1 DEF SessionInv, RegisteredOK
        <5>2. queue \in Seq(arrived) /\ c # NoClient
          BY Constants DEF SessionInv, TypeOK
        <5>3. \A i \in 1 .. Len(queue) : queue[i] \in arrived
          BY <5>2
        <5> QED
          BY <5>1, <5>2, <5>3 DEF SessionInv, RegisteredOK, Queued, Served
      <4> QED
        BY <4>1, <4>2, ClientRegisters DEF Around, Ended
    <3>2. CASE pc[c] # "mkfifo"
      <4>1. Start(c) => pc'[c] = "mkfifo"
        BY ClientControl DEF Start, Exits, Ended
      <4>2. ~Start(c) => pc[c] # "done"
        BY ClientControl DEF Ended
      <4> QED
        BY <3>2, <4>1, <4>2, ClientAround
    <3> QED
      BY <3>1, <3>2
  <2> QED
    BY <1>1, <2>1, <2>2, <2>3 DEF SessionInv, PathsOK
<1> QED
  BY <1>3, <1>4

(* How a client's count of the FIFOs it has called open for changes.       *)
LEMMA ClientCalled ==
  ASSUME SessionInv, NEW c \in Clients, ClientMoves(c)
  PROVE  /\ ~OpenFifo(c) /\ pc'[c] \notin {"dead", "failed"} => Called(c)' = Called(c)
         /\ OpenFifo(c) => Called(c)' = step[c] /\ Called(c) = step[c] - 1 /\ step[c] \in 1 .. 3
<1>1. /\ pc[c] \in {"open", "opening"} => step[c] \in 1 .. 3
      /\ pc[c] = "hello" => step[c] = 2
      /\ pc[c] \in {"off", "mkfifo", "connect"} => step[c] = 1
      /\ step[c] \in Nat
  <2>1. step[c] \in 1 .. 4 /\ c \in Processes
    BY Constants, Orders DEF SessionInv, TypeOK
  <2>2. ShapesOK
    BY DEF SessionInv
  <2> QED
    BY <2>1, <2>2 DEF ShapesOK
<1>2. CASE FifoOpened(c)
  <2>1. pc[c] = "opening" /\ ~OpenFifo(c)
    BY <1>2 DEF FifoOpened, Opened, OpenFifo
  <2>2. \/ step[c] = 1 /\ pc'[c] = "hello" /\ step'[c] = 2
        \/ step[c] = 2 /\ pc'[c] = "open" /\ step'[c] = 3
        \/ step[c] = 3 /\ pc'[c] = "ready" /\ step'[c] = 1
    BY <1>2, ClientControl
  <2>3. Called(c)' = Called(c)
    BY <2>1, <2>2 DEF Called
  <2> QED
    BY <2>1, <2>3
<1>3. CASE OpenFifo(c)
  <2>1. pc[c] = "open" /\ pc'[c] = "opening" /\ step'[c] = step[c]
    <3>1. pc \in [Processes -> Labels] /\ c \in Processes
      BY Constants DEF SessionInv, ShapesOK
    <3> QED
      BY <1>3, <3>1 DEF OpenFifo, Goto
  <2> QED
    BY <1>1, <1>3, <2>1 DEF Called
<1>4. CASE ~FifoOpened(c) /\ ~OpenFifo(c)
  <2>1. pc'[c] \notin {"dead", "failed"} =>
          /\ step'[c] = step[c]
          /\ \/ pc[c] \in {"off", "mkfifo"} /\ pc'[c] \in {"mkfifo", "connect"}
             \/ pc[c] = "connect" /\ pc'[c] = "open" /\ step[c] = 1
             \/ pc[c] = "hello" /\ pc'[c] = "open"
             \/ /\ pc[c] \in {"await", "bye", "ready", "close", "remove"}
                /\ pc'[c] \in {"await", "bye", "ready", "close", "remove", "done"}
    BY <1>1, <1>4, ClientControl
  <2> QED
    BY <1>1, <1>4, <2>1 DEF Called
<1> QED
  BY <1>2, <1>3, <1>4

LEMMA ClientEnds ==
  ASSUME SessionInv, UNCHANGED IdOf, NEW c \in Clients, ClientMoves(c)
  PROVE  EndsOK'
<1>1. /\ \A x \in Clients \ {c} : pc'[x] = pc[x] /\ step'[x] = step[x]
      /\ end \in [Clients -> [Kinds -> Clients \cup {NoClient}]]
  BY ClientMovesOne, Constants DEF Processes, SessionInv, TypeOK
<1>2. \A x \in Clients \ {c} : Called(x)' = Called(x)
  BY <1>1 DEF Called
<1>3. \A x \in Clients \ {c} : end'[x] = end[x]
  <2>1. CASE OpenFifo(c)
    BY <1>1, <2>1 DEF OpenFifo
  <2>2. CASE ~OpenFifo(c)
    BY <1>1, <2>2, ClientShares
  <2> QED
    BY <2>1, <2>2
<1>4. \A k \in Kinds : end'[c][k] = IF Turn[k] <= Called(c)' /\ pc'[c] \notin Ended \cup {"remove"}
                                    THEN c ELSE NoClient
  <2>1. CASE OpenFifo(c)
    <3> DEFINE kind  == OpenOrder[step[c]]
               maker == node[PathId(c)][kind]
    <3>1. maker # NoClient /\ end' = [end EXCEPT ![c][kind] = maker] /\ pc[c] = "open"
          /\ pc'[c] = "opening"
      <4>1. pc \in [Processes -> Labels] /\ c \in Processes
        BY Constants DEF SessionInv, ShapesOK
      <4> QED
        BY <2>1, <4>1 DEF OpenFifo, Goto
    <3>2. /\ Called(c)' = step[c] /\ Called(c) = step[c] - 1 /\ step[c] \in 1 .. 3
          /\ kind \in Kinds /\ Turn[kind] = step[c]
      BY <2>1, ClientCalled, Orders
    <3>3. maker = c
      BY <3>1, <3>2 DEF SessionInv, PathsOK, Around, Ended, PathId
    <3>4. \A k \in Kinds : end[c][k] = IF Turn[k] <= step[c] - 1 THEN c ELSE NoClient
      BY <3>1, <3>2 DEF SessionInv, EndsOK, Ended
    <3>5. \A k \in Kinds : k # kind => Turn[k] # step[c] /\ Turn[k] \in 1 .. 3
      BY <3>2, Orders
    <3>6. /\ end'[c][kind] = c
          /\ \A k \in Kinds : k # kind => end'[c][k] = end[c][k]
      BY <1>1, <3>1, <3>2, <3>3
    <3>7. pc'[c] \notin Ended \cup {"remove"}
      BY <3>1 DEF Ended
    <3> HIDE DEF kind, maker
    <3> QED
      BY <3>2, <3>4, <3>5, <3>6, <3>7
  <2>2. CASE ~OpenFifo(c)
    <3>1. CASE pc'[c] \in Ended \cup {"remove"}
      BY <1>1, <3>1, ClientShares DEF NoPipes
    <3>2. CASE pc'[c] \notin Ended \cup {"remove"}
      <4>1. end' = end /\ Called(c)' = Called(c)
        BY <2>2, <3>2, ClientShares, ClientCalled DEF Ended
      <4>2. pc[c] \in Ended \cup {"remove"} => Called(c) = 0
        <5>1. pc[c] \in Ended \cup {"remove"} => pc[c] = "off"
          BY <3>2, ClientControl DEF Ended
        <5> QED
          BY <5>1 DEF Called
      <4>3. \A k \in Kinds : Turn[k] \in 1 .. 3
        BY Orders
      <4> QED
        BY <3>2, <4>1, <4>2, <4>3 DEF SessionInv, EndsOK
    <3> QED
      BY <3>1, <3>2
  <2> QED
    BY <2>1, <2>2
<1> QED
  BY <1>1, <1>2, <1>3, <1>4 DEF SessionInv, EndsOK

(* Whoever has the server's end of a FIFO of x has opened it for x.        *)
LEMMA ServerEndIsPast ==
  ASSUME SessionInv, NEW x \in Clients, NEW k \in Kinds, ServerEnd(k, x) # {}
  PROVE  Past(x, Turn[k])
<1>0. Turn[k] \in 1 .. 3
  BY Orders
<1>1. CASE ServerFds(k, x) # {}
  <2>1. PICK d \in Fds : desc[d].kind = k /\ desc[d].of = x
    BY <1>1 DEF ServerFds
  <2>2. desc[d] # Free
    BY <2>1, Constants
  <2>3. PICK m \in Managers : m = desc[d].owner
    BY <2>2 DEF SessionInv, TypeOK
  <2>4. /\ fd[m][k] = d /\ session[m] = x
    BY <2>1, <2>2, <2>3 DEF SessionInv, DescriptorsOK, DescriptorOK
  <2>5. Called(m) >= Turn[k]
    <3>1. Turn[k] <= Called(m)
      BY <2>4, Constants DEF SessionInv, FdsOK
    <3> QED
      BY <1>0, <3>1, CalledBounds, Constants
  <2> QED
    BY <2>4, <2>5, Constants DEF SessionInv, RegisteredOK, Past
<1>2. CASE k = "req" /\ \E m \in Managers : reading[m] = x
  BY <1>2, Constants DEF SessionInv, MeetingsOK, Turn, Kinds
<1> QED
  BY <1>1, <1>2 DEF ServerEnd

(* Past is stable under the steps of a client.                             *)
LEMMA ClientKeepsPast ==
  ASSUME SessionInv, NEW c \in Clients, ClientMoves(c), NEW x \in Clients, NEW n \in Nat, Past(x, n)
  PROVE  Past(x, n)'
<1> SUFFICES ASSUME n > 0
             PROVE  /\ x \in arrived' /\ ~Queued(x)'
                    /\ \A m \in Managers : session'[m] = x => Called(m)' >= n
  BY DEF Past
<1>1. x \in arrived /\ ~Queued(x) /\ \A m \in Managers : session[m] = x => Called(m) >= n
  BY DEF Past
<1> QED
  BY <1>1, ClientRegisters, ClientMovesOne, ClientMovesNoFd

LEMMA ClientMeetings ==
  ASSUME SessionInv, UNCHANGED IdOf, NEW c \in Clients, ClientMoves(c)
  PROVE  MeetingsOK'
<1> DEFINE T(x) == IF pc[x] = "opening" /\ x \notin met THEN step[x] - 1 ELSE Called(x)
<1>1. /\ \A x \in Clients \ {c} : pc'[x] = pc[x] /\ step'[x] = step[x]
      /\ met' \subseteq met \cup Managers \cup {c}
      /\ reading' = reading
  BY ClientMovesOne, ClientMet, Constants DEF Processes
<1>2. \A x \in Clients : Called(x) \in 0 .. 3 /\ step[x] \in Nat \ {0}
  <2>1. \A x \in Clients : step[x] \in 1 .. 4
    BY Orders DEF SessionInv, TypeOK
  <2> QED
    BY <2>1, CalledBounds DEF Processes
<1>3. \A x \in Clients \ {c} : Called(x)' = Called(x)
  BY <1>1 DEF Called
<1>4. \A x \in Clients : pc[x] = "opening" => Called(x) = step[x]
  BY DEF Called
<1>5. ASSUME NEW x \in Clients, NEW n \in Nat, NEW k \in Nat, Past(x, n), k <= n, k = T(x)'
      PROVE  Past(x, T(x))'
  <2>1. Past(x, k)
    <3>1. \A m \in Managers : Called(m) \in 0 .. 3
      BY CalledBounds, Constants
    <3> QED
      BY <1>5, <3>1 DEF Past
  <2>2. Past(x, k)'
    BY <2>1, ClientKeepsPast
  <2> HIDE DEF T
  <2> QED
    BY <1>5, <2>2 DEF Past
<1>6. \A x \in Clients : pc[x] \notin {"off", "dead", "failed"} => Past(x, T(x)) /\ T(x) \in 0 .. 3
  BY <1>2, <1>4 DEF SessionInv, MeetingsOK
<1>7. ASSUME NEW x \in Clients \ {c}, pc'[x] \notin {"off", "dead", "failed"}
      PROVE  Past(x, T(x))'
  <2>1. /\ T(x)' \in {step[x] - 1, Called(x)}
        /\ T(x)' = Called(x) => T(x) = Called(x) \/ (pc[x] = "opening" /\ x \notin met)
    BY <1>1, <1>3
  <2>2. x \notin met => x \notin met'
    BY <1>1, Constants
  <2>3. pc[x] = "opening" => T(x)' <= T(x) /\ T(x)' \in 0 .. 3
    BY <1>1, <1>2, <1>3, <1>4, <2>2
  <2>4. pc[x] # "opening" => T(x)' = T(x)
    BY <1>1, <1>3
  <2>5. T(x)' \in Nat /\ T(x)' <= T(x) /\ T(x) \in Nat /\ Past(x, T(x))
    <3> HIDE DEF T
    <3> QED
      BY <1>1, <1>6, <1>7, <2>3, <2>4
  <2> HIDE DEF T
  <2> QED
    BY <1>5, <2>5
<1>8. ASSUME pc'[c] \notin {"off", "dead", "failed"}
      PROVE  Past(c, T(c))'
  <2>1. CASE OpenFifo(c)
    <3>1. /\ pc[c] = "open" /\ pc'[c] = "opening" /\ step'[c] = step[c]
          /\ Called(c)' = step[c] /\ Called(c) = step[c] - 1 /\ step[c] \in 1 .. 3
      <4>1. pc \in [Processes -> Labels] /\ c \in Processes
        BY Constants DEF SessionInv, ShapesOK
      <4> QED
        BY <2>1, <4>1, ClientCalled DEF OpenFifo, Goto
    <3>2. Past(c, Called(c))
      BY <3>1 DEF SessionInv, MeetingsOK
    <3>3. CASE c \notin met'
      <4>1. T(c)' = Called(c)
        BY <3>1, <3>3
      <4> QED
        BY <1>2, <1>5, <3>2, <4>1
    <3>4. CASE c \in met'
      <4> DEFINE kind  == OpenOrder[step[c]]
                 maker == node[PathId(c)][kind]
      <4>1. kind \in Kinds /\ Turn[kind] = step[c]
        BY <3>1, Orders
      <4>2. c \notin met
        BY <3>1 DEF SessionInv, TypeOK
      <4>3. /\ met' = met \cup {desc[d].owner : d \in {d \in ServerFds(kind, maker) : ~desc[d].ready}}
                      \cup (IF ServerEnd(kind, maker) # {} THEN {c} ELSE {})
            /\ maker # NoClient
        BY <2>1 DEF OpenFifo
      <4>4. maker = c
        BY <3>1, <4>1, <4>3 DEF SessionInv, PathsOK, Around, Ended, PathId
      <4>5. \A d \in ServerFds(kind, maker) : ~desc[d].ready => desc[d].owner # c
        <5> SUFFICES ASSUME NEW d \in Fds, desc[d].of = c, ~desc[d].ready
                     PROVE  desc[d].owner # c
          BY <4>4 DEF ServerFds
        <5>1. desc[d] # Free
          BY Constants
        <5> QED
          BY <5>1, NotReadyWaits, Constants
      <4>6. ServerEnd(kind, c) # {}
        BY <3>4, <4>2, <4>3, <4>4, <4>5
      <4> HIDE DEF kind, maker
      <4>7. Past(c, step[c])
        BY <4>1, <4>6, ServerEndIsPast
      <4>8. T(c)' = step[c] /\ step[c] \in Nat
        BY <3>1, <3>4
      <4> HIDE DEF T
      <4> QED
        BY <1>5, <4>7, <4>8
    <3> QED
      BY <3>3, <3>4
  <2>2. CASE ~OpenFifo(c)
    <3>1. Called(c)' = Called(c) /\ pc'[c] # "opening" /\ pc[c] \notin {"dead", "failed"}
      <4>1. pc'[c] # "opening"
        BY <2>2, ClientControl
      <4>2. pc[c] \notin {"dead", "failed"}
        BY ClientControl DEF Ended
      <4> QED
        BY <1>8, <2>2, <4>1, <4>2, ClientCalled
    <3>2. T(c)' = Called(c)
      BY <3>1
    <3>3. CASE pc[c] = "off"
      <4>1. Called(c) = 0
        BY <3>3 DEF Called
      <4>2. Past(c, 0)
        BY DEF Past
      <4> HIDE DEF T
      <4> QED
        BY <1>5, <3>2, <4>1, <4>2
    <3>4. CASE pc[c] # "off"
      <4>1. pc[c] = "opening" => c \in met
        BY <1>8, <2>2, ClientControl
      <4>2. T(c) = Called(c) /\ Past(c, T(c))
        BY <1>6, <3>1, <3>4, <4>1
      <4> HIDE DEF T
      <4> QED
        BY <1>2, <1>5, <3>2, <4>2
    <3> QED
      BY <3>3, <3>4
  <2> QED
    BY <2>1, <2>2
<1>9. \A x \in Clients : pc'[x] \notin {"off", "dead", "failed"} => Past(x, T(x))'
  BY <1>7, <1>8
<1>10. \A m \in Managers : reading'[m] # NoClient => Past(reading[m], 2)'
  <2> SUFFICES ASSUME NEW m \in Managers, reading[m] # NoClient
               PROVE  Past(reading[m], 2)'
    BY <1>1
  <2>1. PICK x \in Clients : x = reading[m]
    BY DEF SessionInv, TypeOK
  <2>2. Past(x, 2)
    BY <2>1 DEF SessionInv, MeetingsOK
  <2>3. Past(x, 2)'
    BY <2>2, ClientKeepsPast
  <2>4. reading'[m] = x
    BY <1>1, <2>1
  <2> QED
    BY <2>3, <2>4 DEF Past
<1> QED
  BY <1>9, <1>10 DEF MeetingsOK

LEMMA ClientStepInv ==
  ASSUME SessionInv, UNCHANGED IdOf, NEW c \in Clients, ClientMoves(c)
  PROVE  SessionInv'
BY ClientTypes, ClientRegisters, ClientMovesNoFd, ClientIds, ClientPaths, ClientEnds,
   ClientMeetings DEF SessionInv

-----------------------------------------------------------------------------
(* The steps of a manager.  They leave the clients alone, but for what     *)
(* open reports to the other end.                                          *)
Reads(m) == CallRead(m) \/ ReturnRead(m)

LEMMA ManagerControl ==
  ASSUME SessionInv, NEW m \in Managers, ManagerStep(m)
  PROVE  /\ up
         /\ pc' \in [Processes -> Labels] /\ step' \in [Processes -> 1 .. Len(CloseOrder)]
         /\ \A p \in Processes \ {m} : pc'[p] = pc[p] /\ step'[p] = step[p]
         /\ \/ Take(m) /\ pc[m] = "idle" /\ pc'[m] = "open" /\ step'[m] = step[m]
            \/ /\ OpenPipe(m) /\ pc[m] = "open" /\ step'[m] = step[m]
               /\ pc'[m] \in {"open", "opening"} /\ (pc'[m] = "opening" <=> up')
            \/ /\ PipeOpened(m) /\ pc[m] = "opening" /\ m \in met /\ met' = met \ {m}
               /\ \/ step[m] = 1 /\ pc'[m] = "hello" /\ step'[m] = 2
                  \/ step[m] = 2 /\ pc'[m] = "open" /\ step'[m] = 3
                  \/ step[m] = 3 /\ pc'[m] = "ready" /\ step'[m] = 1
            \/ Hello(m) /\ pc[m] = "hello" /\ pc'[m] = "open" /\ step'[m] = step[m]
            \/ /\ Reads(m) /\ pc[m] \in {"ready", "key"} /\ step'[m] = step[m]
               /\ pc'[m] \in {"ready", "key", "exec"}
            \/ /\ Answer(m) /\ pc[m] = "exec" /\ pc'[m] \in {"close", "ready"}
               /\ step'[m] = step[m]
            \/ /\ ClosePipe(m) /\ pc[m] = "close"
               /\ \/ step[m] < 4 /\ step'[m] = step[m] + 1 /\ pc'[m] = "close"
                  \/ step[m] = 4 /\ step'[m] = 1 /\ pc'[m] = "remove"
            \/ UnlinkPipes(m) /\ pc[m] = "remove" /\ pc'[m] = "idle" /\ step'[m] = step[m]
<1>1. /\ pc \in [Processes -> Labels] /\ step \in [Processes -> 1 .. 4] /\ m \in Processes
      /\ pc[m] \in {"open", "opening"} => step[m] \in 1 .. 3
      /\ Len(OpenOrder) = 3 /\ Len(CloseOrder) = 4
      /\ {"open", "opening", "hello", "ready", "key", "exec", "close", "remove", "idle"} \subseteq Labels
      /\ reading[m] # NoClient => pc[m] \in {"ready", "key"}
  <2>1. /\ step \in [Processes -> 1 .. 4] /\ m \in Processes
        /\ reading[m] # NoClient => pc[m] \in {"ready", "key"}
    BY Orders DEF SessionInv, TypeOK, Processes
  <2>2. ShapesOK
    BY DEF SessionInv
  <2> QED
    BY <2>1, <2>2, Orders DEF ShapesOK, Labels
<1> DEFINE Goes(where) == pc' = [pc EXCEPT ![m] = where] /\ step' = step
<1>2. ASSUME NEW where \in Labels, Goes(where)
      PROVE  /\ pc' \in [Processes -> Labels] /\ step' \in [Processes -> 1 .. Len(CloseOrder)]
             /\ \A p \in Processes \ {m} : pc'[p] = pc[p] /\ step'[p] = step[p]
             /\ pc'[m] = where /\ step'[m] = step[m]
  BY <1>1, <1>2
<1>3. CASE Take(m)
  <2>1. Goes("open") /\ pc[m] = "idle" /\ up
    BY <1>3 DEF Take, Goto, At
  <2> HIDE DEF Goes
  <2> QED
    BY <1>1, <1>2, <1>3, <2>1
<1>4. CASE OpenPipe(m)
  <2>1. pc[m] = "open" /\ up
    BY <1>4 DEF OpenPipe, At
  <2>2. \/ up' = FALSE /\ pc' = pc /\ step' = step
        \/ up' = up /\ Goes("opening")
    BY <1>4 DEF OpenPipe, Goto, control
  <2>3. /\ pc' \in [Processes -> Labels] /\ step' \in [Processes -> 1 .. Len(CloseOrder)]
        /\ \A p \in Processes \ {m} : pc'[p] = pc[p] /\ step'[p] = step[p]
        /\ step'[m] = step[m] /\ (pc'[m] = "opening" <=> up') /\ pc'[m] \in {"open", "opening"}
    <3>1. "opening" \in Labels
      BY <1>1
    <3>2. CASE up' = FALSE /\ pc' = pc /\ step' = step
      BY <1>1, <2>1, <3>2
    <3>3. CASE up' = up /\ Goes("opening")
      <4> HIDE DEF Goes
      <4> QED
        BY <1>2, <2>1, <3>1, <3>3
    <3> QED
      BY <2>2, <3>2, <3>3
  <2> QED
    BY <1>4, <2>1, <2>3
<1>5. CASE PipeOpened(m)
  <2>1. /\ pc' = [pc EXCEPT ![m] = CASE OpenOrder[step[m]] = "resp"  -> "hello"
                                     [] OpenOrder[step[m]] = "req"   -> "open"
                                     [] OpenOrder[step[m]] = "notif" -> "ready"]
        /\ step' = [step EXCEPT ![m] = IF @ = Len(OpenOrder) THEN 1 ELSE @ + 1]
        /\ pc[m] = "opening" /\ m \in met /\ met' = met \ {m} /\ up
    BY <1>5 DEF PipeOpened, Opened, At
  <2>2. OpenOrder[1] = "resp" /\ OpenOrder[2] = "req" /\ OpenOrder[3] = "notif"
    BY DEF OpenOrder
  <2>3. \/ step[m] = 1 /\ pc'[m] = "hello" /\ step'[m] = 2
        \/ step[m] = 2 /\ pc'[m] = "open" /\ step'[m] = 3
        \/ step[m] = 3 /\ pc'[m] = "ready" /\ step'[m] = 1
    <3>1. CASE step[m] = 1
      BY <1>1, <2>1, <2>2, <3>1
    <3>2. CASE step[m] = 2
      BY <1>1, <2>1, <2>2, <3>2
    <3>3. CASE step[m] = 3
      BY <1>1, <2>1, <2>2, <3>3
    <3>4. step[m] = 1 \/ step[m] = 2 \/ step[m] = 3
      BY <1>1, <2>1
    <3> QED
      BY <3>1, <3>2, <3>3, <3>4
  <2>4. pc'[m] \in Labels /\ step'[m] \in 1 .. 4
    BY <1>1, <2>3
  <2>5. pc' \in [Processes -> Labels] /\ step' \in [Processes -> 1 .. Len(CloseOrder)]
        /\ \A p \in Processes \ {m} : pc'[p] = pc[p] /\ step'[p] = step[p]
    BY <1>1, <2>1, <2>4
  <2> QED
    BY <1>5, <2>1, <2>3, <2>5
<1>6. CASE Hello(m)
  <2>1. Goes("open") /\ pc[m] = "hello" /\ up
    BY <1>6 DEF Hello, Goto, At
  <2> HIDE DEF Goes
  <2> QED
    BY <1>1, <1>2, <1>6, <2>1
<1>7. CASE Reads(m)
  <2>1. /\ pc[m] \in {"ready", "key"} /\ up
        /\ \E where \in {"ready", "key", "exec"} : Goes(where)
    <3>1. CASE CallRead(m)
      <4>1. /\ pc[m] \in {"ready", "key"} /\ up
            /\ (pc' = pc /\ step' = step) \/ Goes("exec") \/ Goes("ready")
        BY <3>1 DEF CallRead, NothingRead, Goto, At, control
      <4>2. pc' = pc /\ step' = step => Goes(pc[m])
        BY <1>1
      <4> HIDE DEF Goes
      <4> QED
        BY <4>1, <4>2
    <3>2. CASE ReturnRead(m)
      <4>1. pc[m] \in {"ready", "key"} /\ up
        BY <1>1, <3>2 DEF ReturnRead
      <4>2. Goes("key") \/ Goes("exec") \/ Goes("ready")
        BY <3>2 DEF ReturnRead, NothingRead, Goto
      <4> HIDE DEF Goes
      <4> QED
        BY <4>1, <4>2
    <3> QED
      BY <1>7, <3>1, <3>2 DEF Reads
  <2> HIDE DEF Goes
  <2> QED
    BY <1>1, <1>2, <1>7, <2>1
<1>8. CASE Answer(m)
  <2>1. /\ pc[m] = "exec" /\ up
        /\ Goes("close") \/ Goes("ready")
    BY <1>8 DEF Answer, Goto, At
  <2> HIDE DEF Goes
  <2> QED
    BY <1>1, <1>2, <1>8, <2>1
<1>9. CASE ClosePipe(m)
  <2>1. /\ pc[m] = "close" /\ up
        /\ pc' = [pc EXCEPT ![m] = IF step[m] < 4 THEN pc[m] ELSE "remove"]
        /\ step' = [step EXCEPT ![m] = IF step[m] < 4 THEN step[m] + 1 ELSE 1]
    BY <1>1, <1>9 DEF ClosePipe, NextCall, At
  <2>2. step[m] \in 1 .. 4 /\ (step[m] < 4 => step[m] + 1 \in 1 .. 4)
    BY <1>1
  <2>3. \/ step[m] < 4 /\ step'[m] = step[m] + 1 /\ pc'[m] = "close"
        \/ step[m] = 4 /\ step'[m] = 1 /\ pc'[m] = "remove"
    BY <1>1, <2>1, <2>2
  <2>4. pc'[m] \in Labels /\ step'[m] \in 1 .. 4
    BY <1>1, <2>2, <2>3
  <2>5. pc' \in [Processes -> Labels] /\ step' \in [Processes -> 1 .. Len(CloseOrder)]
        /\ \A p \in Processes \ {m} : pc'[p] = pc[p] /\ step'[p] = step[p]
    BY <1>1, <2>1, <2>4
  <2> QED
    BY <1>9, <2>1, <2>3, <2>5
<1>10. CASE UnlinkPipes(m)
  <2>1. Goes("idle") /\ pc[m] = "remove" /\ up
    BY <1>10 DEF UnlinkPipes, Goto, At
  <2> HIDE DEF Goes
  <2> QED
    BY <1>1, <1>2, <1>10, <2>1
<1> QED
  BY <1>3, <1>4, <1>5, <1>6, <1>7, <1>8, <1>9, <1>10 DEF ManagerStep, Reads

LEMMA ManagerShares ==
  ASSUME SessionInv, NEW m \in Managers, ManagerStep(m)
  PROVE  /\ end' = end /\ arrived' = arrived /\ asked' = asked /\ deaths' = deaths
         /\ ~Take(m) /\ ~UnlinkPipes(m) => queue' = queue /\ session' = session
         /\ ~UnlinkPipes(m) => node' = node
         /\ ~OpenPipe(m) /\ ~UnlinkPipes(m) => fd' = fd
         /\ ~OpenPipe(m) /\ ~PipeOpened(m) /\ ~ClosePipe(m) => desc' = desc
         /\ ~OpenPipe(m) /\ ~Reads(m) => reading' = reading
         /\ ~OpenPipe(m) /\ ~PipeOpened(m) => met' = met
         /\ ~OpenPipe(m) => up' = up
<1>1. CASE Take(m) \/ UnlinkPipes(m)
  BY <1>1 DEF Take, UnlinkPipes, ends, rest, Queue!Take, Queue!End
<1>2. CASE OpenPipe(m) \/ PipeOpened(m)
  BY <1>2 DEF OpenPipe, PipeOpened, Opened, registration, rest
<1>3. CASE Hello(m) \/ Answer(m) \/ ClosePipe(m)
  BY <1>3 DEF Hello, Answer, ClosePipe, registration, ends, rest
<1>4. CASE Reads(m)
  BY <1>4 DEF Reads, CallRead, ReturnRead, registration, rest
<1> QED
  BY <1>1, <1>2, <1>3, <1>4 DEF ManagerStep, Reads

(* There is a number for each FIFO of each manager, and a manager does not *)
(* have one yet for the FIFO it is about to open: a number is free.        *)
LEMMA FreeNumber ==
  ASSUME SessionInv, NEW m \in Managers, NEW kind \in Kinds, fd[m][kind] = NoFd
  PROVE  \E d \in Fds : desc[d] = Free
<1> SUFFICES ASSUME \A d \in Fds : desc[d] # Free
             PROVE  FALSE
  OBVIOUS
<1> DEFINE Places == Managers \X Kinds
           here == <<m, kind>>
           f == [d \in Fds |-> <<desc[d].owner, desc[d].kind>>]
<1>1. \A d \in Fds : /\ desc[d].owner \in Managers /\ desc[d].kind \in Kinds
                     /\ fd[desc[d].owner][desc[d].kind] = d
  BY DEF SessionInv, TypeOK, DescriptorsOK, DescriptorOK
<1>2. f \in Injection(Fds, Places \ {here})
  <2>1. \A d \in Fds : f[d] \in Places \ {here}
    BY <1>1, Constants
  <2>2. \A d \in Fds, e \in Fds : f[d] = f[e] => d = e
    BY <1>1
  <2>3. f \in [Fds -> Places \ {here}]
    BY <2>1
  <2> HIDE DEF f
  <2> QED
    BY <2>2, <2>3 DEF Injection, IsInjective
<1>3. IsFiniteSet(Managers) /\ IsFiniteSet(Kinds) /\ Cardinality(Kinds) = 3
  <2>1. IsFiniteSet(Kinds) /\ Cardinality(Kinds) = 3
    <3> DEFINE A == {"resp"}
               B == A \cup {"req"}
               C == B \cup {"notif"}
    <3>1. IsFiniteSet(A) /\ Cardinality(A) = 1
      BY FS_Singleton
    <3>2. "req" \notin A /\ "notif" \notin B
      OBVIOUS
    <3> HIDE DEF A
    <3>3. IsFiniteSet(B) /\ Cardinality(B) = 2
      BY <3>1, <3>2, FS_AddElement
    <3> HIDE DEF B
    <3>4. IsFiniteSet(C) /\ Cardinality(C) = 3
      BY <3>2, <3>3, FS_AddElement
    <3>5. Kinds = C
      BY DEF A, B, Kinds
    <3> QED
      BY <3>4, <3>5
  <2> QED
    BY <2>1, SessionAssumption
<1>4. IsFiniteSet(Places) /\ Cardinality(Places) = Cardinality(Managers) * 3
  BY <1>3, FS_Product
<1>5. IsFiniteSet(Places \ {here}) /\ Cardinality(Places \ {here}) = Cardinality(Places) - 1
  <2>1. here \in Places
    OBVIOUS
  <2> HIDE DEF Places, here
  <2> QED
    BY <1>4, <2>1, FS_RemoveElement
<1>6. Cardinality(Fds) <= Cardinality(Places \ {here})
  <2> HIDE DEF f, Places, here
  <2> QED
    BY <1>2, <1>5, FS_Injection
<1>7. Cardinality(Fds) = 3 * Cardinality(Managers)
  <2>1. 3 * Cardinality(Managers) \in Int
    BY Constants
  <2>2. Cardinality(1 .. 3 * Cardinality(Managers)) = 3 * Cardinality(Managers)
    <3> DEFINE last == 3 * Cardinality(Managers)
    <3>1. last \in Nat
      BY Constants
    <3> HIDE DEF last
    <3>2. Cardinality(1 .. last) = last
      BY <3>1, FS_Interval
    <3> QED
      BY <3>2 DEF last
  <2> QED
    BY <2>2 DEF Fds
<1> HIDE DEF Places, here
<1> QED
  BY <1>4, <1>5, <1>6, <1>7, Constants

(* The FIFO that a manager opens is the one its client made, and the       *)
(* number it gets is free.                                                 *)
LEMMA OpenPipeEffect ==
  ASSUME SessionInv, NEW m \in Managers, OpenPipe(m), up'
  PROVE  \E kind \in Kinds, d \in Fds, c \in Clients :
           /\ kind = OpenOrder[step[m]] /\ Turn[kind] = step[m] /\ step[m] \in 1 .. 3
           /\ c = session[m] /\ fd[m][kind] = NoFd /\ desc[d] = Free
           /\ desc' = [desc EXCEPT ![d] = [owner |-> m, kind |-> kind, of |-> c, ready |-> FALSE]]
           /\ fd' = [fd EXCEPT ![m][kind] = d]
           /\ met' \subseteq met \cup {m, c} /\ met \subseteq met'
           /\ c \in met' => c \in met \/ (pc[c] = "opening" /\ step[m] <= step[c])
           /\ m \in met' => step[m] <= Called(c)
           /\ reading' = reading
<1> DEFINE kind  == OpenOrder[step[m]]
           c     == session[m]
           maker == node[PathId(m)][kind]
           there == ClientEnd(kind, maker)
           I     == {x \in Fds : desc[x] = Free}
           d     == Min(I)
<1>1. pc[m] = "open" /\ up /\ session[m] \in Clients /\ step[m] \in 1 .. 3 /\ m \notin Clients
  <2>1. pc[m] = "open" /\ up
    BY DEF OpenPipe, At
  <2>2. session[m] \in Clients
    BY <2>1 DEF SessionInv, TypeOK
  <2>3. step[m] \in 1 .. 4
    BY Orders DEF SessionInv, TypeOK
  <2> QED
    BY <2>1, <2>2, <2>3, Constants DEF SessionInv, ShapesOK
<1>2. kind \in Kinds /\ Turn[kind] = step[m]
  BY <1>1, Orders
<1>3. fd[m][kind] = NoFd
  <2>1. Called(m) = step[m] - 1
    BY <1>1 DEF Called
  <2>2. ~(Turn[kind] <= Called(m))
    BY <1>1, <1>2, <2>1
  <2> HIDE DEF kind
  <2> QED
    BY <1>2, <2>2 DEF SessionInv, FdsOK
<1>4. /\ maker # NoClient
      /\ desc' = [desc EXCEPT ![d] = [owner |-> m, kind |-> kind, of |-> maker, ready |-> FALSE]]
      /\ fd' = [fd EXCEPT ![m][kind] = d]
      /\ met' = met \cup {x \in there : pc[x] = "opening"} \cup (IF there # {} THEN {m} ELSE {})
      /\ reading' = reading
  BY DEF OpenPipe
<1>5. maker = c
  <2>1. c \in arrived /\ Around(c)
    BY <1>1, Constants DEF SessionInv, RegisteredOK, Around, Served
  <2>2. pc[c] \notin {"off", "mkfifo", "connect"}
    BY <1>1, <2>1 DEF SessionInv, RegisteredOK
  <2>3. pc[c] # "done"
    <3>1. SUFFICES ASSUME pc[c] = "done"
                   PROVE  FALSE
      OBVIOUS
    <3>2. Past(c, 3)
      BY <1>1, <3>1 DEF SessionInv, MeetingsOK, Called
    <3>3. Called(m) >= 3
      BY <3>2 DEF Past
    <3> QED
      BY <1>1, <3>3 DEF Called
  <2>4. PathId(m) = IdOf[c]
    BY <1>1 DEF PathId
  <2>5. node[IdOf[c]][kind] \in {c, NoClient}
    <3> HIDE DEF kind, c
    <3> QED
      BY <1>1, <1>2, <2>1, <2>2, <2>3 DEF SessionInv, PathsOK, c
  <2> QED
    BY <1>4, <2>4, <2>5
<1>6. d \in Fds /\ desc[d] = Free
  <2>1. \E x \in Fds : desc[x] = Free
    <3> HIDE DEF kind
    <3> QED
      BY <1>2, <1>3, FreeNumber
  <2>2. I \in SUBSET Nat /\ I # {}
    BY <2>1, Constants
  <2>3. d \in I
    <3> HIDE DEF I
    <3> QED
      BY <2>2, MinimumExists
  <2> QED
    BY <2>3
<1>7. \A x \in there : x = c /\ step[m] <= Called(c)
  <2> SUFFICES ASSUME NEW x \in Clients, end[x][kind] = c
               PROVE  x = c /\ step[m] <= Called(c)
    BY <1>5 DEF ClientEnd
  <2> HIDE DEF kind, c
  <2>1. c \in Clients /\ c # NoClient
    BY <1>1, Constants DEF c
  <2>2. Turn[kind] <= Called(x) /\ x = c
    BY <1>2, <2>1 DEF SessionInv, EndsOK
  <2> QED
    BY <1>2, <2>2
<1>8. /\ met' \subseteq met \cup {m, c} /\ met \subseteq met'
      /\ c \in met' => c \in met \/ (pc[c] = "opening" /\ step[m] <= step[c])
      /\ m \in met' => step[m] <= Called(c)
  <2>1. c \in there /\ pc[c] = "opening" => step[m] <= step[c]
    BY <1>7 DEF Called
  <2>2. m \notin met
    BY <1>1 DEF SessionInv, TypeOK
  <2> HIDE DEF there, c
  <2>3. there # {} => step[m] <= Called(c)
    BY <1>7
  <2>4. m \in met' => there # {}
    BY <1>1, <1>4, <2>2 DEF there, ClientEnd
  <2> QED
    BY <1>1, <1>4, <1>7, <2>1, <2>3, <2>4 DEF c
<1> HIDE DEF kind, d, maker, there, I
<1> QED
  BY <1>1, <1>2, <1>3, <1>4, <1>5, <1>6, <1>8 DEF kind

LEMMA ServerExits ==
  ASSUME SessionInv, NEW m \in Managers, OpenPipe(m), ~up'
  PROVE  /\ UNCHANGED <<registration, node, pc, step, end, fd, met, data, calls, clobbered>>
         /\ desc' = [x \in Fds |-> Free]
         /\ reading' = [n \in Managers |-> NoClient]
         /\ node[PathId(m)][OpenOrder[step[m]]] = NoClient
<1>1. up
  BY DEF OpenPipe, At
<1> QED
  BY <1>1 DEF OpenPipe, control

LEMMA ManagerCalled ==
  ASSUME SessionInv, NEW m \in Managers, ManagerStep(m)
  PROVE  /\ \A p \in Processes \ {m} : Called(p)' = Called(p)
         /\ ~OpenPipe(m) /\ ~UnlinkPipes(m) => Called(m)' = Called(m)
         /\ OpenPipe(m) /\ up' => Called(m)' = step[m] /\ Called(m) = step[m] - 1
         /\ OpenPipe(m) /\ ~up' => Called(m)' = Called(m)
         /\ UnlinkPipes(m) => Called(m)' = 0 /\ Called(m) = 3
<1>1. /\ \A p \in Processes \ {m} : pc'[p] = pc[p] /\ step'[p] = step[p]
      /\ pc[m] \in {"idle", "open", "opening"} => step[m] \in 1 .. 4
      /\ pc[m] \in {"idle"} => step[m] = 1
      /\ pc[m] = "hello" => step[m] = 2
  <2>1. step[m] \in 1 .. 4 /\ m \in Processes
    BY Constants, Orders DEF SessionInv, TypeOK
  <2>2. ShapesOK
    BY DEF SessionInv
  <2> QED
    BY <2>1, <2>2, ManagerControl DEF ShapesOK
<1>2. \A p \in Processes \ {m} : Called(p)' = Called(p)
  BY <1>1 DEF Called
<1>3. OpenPipe(m) => pc[m] = "open" /\ ~UnlinkPipes(m)
  BY DEF OpenPipe, UnlinkPipes, At
<1>4. UnlinkPipes(m) => pc[m] = "remove" /\ ~OpenPipe(m)
  BY DEF OpenPipe, UnlinkPipes, At
<1>5. CASE OpenPipe(m)
  <2>1. /\ step'[m] = step[m] /\ pc[m] = "open" /\ pc'[m] \in {"open", "opening"}
        /\ pc'[m] = "opening" <=> up'
    BY <1>3, <1>5, ManagerControl
  <2> QED
    BY <1>1, <1>2, <1>3, <1>5, <2>1 DEF Called
<1>6. CASE UnlinkPipes(m)
  <2>1. pc[m] = "remove" /\ pc'[m] = "idle"
    BY <1>4, <1>6, ManagerControl
  <2> QED
    BY <1>2, <1>4, <1>6, <2>1 DEF Called
<1>7. CASE ~OpenPipe(m) /\ ~UnlinkPipes(m)
  <2>1. \/ pc[m] = "idle" /\ pc'[m] = "open" /\ step'[m] = step[m]
        \/ /\ pc[m] = "opening"
           /\ \/ step[m] = 1 /\ pc'[m] = "hello" /\ step'[m] = 2
              \/ step[m] = 2 /\ pc'[m] = "open" /\ step'[m] = 3
              \/ step[m] = 3 /\ pc'[m] = "ready" /\ step'[m] = 1
        \/ pc[m] = "hello" /\ pc'[m] = "open" /\ step'[m] = step[m]
        \/ pc[m] \in {"ready", "key", "exec", "close"}
           /\ pc'[m] \in {"ready", "key", "exec", "close", "remove"}
    BY <1>7, ManagerControl
  <2>2. Called(m)' = Called(m)
    BY <1>1, <2>1 DEF Called
  <2> QED
    BY <1>2, <1>7, <2>2
<1> QED
  BY <1>5, <1>6, <1>7

LEMMA ManagerRegisters ==
  ASSUME SessionInv, NEW m \in Managers, ManagerStep(m)
  PROVE  /\ arrived' = arrived /\ queue' \in Seq(arrived') /\ RegisteredOK'
         /\ session' \in [Managers -> Clients \cup {NoClient}]
         /\ \A n \in Managers : session'[n] = NoClient <=> pc'[n] = "idle"
         /\ \A x \in Clients : /\ Queued(x)' => Queued(x)
                               /\ Queued(x)' \/ Served(x)' => Queued(x) \/ Served(x)
                               /\ Queued(x) => Queued(x)' \/ session'[m] = x
         /\ \A n \in Managers : \A x \in Clients :
              session'[n] = x /\ session[n] # x => Take(m) /\ n = m /\ Queued(x)
<1>1. /\ queue \in Seq(arrived) /\ session \in [Managers -> Clients \cup {NoClient}]
      /\ arrived \subseteq Clients /\ arrived' = arrived /\ m \notin Clients
      /\ \A n \in Managers : session[n] = NoClient <=> pc[n] = "idle"
      /\ NoClient \notin Clients
  BY ManagerShares, Constants DEF SessionInv, TypeOK
<1>2. RegisteredOK
  BY DEF SessionInv
<1>3. /\ \A x \in Clients : pc'[x] = pc[x]
      /\ \A n \in Managers \ {m} : pc'[n] = pc[n]
  BY ManagerControl, Constants
<1>4. CASE Take(m)
  <2> DEFINE c == Head(queue)
             n == Len(queue)
  <2>1. /\ session' = [session EXCEPT ![m] = c] /\ queue # << >> /\ queue' = Tail(queue)
        /\ session[m] = NoClient
    BY <1>4 DEF Take, Queue!Take
  <2>2. /\ n \in Nat /\ n >= 1 /\ c = queue[1] /\ c \in Clients /\ c \in arrived
        /\ Len(queue') = n - 1 /\ \A i \in 1 .. n - 1 : queue'[i] = queue[i + 1]
        /\ queue' \in Seq(arrived)
    BY <1>1, <2>1
  <2>3. Queued(c)
    BY <2>2 DEF Queued
  <2>4. ~\E i \in 1 .. Len(queue') : queue'[i] = c
    <3> SUFFICES ASSUME NEW i \in 1 .. n - 1, queue'[i] = c
                 PROVE  FALSE
      BY <2>2
    <3>1. i + 1 \in 1 .. n /\ 1 \in 1 .. n /\ i + 1 # 1 /\ queue[i + 1] = queue[1]
      BY <2>2
    <3> QED
      BY <1>2, <3>1 DEF RegisteredOK
  <2>5. \A x \in Clients : Queued(x)' => Queued(x) /\ x # c
    <3> SUFFICES ASSUME NEW x \in Clients, NEW i \in 1 .. n - 1, queue'[i] = x
                 PROVE  Queued(x) /\ x # c
      BY <2>2 DEF Queued
    <3>1. i + 1 \in 1 .. n /\ queue[i + 1] = x
      BY <2>2
    <3> QED
      BY <2>2, <2>4, <3>1 DEF Queued
  <2>6. \A i \in 1 .. Len(queue'), j \in 1 .. Len(queue') : queue'[i] = queue'[j] => i = j
    <3> SUFFICES ASSUME NEW i \in 1 .. n - 1, NEW j \in 1 .. n - 1, queue'[i] = queue'[j]
                 PROVE  i = j
      BY <2>2
    <3>1. i + 1 \in 1 .. n /\ j + 1 \in 1 .. n /\ queue[i + 1] = queue[j + 1]
      BY <2>2
    <3>2. i + 1 = j + 1
      BY <1>2, <3>1 DEF RegisteredOK
    <3> QED
      BY <3>2
  <2>7. \A x \in Managers : session[x] # c
    BY <1>1, <1>2, <2>2, <2>3 DEF RegisteredOK
  <2> HIDE DEF c, n
  <2>8. /\ session'[m] = c /\ \A x \in Managers \ {m} : session'[x] = session[x]
        /\ session' \in [Managers -> Clients \cup {NoClient}]
    BY <1>1, <2>1, <2>2
  <2>9. RegisteredOK'
    <3>1. \A x \in Managers : session'[x] # NoClient =>
            /\ session'[x] \in arrived' /\ ~\E i \in 1 .. Len(queue') : queue'[i] = session'[x]
            /\ \A y \in Managers : session'[y] = session'[x] => y = x
      <4> SUFFICES ASSUME NEW x \in Managers, session'[x] # NoClient
                   PROVE  /\ session'[x] \in arrived' /\ ~\E i \in 1 .. Len(queue') : queue'[i] = session'[x]
                          /\ \A y \in Managers : session'[y] = session'[x] => y = x
        OBVIOUS
      <4>1. CASE x = m
        BY <1>1, <2>2, <2>4, <2>7, <2>8, <4>1
      <4>2. CASE x # m
        <5>1. session[x] \in Clients /\ session'[x] = session[x] /\ session[x] \in arrived
              /\ ~Queued(session[x]) /\ \A y \in Managers : session[y] = session[x] => y = x
          BY <1>1, <1>2, <2>8, <4>2 DEF RegisteredOK
        <5>2. PICK z \in Clients : z = session[x]
          BY <5>1
        <5>3. ~\E i \in 1 .. Len(queue') : queue'[i] = z
          BY <2>5, <5>1, <5>2 DEF Queued
        <5> QED
          BY <1>1, <2>7, <2>8, <4>2, <5>1, <5>2, <5>3
      <4> QED
        BY <4>1, <4>2
    <3>2. \A x \in Clients : pc'[x] \in {"off", "mkfifo", "connect"} => x \notin arrived'
      BY <1>1, <1>2, <1>3 DEF RegisteredOK
    <3> QED
      BY <2>6, <3>1, <3>2 DEF RegisteredOK, Queued
  <2>10. \A x \in Clients : Queued(x)' \/ Served(x)' => Queued(x) \/ Served(x)
    BY <2>3, <2>5, <2>8 DEF Served
  <2>13. \A x \in Clients : Queued(x) => Queued(x)' \/ session'[m] = x
    <3> SUFFICES ASSUME NEW x \in Clients, NEW i \in 1 .. n, queue[i] = x, x # c
                 PROVE  Queued(x)'
      BY <2>8 DEF Queued, n
    <3>1. i # 1 /\ i - 1 \in 1 .. n - 1
      BY <2>2
    <3>2. queue'[i - 1] = queue[(i - 1) + 1] /\ (i - 1) + 1 = i
      BY <2>2, <3>1
    <3> QED
      BY <2>2, <3>1, <3>2 DEF Queued
  <2>11. pc'[m] = "open"
    BY <1>4, ManagerControl DEF Take, OpenPipe, PipeOpened, Hello, Reads, CallRead, ReturnRead,
       Answer, ClosePipe, UnlinkPipes, At
  <2>12. \A x \in Managers : session'[x] = NoClient <=> pc'[x] = "idle"
    BY <1>1, <1>3, <2>2, <2>8, <2>11
  <2> QED
    BY <1>1, <1>4, <2>2, <2>3, <2>5, <2>8, <2>9, <2>10, <2>12, <2>13
<1>5. CASE UnlinkPipes(m)
  <2>1. /\ session' = [session EXCEPT ![m] = NoClient] /\ queue' = queue /\ pc[m] = "remove"
    BY <1>5 DEF UnlinkPipes, Queue!End, At
  <2>2. pc'[m] = "idle"
    BY <1>5, <2>1, ManagerControl
  <2>3. /\ session'[m] = NoClient /\ \A x \in Managers \ {m} : session'[x] = session[x]
        /\ session' \in [Managers -> Clients \cup {NoClient}]
    BY <1>1, <2>1
  <2>4. \A x \in Clients : Queued(x)' <=> Queued(x)
    BY <2>1 DEF Queued
  <2>5. \A x \in Clients : Served(x)' => Served(x)
    BY <1>1, <2>3 DEF Served
  <2>6. RegisteredOK'
    <3>1. \A x \in Managers : session'[x] # NoClient =>
            /\ session'[x] \in arrived' /\ ~\E i \in 1 .. Len(queue') : queue'[i] = session'[x]
            /\ \A y \in Managers : session'[y] = session'[x] => y = x
      BY <1>1, <1>2, <2>1, <2>3 DEF RegisteredOK, Queued
    <3>2. \A x \in Clients : pc'[x] \in {"off", "mkfifo", "connect"} => x \notin arrived'
      BY <1>1, <1>2, <1>3 DEF RegisteredOK
    <3> QED
      BY <1>2, <2>1, <3>1, <3>2 DEF RegisteredOK, Queued
  <2>7. \A x \in Managers : session'[x] = NoClient <=> pc'[x] = "idle"
    BY <1>1, <1>3, <2>2, <2>3
  <2>8. \A n \in Managers : \A x \in Clients : ~(session'[n] = x /\ session[n] # x)
    BY <1>1, <2>3
  <2> QED
    BY <1>1, <2>1, <2>3, <2>4, <2>5, <2>6, <2>7, <2>8
<1>6. CASE ~Take(m) /\ ~UnlinkPipes(m)
  <2>1. queue' = queue /\ session' = session
    BY <1>6, ManagerShares
  <2>2. pc'[m] = "idle" <=> pc[m] = "idle"
    BY <1>6, ManagerControl
  <2>3. RegisteredOK'
    BY <1>1, <1>2, <1>3, <2>1 DEF RegisteredOK, Queued
  <2>4. \A x \in Clients : (Queued(x)' <=> Queued(x)) /\ (Served(x)' <=> Served(x))
    BY <2>1 DEF Queued, Served
  <2> QED
    BY <1>1, <1>3, <2>1, <2>2, <2>3, <2>4
<1> QED
  BY <1>4, <1>5, <1>6

LEMMA ManagerFds ==
  ASSUME SessionInv, NEW m \in Managers, ManagerStep(m)
  PROVE  FdsOK' /\ fd' \in [Managers -> [Kinds -> Fds \cup {NoFd}]]
<1>1. /\ fd \in [Managers -> [Kinds -> Fds \cup {NoFd}]]
      /\ \A n \in Managers, k \in Kinds : fd[n][k] # NoFd <=> Turn[k] <= Called(n)
      /\ \A k \in Kinds : Turn[k] \in 1 .. 3
      /\ \A n \in Managers \ {m} : Called(n)' = Called(n)
      /\ NoFd \notin Fds
  BY Constants, ManagerCalled, Orders DEF SessionInv, TypeOK, FdsOK
<1>2. CASE OpenPipe(m) /\ up'
  <2>1. PICK kind \in Kinds, d \in Fds : Turn[kind] = step[m] /\ fd' = [fd EXCEPT ![m][kind] = d]
    BY <1>2, OpenPipeEffect
  <2>2. /\ Called(m)' = step[m] /\ Called(m) = step[m] - 1
        /\ fd'[m][kind] = d /\ \A k \in Kinds \ {kind} : fd'[m][k] = fd[m][k]
        /\ \A n \in Managers \ {m} : fd'[n] = fd[n]
        /\ fd' \in [Managers -> [Kinds -> Fds \cup {NoFd}]]
    BY <1>1, <1>2, <2>1, ManagerCalled
  <2>3. \A k \in Kinds \ {kind} : Turn[k] # Turn[kind]
    <3>1. \A k \in Kinds : OpenOrder[Turn[k]] = k
      BY Orders
    <3> QED
      BY <3>1
  <2>4. \A k \in Kinds \ {kind} : Turn[k] <= step[m] <=> Turn[k] <= step[m] - 1
    BY <1>1, <2>1, <2>3
  <2>5. \A k \in Kinds : fd'[m][k] # NoFd <=> Turn[k] <= Called(m)'
    BY <1>1, <2>1, <2>2, <2>4
  <2> QED
    BY <1>1, <2>2, <2>5 DEF FdsOK
<1>3. CASE UnlinkPipes(m)
  <2>1. fd' = [fd EXCEPT ![m] = [k \in Kinds |-> NoFd]] /\ Called(m)' = 0
    BY <1>3, ManagerCalled DEF UnlinkPipes
  <2>2. /\ \A k \in Kinds : fd'[m][k] = NoFd
        /\ \A n \in Managers \ {m} : fd'[n] = fd[n]
        /\ fd' \in [Managers -> [Kinds -> Fds \cup {NoFd}]]
    BY <1>1, <2>1
  <2> QED
    BY <1>1, <2>1, <2>2 DEF FdsOK
<1>4. CASE (OpenPipe(m) /\ ~up') \/ (~OpenPipe(m) /\ ~UnlinkPipes(m))
  <2>1. fd' = fd
    BY <1>4, ManagerShares, ServerExits
  <2>2. Called(m)' = Called(m)
    BY <1>4, ManagerCalled
  <2> QED
    BY <1>1, <2>1, <2>2 DEF FdsOK
<1> QED
  BY <1>2, <1>3, <1>4

LEMMA OthersKept ==
  ASSUME SessionInv, NEW m \in Managers, ManagerStep(m), NEW n \in Managers \ {m}
  PROVE  fd'[n] = fd[n] /\ session'[n] = session[n] /\ pc'[n] = pc[n] /\ step'[n] = step[n]
<1>1. fd \in [Managers -> [Kinds -> Fds \cup {NoFd}]] /\ session \in [Managers -> Clients \cup {NoClient}]
  BY DEF SessionInv, TypeOK
<1>2. fd'[n] = fd[n]
  <2>1. CASE OpenPipe(m) /\ up'
    <3>1. \E kind \in Kinds, e \in Fds : fd' = [fd EXCEPT ![m][kind] = e]
      BY <2>1, OpenPipeEffect
    <3> QED
      BY <1>1, <3>1
  <2>2. CASE UnlinkPipes(m)
    BY <1>1, <2>2 DEF UnlinkPipes
  <2>3. CASE (OpenPipe(m) /\ ~up') \/ (~OpenPipe(m) /\ ~UnlinkPipes(m))
    BY <2>3, ManagerShares, ServerExits
  <2> QED
    BY <2>1, <2>2, <2>3
<1>3. session'[n] = session[n]
  <2>1. CASE Take(m)
    BY <1>1, <2>1 DEF Take, Queue!Take
  <2>2. CASE UnlinkPipes(m)
    BY <1>1, <2>2 DEF UnlinkPipes, Queue!End
  <2>3. CASE ~Take(m) /\ ~UnlinkPipes(m)
    BY <2>3, ManagerShares
  <2> QED
    BY <2>1, <2>2, <2>3
<1> QED
  BY <1>2, <1>3, ManagerControl, Constants

(* The state of a descriptor is right if neither it nor its owner moves.   *)
LEMMA DescriptorKept ==
  ASSUME SessionInv, NEW m \in Managers, ManagerStep(m), NEW d \in Fds, desc[d] # Free,
         desc'[d] = desc[d], desc[d].owner # m
  PROVE  DescriptorOK(d)'
<1>1. desc[d].owner \in Managers /\ desc[d].kind \in Kinds /\ DescriptorOK(d)
  BY DEF SessionInv, TypeOK, DescriptorsOK
<1>2. \A n \in Managers \ {m} :
        fd'[n] = fd[n] /\ session'[n] = session[n] /\ pc'[n] = pc[n] /\ step'[n] = step[n]
  BY OthersKept
<1> QED
  BY <1>1, <1>2 DEF DescriptorOK

LEMMA OpeningNumber ==
  ASSUME SessionInv, NEW n \in Managers, pc[n] = "opening"
  PROVE  /\ step[n] \in 1 .. 3 /\ OpenOrder[step[n]] \in Kinds
         /\ Turn[OpenOrder[step[n]]] = step[n] /\ fd[n][OpenOrder[step[n]]] \in Fds
<1>1. step[n] \in 1 .. 3
  <2>1. step[n] \in 1 .. 4 /\ n \in Processes
    BY Orders, Constants DEF SessionInv, TypeOK
  <2> QED
    BY <2>1 DEF SessionInv, ShapesOK
<1>2. OpenOrder[step[n]] \in Kinds /\ Turn[OpenOrder[step[n]]] = step[n]
  BY <1>1, Orders
<1>3. Called(n) = step[n]
  BY DEF Called
<1>4. fd[n][OpenOrder[step[n]]] # NoFd
  BY <1>1, <1>2, <1>3 DEF SessionInv, FdsOK
<1>5. fd \in [Managers -> [Kinds -> Fds \cup {NoFd}]]
  BY DEF SessionInv, TypeOK
<1> QED
  BY <1>1, <1>2, <1>4, <1>5

(* What a step does to the descriptors.                                    *)
LEMMA ManagerDesc ==
  ASSUME SessionInv, NEW m \in Managers, ManagerStep(m)
  PROVE  /\ DescriptorsOK' /\ DOMAIN desc' = Fds
         /\ \A d \in Fds : desc'[d] \in
              {Free} \cup [owner : Managers, kind : Kinds, of : Clients, ready : BOOLEAN]
<1> DEFINE Rec == [owner : Managers, kind : Kinds, of : Clients, ready : BOOLEAN]
<1>1. /\ \A d \in Fds : desc[d] \in {Free} \cup Rec /\ (desc[d] # Free => DescriptorOK(d))
      /\ \A n \in Managers : pc[n] = "opening" => WaitsInOpen(n)
      /\ DOMAIN desc = Fds /\ up /\ step \in [Processes -> 1 .. 4]
      /\ fd \in [Managers -> [Kinds -> Fds \cup {NoFd}]]
      /\ session[m] = NoClient <=> pc[m] = "idle"
      /\ \A n \in Managers : pc[n] = "opening" => step[n] \in 1 .. 3
      /\ \A n \in Managers : n \in Processes
  <2>1. /\ \A d \in Fds : desc[d] \in {Free} \cup Rec
        /\ step \in [Processes -> 1 .. 4]
        /\ fd \in [Managers -> [Kinds -> Fds \cup {NoFd}]]
        /\ session[m] = NoClient <=> pc[m] = "idle"
    BY Orders, Constants DEF SessionInv, TypeOK
  <2>2. up
    BY ManagerControl
  <2> QED
    BY <2>1, <2>2, Constants DEF SessionInv, DescriptorsOK, ShapesOK
<1>2. \A n \in Managers \ {m} : pc'[n] = pc[n] /\ step'[n] = step[n]
  BY OthersKept
<1>3. \A n \in Managers \ {m} : fd'[n] = fd[n] /\ session'[n] = session[n]
  BY OthersKept
<1>4. CASE OpenPipe(m) /\ ~up'
  <2>1. desc' = [d \in Fds |-> Free]
    BY <1>4, ServerExits
  <2> QED
    BY <1>4, <2>1 DEF DescriptorsOK
<1>5. CASE OpenPipe(m) /\ up'
  <2>1. PICK kind \in Kinds, d \in Fds, c \in Clients :
           /\ kind = OpenOrder[step[m]] /\ Turn[kind] = step[m] /\ step[m] \in 1 .. 3
           /\ c = session[m] /\ fd[m][kind] = NoFd /\ desc[d] = Free
           /\ desc' = [desc EXCEPT ![d] = [owner |-> m, kind |-> kind, of |-> c, ready |-> FALSE]]
           /\ fd' = [fd EXCEPT ![m][kind] = d]
    BY <1>5, OpenPipeEffect
  <2>2. /\ pc[m] = "open" /\ pc'[m] = "opening" /\ step'[m] = step[m] /\ session' = session
    BY <1>5, ManagerControl DEF OpenPipe, At, registration, Take, PipeOpened, Hello, Reads, CallRead,
       ReturnRead, Answer, ClosePipe, UnlinkPipes
  <2>3. /\ desc'[d] = [owner |-> m, kind |-> kind, of |-> c, ready |-> FALSE]
        /\ \A e \in Fds \ {d} : desc'[e] = desc[e]
        /\ DOMAIN desc' = Fds
        /\ fd'[m][kind] = d /\ \A k \in Kinds \ {kind} : fd'[m][k] = fd[m][k]
    BY <1>1, <2>1
  <2>4. DescriptorOK(d)'
    <3>1. c # NoClient
      BY Constants
    <3> QED
      BY <2>1, <2>2, <2>3, <3>1 DEF DescriptorOK
  <2>5. ASSUME NEW e \in Fds \ {d}, desc'[e] # Free
        PROVE  DescriptorOK(e)'
    <3>1. desc[e] # Free /\ desc'[e] = desc[e] /\ DescriptorOK(e) /\ desc[e] \in Rec
      BY <1>1, <2>3, <2>5
    <3>2. CASE desc[e].owner = m
      <4>1. desc[e].kind \in Kinds \ {kind}
        BY <2>1, <3>1, <3>2, Constants DEF DescriptorOK
      <4>2. Turn[desc[e].kind] # step[m]
        <5>1. \A k \in Kinds : OpenOrder[Turn[k]] = k
          BY Orders
        <5> QED
          BY <2>1, <4>1, <5>1
      <4> QED
        BY <2>2, <2>3, <3>1, <3>2, <4>1, <4>2 DEF DescriptorOK
    <3>3. CASE desc[e].owner # m
      BY <3>1, <3>3, DescriptorKept
    <3> QED
      BY <3>2, <3>3
  <2>6. ASSUME NEW n \in Managers, pc'[n] = "opening"
        PROVE  WaitsInOpen(n)'
    <3>1. CASE n = m
      BY <2>1, <2>2, <2>3, <3>1 DEF WaitsInOpen
    <3>2. CASE n # m
      <4> DEFINE e == fd[n][OpenOrder[step[n]]]
      <4>1. pc[n] = "opening" /\ WaitsInOpen(n) /\ OpenOrder[step[n]] \in Kinds /\ e \in Fds
        BY <1>1, <1>2, <2>6, <3>2, OpeningNumber
      <4>2. desc[e] # Free
        BY <4>1 DEF WaitsInOpen, Free, Kinds
      <4>3. desc'[e] = desc[e]
        BY <2>1, <2>3, <4>1, <4>2
      <4> QED
        BY <1>1, <1>2, <1>3, <2>2, <2>6, <3>2, <4>3 DEF WaitsInOpen
    <3> QED
      BY <3>1, <3>2
  <2>7. \A e \in Fds : desc'[e] \in {Free} \cup Rec
    <3>1. desc'[d] \in Rec
      BY <2>3
    <3> HIDE DEF Rec
    <3> QED
      BY <1>1, <2>3, <3>1
  <2> QED
    BY <2>3, <2>4, <2>5, <2>6, <2>7 DEF DescriptorsOK
<1>6. CASE PipeOpened(m)
  <2>0. pc[m] = "opening"
    BY <1>6 DEF PipeOpened, Opened
  <2> PICK kind \in Kinds, d \in Fds :
             kind = OpenOrder[step[m]] /\ Turn[kind] = step[m] /\ d = fd[m][kind]
    BY <2>0, OpeningNumber
  <2>1. /\ pc[m] = "opening" /\ pc'[m] \in {"hello", "open", "ready"} /\ WaitsInOpen(m)
        /\ step[m] \in 1 .. 3 /\ kind \in Kinds /\ Turn[kind] = step[m]
        /\ fd' = fd /\ session' = session
    <3>1. pc[m] = "opening" /\ fd' = fd /\ session' = session
      BY <1>6, <2>0 DEF PipeOpened, registration
    <3>2. pc'[m] \in {"hello", "open", "ready"}
      BY <1>6, <3>1, ManagerControl
    <3> QED
      BY <1>1, <3>1, <3>2, Orders
  <2>2. desc[d] = [owner |-> m, kind |-> kind, of |-> session[m], ready |-> FALSE]
    BY <2>1 DEF WaitsInOpen
  <2>3. desc' = [desc EXCEPT ![d].ready = TRUE]
    BY <1>6 DEF PipeOpened
  <2>5. /\ desc'[d] \in Rec
        /\ desc'[d].owner = m /\ desc'[d].kind = kind /\ desc'[d].of = session[m]
        /\ desc'[d].ready = TRUE
        /\ \A e \in Fds \ {d} : desc'[e] = desc[e]
        /\ DOMAIN desc' = Fds
    <3> DEFINE new == [desc[d] EXCEPT !.ready = TRUE]
    <3>1. desc[d] \in Rec
      <4>1. session[m] \in Clients
        BY <2>1 DEF SessionInv, TypeOK
      <4> QED
        BY <2>2, <4>1
    <3>2. /\ new \in Rec /\ new.ready = TRUE
          /\ new.owner = m /\ new.kind = kind /\ new.of = session[m]
      <4>1. /\ new \in Rec /\ (new.ready = TRUE)
            /\ new.owner = desc[d].owner /\ new.kind = desc[d].kind /\ new.of = desc[d].of
        BY <3>1
      <4>2. desc[d].owner = m /\ desc[d].kind = kind /\ desc[d].of = session[m]
        BY <2>2
      <4> HIDE DEF new
      <4> QED
        BY <4>1, <4>2
    <3>3. desc' = [desc EXCEPT ![d] = new]
      BY <2>3
    <3> HIDE DEF new, Rec
    <3>4. desc'[d] = new /\ (\A e \in Fds \ {d} : desc'[e] = desc[e]) /\ DOMAIN desc' = Fds
      BY <1>1, <3>3
    <3> QED
      BY <3>2, <3>4
  <2>6. session[m] \in Clients /\ session[m] # NoClient
    BY <2>1, Constants DEF SessionInv, TypeOK
  <2>7. DescriptorOK(d)'
    BY <2>1, <2>5, <2>6 DEF DescriptorOK
  <2>8. ASSUME NEW e \in Fds \ {d}, desc'[e] # Free
        PROVE  DescriptorOK(e)'
    <3>1. desc[e] # Free /\ desc'[e] = desc[e] /\ DescriptorOK(e) /\ desc[e] \in Rec
      BY <1>1, <2>5, <2>8
    <3>2. CASE desc[e].owner = m
      <4>1. desc[e].kind \in Kinds /\ desc[e].kind # kind
        BY <3>1, <3>2 DEF DescriptorOK
      <4>2. Turn[desc[e].kind] # step[m]
        <5>1. \A k \in Kinds : OpenOrder[Turn[k]] = k
          BY Orders
        <5> QED
          BY <2>1, <4>1, <5>1
      <4> QED
        BY <2>1, <3>1, <3>2, <4>1, <4>2 DEF DescriptorOK
    <3>3. CASE desc[e].owner # m
      BY <3>1, <3>3, DescriptorKept
    <3> QED
      BY <3>2, <3>3
  <2>9. ASSUME NEW n \in Managers, pc'[n] = "opening"
        PROVE  WaitsInOpen(n)'
    <3>1. n # m /\ pc[n] = "opening" /\ step'[n] = step[n] /\ WaitsInOpen(n)
      BY <1>1, <1>2, <2>1, <2>9
    <3> DEFINE e == fd[n][OpenOrder[step[n]]]
    <3>2. desc[e].owner = n /\ e # d
      BY <2>2, <3>1 DEF WaitsInOpen
    <3>3. desc'[e] = desc[e]
      BY <2>3, <3>2
    <3> QED
      BY <2>1, <3>1, <3>3 DEF WaitsInOpen
  <2>10. \A e \in Fds : desc'[e] \in {Free} \cup Rec
    <3> HIDE DEF Rec
    <3> QED
      BY <1>1, <2>5
  <2> QED
    BY <2>5, <2>7, <2>8, <2>9, <2>10 DEF DescriptorsOK
<1>7. CASE ClosePipe(m)
  <2> DEFINE kind == CloseOrder[step[m]]
             d    == fd[m][kind]
  <2>1. /\ pc[m] = "close" /\ step[m] \in 1 .. 4 /\ kind \in Kinds
        /\ \/ step[m] < 4 /\ step'[m] = step[m] + 1 /\ pc'[m] = "close"
           \/ step[m] = 4 /\ step'[m] = 1 /\ pc'[m] = "remove"
        /\ fd' = fd /\ session' = session
    <3>1. pc[m] = "close" /\ fd' = fd /\ session' = session
      BY <1>7 DEF ClosePipe, At, registration
    <3>2. step[m] \in 1 .. 4
      BY <1>1
    <3>3. \/ step[m] < 4 /\ step'[m] = step[m] + 1 /\ pc'[m] = "close"
          \/ step[m] = 4 /\ step'[m] = 1 /\ pc'[m] = "remove"
      BY <3>1, ManagerControl
    <3> QED
      BY <3>1, <3>2, <3>3, Orders
  <2>2. d \in Fds
    BY <2>1 DEF SessionInv, TypeOK
  <2>3. /\ desc[d].ready => desc' = [desc EXCEPT ![d] = Free]
        /\ ~desc[d].ready => desc' = desc
    BY <1>7 DEF ClosePipe
  <2> HIDE DEF d, kind
  <2>4. /\ \A e \in Fds \ {d} : desc'[e] = desc[e]
        /\ desc'[d] = IF desc[d].ready THEN Free ELSE desc[d]
        /\ DOMAIN desc' = Fds
    BY <1>1, <2>2, <2>3
  <2>5. ASSUME NEW e \in Fds, desc'[e] # Free
        PROVE  DescriptorOK(e)'
    <3>1. /\ desc[e] # Free /\ desc'[e] = desc[e] /\ DescriptorOK(e) /\ desc[e] \in Rec
          /\ e = d => ~desc[d].ready
      BY <1>1, <2>4, <2>5
    <3>2. CASE desc[e].owner = m
      <4> DEFINE k == desc[e].kind
      <4>1. k \in Kinds /\ fd[m][k] = e /\ desc[e].ready /\ session[m] # NoClient
            /\ desc[e].of = session[m]
            /\ \A i \in 1 .. step[m] - 1 : CloseOrder[i] # k
        BY <2>1, <3>1, <3>2 DEF DescriptorOK
      <4>2. k # kind
        BY <3>1, <4>1 DEF d
      <4>3. \A i \in 1 .. step[m] : CloseOrder[i] # k
        <5>1. \A i \in 1 .. step[m] : i \in 1 .. step[m] - 1 \/ i = step[m]
          BY <2>1
        <5> QED
          BY <4>1, <4>2, <5>1 DEF kind
      <4>4. step[m] # 4
        BY <4>1, <4>3, Orders
      <4>5. pc'[m] = "close" /\ step'[m] - 1 = step[m]
        BY <2>1, <4>4
      <4> HIDE DEF k
      <4> QED
        BY <2>1, <3>1, <3>2, <4>1, <4>3, <4>5 DEF DescriptorOK, k
    <3>3. CASE desc[e].owner # m
      BY <3>1, <3>3, DescriptorKept
    <3> QED
      BY <3>2, <3>3
  <2>6. ASSUME NEW n \in Managers, pc'[n] = "opening"
        PROVE  WaitsInOpen(n)'
    <3>1. n # m /\ pc[n] = "opening" /\ step'[n] = step[n] /\ WaitsInOpen(n)
      BY <1>1, <1>2, <2>1, <2>6
    <3> DEFINE e == fd[n][OpenOrder[step[n]]]
    <3>2. ~desc[e].ready /\ e \in Fds
      BY <3>1, OpeningNumber DEF WaitsInOpen
    <3>3. desc'[e] = desc[e]
      BY <2>4, <3>2
    <3> QED
      BY <2>1, <3>1, <3>3 DEF WaitsInOpen
  <2>7. \A e \in Fds : desc'[e] \in {Free} \cup Rec
    <3> HIDE DEF Rec
    <3> QED
      BY <1>1, <2>2, <2>4
  <2> QED
    BY <2>4, <2>5, <2>6, <2>7 DEF DescriptorsOK
<1>8. CASE UnlinkPipes(m) \/ Take(m)
  <2>1. pc[m] \in {"remove", "idle"} /\ pc'[m] # "opening" /\ desc' = desc
    <3>1. pc[m] \in {"remove", "idle"} /\ desc' = desc
      BY <1>8 DEF UnlinkPipes, Take, At, ends
    <3> QED
      BY <3>1, ManagerControl
  <2>2. ASSUME NEW e \in Fds, desc'[e] # Free
        PROVE  DescriptorOK(e)'
    <3>1. desc[e] # Free /\ desc'[e] = desc[e] /\ DescriptorOK(e)
      BY <1>1, <2>1, <2>2
    <3>2. desc[e].owner # m
      BY <1>1, <2>1, <3>1 DEF DescriptorOK
    <3> QED
      BY <3>1, <3>2, DescriptorKept
  <2>3. ASSUME NEW n \in Managers, pc'[n] = "opening"
        PROVE  WaitsInOpen(n)'
    <3>1. n # m /\ pc[n] = "opening"
      BY <1>2, <2>1, <2>3
    <3> QED
      BY <1>1, <1>2, <1>3, <2>1, <3>1 DEF WaitsInOpen
  <2> QED
    BY <1>1, <2>1, <2>2, <2>3 DEF DescriptorsOK
<1>9. CASE Hello(m) \/ Reads(m) \/ Answer(m)
  <2>1. /\ pc[m] \in {"hello", "ready", "key", "exec"} /\ desc' = desc /\ fd' = fd /\ session' = session
        /\ pc'[m] \in {"open", "ready", "key", "exec", "close"}
        /\ pc'[m] = "close" => step'[m] = 1
    <3>1. /\ desc' = desc /\ fd' = fd /\ session' = session
          /\ pc[m] \in {"hello", "ready", "key", "exec"}
      <4>1. reading[m] # NoClient => pc[m] \in {"ready", "key"}
        BY DEF SessionInv, TypeOK
      <4> QED
        BY <1>9, <4>1 DEF Hello, Reads, CallRead, ReturnRead, Answer, At, registration, ends
    <3>2. /\ pc'[m] \in {"open", "ready", "key", "exec", "close"} /\ step'[m] = step[m]
          /\ pc'[m] = "close" => pc[m] = "exec"
      BY <3>1, ManagerControl
    <3>3. pc[m] = "exec" => step[m] = 1
      BY <1>1 DEF SessionInv, ShapesOK
    <3> QED
      BY <3>1, <3>2, <3>3
  <2>2. ASSUME NEW e \in Fds, desc'[e] # Free
        PROVE  DescriptorOK(e)'
    <3>1. desc[e] # Free /\ desc'[e] = desc[e] /\ DescriptorOK(e)
      BY <1>1, <2>1, <2>2
    <3>2. CASE desc[e].owner = m
      BY <2>1, <3>1, <3>2 DEF DescriptorOK
    <3>3. CASE desc[e].owner # m
      BY <3>1, <3>3, DescriptorKept
    <3> QED
      BY <3>2, <3>3
  <2>3. ASSUME NEW n \in Managers, pc'[n] = "opening"
        PROVE  WaitsInOpen(n)'
    <3>1. n # m /\ pc[n] = "opening"
      BY <1>2, <2>1, <2>3
    <3> QED
      BY <1>1, <1>2, <1>3, <2>1, <3>1 DEF WaitsInOpen
  <2> QED
    BY <1>1, <2>1, <2>2, <2>3 DEF DescriptorsOK
<1> QED
  BY <1>4, <1>5, <1>6, <1>7, <1>8, <1>9 DEF ManagerStep, Reads

LEMMA ManagerEndsIds ==
  ASSUME SessionInv, UNCHANGED IdOf, NEW m \in Managers, ManagerStep(m)
  PROVE  EndsOK' /\ IdsOK'
<1>1. /\ \A x \in Clients : pc'[x] = pc[x] /\ Called(x)' = Called(x)
      /\ end' = end
  BY ManagerControl, ManagerCalled, ManagerShares, Constants
<1>2. \A x \in Clients : Around(x)' => Around(x)
  BY <1>1, ManagerRegisters DEF Around
<1> QED
  BY <1>1, <1>2 DEF SessionInv, EndsOK, IdsOK

LEMMA ManagerPaths ==
  ASSUME SessionInv, UNCHANGED IdOf, NEW m \in Managers, ManagerStep(m)
  PROVE  PathsOK' /\ node' \in [Ids -> [Kinds -> Clients \cup {NoClient}]]
<1>1. /\ \A x \in Clients : pc'[x] = pc[x]
      /\ \A x \in Clients : Around(x)' => Around(x)
      /\ IdOf \in [Clients -> Ids] /\ node \in [Ids -> [Kinds -> Clients \cup {NoClient}]]
  <2>1. \A x \in Clients : pc'[x] = pc[x]
    BY ManagerControl, Constants
  <2>2. \A x \in Clients : Around(x)' => Around(x)
    BY <2>1, ManagerRegisters DEF Around
  <2> QED
    BY <2>1, <2>2 DEF SessionInv, TypeOK, ShapesOK
<1>2. \A x \in Clients : Handshaking(x)' => Handshaking(x)
  <2> SUFFICES ASSUME NEW x \in Clients, Handshaking(x)', ~Queued(x), pc[x] # "connect"
               PROVE  \E n \in Managers : session[n] = x /\ Called(n) < 3
    BY DEF Handshaking
  <2>1. PICK n \in Managers : session'[n] = x /\ Called(n)' < 3
    BY <1>1, ManagerRegisters DEF Handshaking
  <2>2. session[n] = x
    BY <2>1, ManagerRegisters
  <2>3. Called(n) < 3
    <3>1. CASE n # m
      BY <2>1, <3>1, ManagerCalled, Constants
    <3>2. CASE n = m
      <4>1. ~UnlinkPipes(m)
        <5>1. UnlinkPipes(m) => session'[m] = NoClient
          BY DEF UnlinkPipes, Queue!End, SessionInv, TypeOK
        <5> QED
          BY <2>1, <3>2, <5>1, Constants
      <4>2. CASE OpenPipe(m)
        <5>1. pc[m] = "open" /\ step[m] \in 1 .. 3
          <6>1. pc[m] = "open" /\ step[m] \in 1 .. 4 /\ m \in Processes
            BY <4>2, Orders, Constants DEF OpenPipe, At, SessionInv, TypeOK
          <6> QED
            BY <6>1 DEF SessionInv, ShapesOK
        <5> QED
          BY <3>2, <5>1 DEF Called
      <4>3. CASE ~OpenPipe(m)
        BY <2>1, <3>2, <4>1, <4>3, ManagerCalled
      <4> QED
        BY <4>2, <4>3
    <3> QED
      BY <3>1, <3>2
  <2> QED
    BY <2>2, <2>3
<1>3. CASE UnlinkPipes(m)
  <2> DEFINE none == [k \in Kinds |-> NoClient]
  <2>1. PICK c \in Clients : c = session[m] /\ PathId(m) = IdOf[c]
    <3>1. pc[m] = "remove"
      BY <1>3 DEF UnlinkPipes, At
    <3>2. session[m] \in Clients
      BY <3>1 DEF SessionInv, TypeOK
    <3> QED
      BY <3>2, Constants DEF PathId
  <2>2. node' = [node EXCEPT ![IdOf[c]] = none]
    BY <1>3, <2>1 DEF UnlinkPipes, Unlinked, NoPipes
  <2>3. none \in [Kinds -> Clients \cup {NoClient}] /\ \A k \in Kinds : none[k] = NoClient
    OBVIOUS
  <2> HIDE DEF none
  <2>4. /\ node' \in [Ids -> [Kinds -> Clients \cup {NoClient}]]
        /\ node'[IdOf[c]] = none /\ \A i \in Ids \ {IdOf[c]} : node'[i] = node[i]
    BY <1>1, <2>2, <2>3
  <2>5. Around(c)
    BY <2>1 DEF Around, Served
  <2>6. \A x \in Clients : IdOf[x] = IdOf[c] => ~(Careful /\ Handshaking(x)')
    <3> SUFFICES ASSUME NEW x \in Clients, IdOf[x] = IdOf[c], Careful, Handshaking(x)'
                 PROVE  FALSE
      OBVIOUS
    <3>1. Handshaking(x)
      BY <1>2
    <3>2. CASE x # c
      <4>1. Around(x)
        BY <3>1 DEF Handshaking, Around, Served, Ended
      <4> QED
        BY <2>5, <3>2, <4>1 DEF SessionInv, IdsOK
    <3>3. CASE x = c
      <4>1. /\ c \in arrived /\ ~Queued(c) /\ c # NoClient
            /\ \A n \in Managers : session[n] = c => n = m
        BY <2>1, Constants DEF SessionInv, RegisteredOK
      <4>2. pc[c] # "connect"
        BY <4>1 DEF SessionInv, RegisteredOK
      <4>3. Called(m) = 3
        BY <1>3, ManagerCalled
      <4> QED
        BY <3>1, <3>3, <4>1, <4>2, <4>3 DEF Handshaking
    <3> QED
      BY <3>2, <3>3
  <2>7. ASSUME NEW x \in Clients, NEW k \in Kinds
        PROVE  /\ pc'[x] \notin {"mkfifo", "done"} /\ Around(x)' => node'[IdOf[x]][k] \in {x, NoClient}
               /\ Careful /\ Handshaking(x)' => node'[IdOf[x]][k] = x
    <3>1. CASE IdOf[x] = IdOf[c]
      BY <2>3, <2>4, <2>6, <3>1
    <3>2. CASE IdOf[x] # IdOf[c]
      BY <1>1, <1>2, <2>4, <3>2 DEF SessionInv, PathsOK
    <3> QED
      BY <3>1, <3>2
  <2> QED
    BY <2>4, <2>7 DEF PathsOK
<1>4. CASE ~UnlinkPipes(m)
  <2>1. node' = node
    BY <1>4, ManagerShares
  <2> QED
    BY <1>1, <1>2, <2>1 DEF SessionInv, PathsOK
<1> QED
  BY <1>3, <1>4

LEMMA ManagerMet ==
  ASSUME SessionInv, NEW m \in Managers, ManagerStep(m)
  PROVE  met' \subseteq {p \in Clients \cup Managers : pc'[p] = "opening"}
<1>1. /\ \A p \in Processes \ {m} : pc'[p] = pc[p]
      /\ met \subseteq {p \in Processes : pc[p] = "opening"} /\ m \in Processes
      /\ Processes = Clients \cup Managers /\ m \notin Clients
  <2>1. met \subseteq {p \in Clients \cup Managers : pc[p] = "opening"}
    BY DEF SessionInv, TypeOK
  <2> QED
    BY <2>1, ManagerControl, Constants
<1>2. CASE OpenPipe(m) /\ up'
  <2>1. PICK c \in Clients : /\ met' \subseteq met \cup {m, c}
                             /\ c \in met' => c \in met \/ pc[c] = "opening"
    BY <1>2, OpenPipeEffect
  <2>2. pc'[m] = "opening"
    BY <1>2, ManagerControl DEF OpenPipe, At, Take, PipeOpened, Hello, Reads, CallRead,
       ReturnRead, Answer, ClosePipe, UnlinkPipes
  <2> QED
    BY <1>1, <2>1, <2>2
<1>3. CASE ~(OpenPipe(m) /\ up')
  <2>1. met' \subseteq met /\ (m \in met' => pc'[m] = "opening")
    <3>1. CASE PipeOpened(m)
      BY <3>1, ManagerControl DEF PipeOpened, Opened
    <3>2. CASE OpenPipe(m)
      BY <1>1, <1>3, <3>2, ServerExits
    <3>3. CASE ~PipeOpened(m) /\ ~OpenPipe(m)
      <4>1. met' = met
        BY <3>3, ManagerShares
      <4>2. pc[m] # "opening"
        BY <3>3, ManagerControl
      <4> QED
        BY <1>1, <4>1, <4>2
    <3> QED
      BY <3>1, <3>2, <3>3
  <2> QED
    BY <1>1, <2>1
<1> QED
  BY <1>2, <1>3

(* A manager's calls of open only bring it further, until its session ends. *)
LEMMA ManagerKeepsPast ==
  ASSUME SessionInv, NEW m \in Managers, ManagerStep(m), NEW x \in Clients, NEW n \in 0 .. 3, Past(x, n)
  PROVE  Past(x, n)'
<1> SUFFICES ASSUME n > 0
             PROVE  /\ x \in arrived' /\ ~Queued(x)'
                    /\ \A i \in Managers : session'[i] = x => Called(i)' >= n
  BY DEF Past
<1>1. x \in arrived /\ ~Queued(x) /\ \A i \in Managers : session[i] = x => Called(i) >= n
  BY DEF Past
<1>2. ASSUME NEW i \in Managers, session'[i] = x
      PROVE  Called(i)' >= n
  <2>1. session[i] = x /\ Called(i) >= n /\ Called(i) \in 0 .. 3
    BY <1>1, <1>2, ManagerRegisters, CalledBounds, Constants
  <2>2. Called(i)' >= Called(i) /\ Called(i)' \in 0 .. 4
    <3>1. CASE i # m
      BY <2>1, <3>1, ManagerCalled, Constants
    <3>2. CASE i = m
      <4>1. ~UnlinkPipes(m)
        <5>1. UnlinkPipes(m) => session'[m] = NoClient
          BY DEF UnlinkPipes, Queue!End, SessionInv, TypeOK
        <5> QED
          BY <1>2, <3>2, <5>1, Constants
      <4>2. step[m] \in 1 .. 4
        BY Orders DEF SessionInv, TypeOK
      <4> QED
        BY <2>1, <3>2, <4>1, <4>2, ManagerCalled
    <3> QED
      BY <3>1, <3>2
  <2> QED
    BY <2>1, <2>2
<1> QED
  BY <1>1, <1>2, ManagerRegisters

LEMMA ManagerReading ==
  ASSUME SessionInv, NEW m \in Managers, ManagerStep(m)
  PROVE  /\ reading' \in [Managers -> Clients \cup {NoClient}]
         /\ \A n \in Managers : reading'[n] # NoClient => pc'[n] \in {"ready", "key"}
         /\ \A n \in Managers : reading'[n] # NoClient => Past(reading[n], 2)'
<1>1. /\ reading \in [Managers -> Clients \cup {NoClient}]
      /\ \A n \in Managers : reading[n] # NoClient => pc[n] \in {"ready", "key"}
      /\ \A n \in Managers : n # m => pc'[n] = pc[n]
      /\ \A n \in Managers : reading[n] # NoClient => Past(reading[n], 2)
      /\ NoClient \notin Clients /\ pc \in [Processes -> Labels] /\ m \in Processes
  BY ManagerControl, Constants DEF SessionInv, TypeOK, ShapesOK, MeetingsOK
<1>2. \A x \in Clients : Past(x, 2) => Past(x, 2)'
  <2>1. 2 \in 0 .. 3
    OBVIOUS
  <2> QED
    BY <2>1, ManagerKeepsPast
<1>3. /\ reading' \in [Managers -> Clients \cup {NoClient}]
      /\ \A n \in Managers : reading'[n] # NoClient =>
            /\ pc'[n] \in {"ready", "key"}
            /\ \E x \in Clients : x = reading'[n] /\ Past(x, 2)
  <2>1. CASE reading' = reading /\ (reading[m] # NoClient => pc'[m] = pc[m])
    BY <1>1, <2>1
  <2>2. CASE OpenPipe(m) /\ ~up'
    <3>1. reading' = [n \in Managers |-> NoClient]
      BY <2>2, ServerExits
    <3> QED
      BY <3>1
  <2>3. CASE CallRead(m) /\ reading' # reading
    <3> DEFINE d == fd[m]["req"]
               x == desc[d].of
    <3>1. /\ pc[m] \in {"ready", "key"} /\ d \in Fds
          /\ desc[d].ready /\ desc[d].kind = "req"
          /\ reading' = [reading EXCEPT ![m] = x] /\ pc' = pc
      <4>1. pc[m] \in {"ready", "key"} /\ "req" \in Kinds
        BY <2>3 DEF CallRead, At, Kinds
      <4>2. d \in Fds
        BY <4>1 DEF SessionInv, TypeOK
      <4> QED
        BY <2>3, <4>1, <4>2 DEF CallRead, control
    <3>2. desc[d] # Free /\ x \in Clients
      <4>1. desc[d] # Free
        BY <3>1, Constants
      <4> QED
        BY <3>1, <4>1 DEF SessionInv, TypeOK
    <3>3. ServerEnd("req", x) # {} /\ "req" \in Kinds /\ Turn["req"] = 2
      <4>1. d \in ServerFds("req", x)
        BY <3>1 DEF ServerFds
      <4> QED
        BY <4>1 DEF ServerEnd, Kinds, Turn
    <3>4. Past(x, 2)
      <4> HIDE DEF x
      <4> QED
        BY <3>2, <3>3, ServerEndIsPast
    <3> HIDE DEF x, d
    <3> QED
      BY <1>1, <3>1, <3>2, <3>4
  <2>4. CASE ReturnRead(m)
    <3>1. reading' = [reading EXCEPT ![m] = NoClient]
      BY <2>4 DEF ReturnRead
    <3> QED
      BY <1>1, <3>1
  <2>5. CASE CallRead(m) /\ reading' = reading
    <3>1. reading[m] = NoClient
      BY <2>5 DEF CallRead
    <3> QED
      BY <2>1, <2>5, <3>1
  <2>6. CASE ~(OpenPipe(m) /\ ~up') /\ ~Reads(m)
    <3>1. reading' = reading
      <4>1. CASE OpenPipe(m) /\ up'
        BY <4>1, OpenPipeEffect
      <4>2. CASE ~OpenPipe(m)
        BY <2>6, <4>2, ManagerShares
      <4> QED
        BY <2>6, <4>1, <4>2
    <3>2. pc[m] \notin {"ready", "key"}
      BY <2>6, ManagerControl
    <3> QED
      BY <1>1, <2>1, <3>1, <3>2
  <2> QED
    BY <2>2, <2>3, <2>4, <2>5, <2>6 DEF Reads
<1>4. ASSUME NEW n \in Managers, reading'[n] # NoClient
      PROVE  Past(reading[n], 2)'
  <2>1. PICK x \in Clients : x = reading'[n] /\ Past(x, 2)
    BY <1>3, <1>4
  <2>2. Past(x, 2)'
    BY <1>2, <2>1
  <2> QED
    BY <2>1, <2>2 DEF Past
<1> QED
  BY <1>3, <1>4

LEMMA ManagerMeetings ==
  ASSUME SessionInv, NEW m \in Managers, ManagerStep(m)
  PROVE  MeetingsOK'
<1> DEFINE T(x) == IF pc[x] = "opening" /\ x \notin met THEN step[x] - 1 ELSE Called(x)
<1>1. /\ \A x \in Clients : pc'[x] = pc[x] /\ step'[x] = step[x] /\ Called(x)' = Called(x)
      /\ \A x \in Clients : x \in Processes
  BY ManagerControl, ManagerCalled, Constants
<1>2. \A x \in Clients : pc[x] = "opening" =>
                           step[x] \in 1 .. 3 /\ Called(x) = step[x] /\ m # x
  <2>1. \A x \in Clients : step[x] \in 1 .. 4
    BY Orders DEF SessionInv, TypeOK
  <2> QED
    BY <1>1, <2>1, Constants DEF SessionInv, ShapesOK, Called
<1>3. \A x \in Clients : Called(x) \in 0 .. 3
  BY <1>1, CalledBounds
<1>4. \A x \in Clients : pc[x] \notin {"off", "dead", "failed"} => Past(x, T(x)) /\ T(x) \in 0 .. 3
  BY <1>2, <1>3 DEF SessionInv, MeetingsOK
<1>5. ASSUME NEW x \in Clients, pc'[x] \notin {"off", "dead", "failed"}
      PROVE  Past(x, T(x))'
  <2>1. CASE T(x)' = T(x)
    <3>1. PICK n \in 0 .. 3 : n = T(x) /\ Past(x, n)
      <4> HIDE DEF T
      <4> QED
        BY <1>1, <1>4, <1>5
    <3>2. Past(x, n)' /\ T(x)' = n
      <4> HIDE DEF T
      <4> QED
        BY <2>1, <3>1, ManagerKeepsPast
    <3> HIDE DEF T
    <3> QED
      BY <3>2 DEF Past
  <2>2. CASE T(x)' # T(x)
    <3>1. pc[x] = "opening" /\ (x \in met' <=> x \notin met)
      BY <1>1, <2>2
    <3>2. CASE OpenPipe(m) /\ up'
      <4>1. /\ x = session[m] /\ x \in met' /\ step[m] <= step[x] /\ step[m] \in 1 .. 3
        BY <1>2, <3>1, <3>2, OpenPipeEffect
      <4>2. T(x) = step[x] - 1 /\ T(x)' = step[x]
        BY <1>1, <1>2, <3>1, <4>1
      <4>3. Past(x, step[x] - 1)
        <5> HIDE DEF T
        <5> QED
          BY <1>4, <3>1, <4>2
      <4>4. step[m] >= step[x]
        <5>1. Called(m) = step[m] - 1
          BY <3>2, ManagerCalled
        <5>2. step[x] - 1 > 0 => Called(m) >= step[x] - 1
          BY <4>1, <4>3 DEF Past
        <5> QED
          BY <1>2, <3>1, <4>1, <5>1, <5>2
      <4>5. /\ Called(m)' = step[m] /\ session' = session /\ arrived' = arrived /\ queue' = queue
        BY <3>2, ManagerCalled DEF OpenPipe, registration
      <4>6. /\ x \in arrived /\ ~Queued(x) /\ \A n \in Managers : session[n] = x => n = m
        BY <4>1, Constants DEF SessionInv, RegisteredOK
      <4>7. PICK n \in 1 .. 3 : n = step[x]
        BY <1>2, <3>1
      <4>8. Past(x, n)'
        BY <4>4, <4>5, <4>6, <4>7 DEF Past, Queued
      <4> HIDE DEF T
      <4> QED
        BY <4>2, <4>7, <4>8 DEF Past
    <3>3. CASE ~(OpenPipe(m) /\ up')
      <4>1. met' = met \/ met' = met \ {m}
        <5>1. CASE PipeOpened(m)
          BY <5>1 DEF PipeOpened, Opened
        <5>2. CASE OpenPipe(m)
          BY <3>3, <5>2, ServerExits
        <5>3. CASE ~PipeOpened(m) /\ ~OpenPipe(m)
          BY <5>3, ManagerShares
        <5> QED
          BY <5>1, <5>2, <5>3
      <4> QED
        BY <1>2, <3>1, <4>1
    <3> QED
      BY <3>2, <3>3
  <2> QED
    BY <2>1, <2>2
<1> QED
  BY <1>5, ManagerReading DEF MeetingsOK

(* An answer goes to one pipe at most.                                     *)
LEMMA AnswerWritten ==
  ASSUME SessionInv, NEW m \in Managers, NEW answer \in Answers, WriteAnswer(m, answer)
  PROVE  resp' \in [Clients -> Seq(Answers)]
<1> DEFINE d == desc[fd[m]["resp"]]
           S == Seq(Answers)
           longer == [x \in Clients |-> Append(resp[x], answer)]
<1>1. resp \in [Clients -> S] /\ \A x \in Clients : longer[x] \in S
  BY DEF SessionInv, TypeOK
<1>2. resp' = resp \/ resp' = [resp EXCEPT ![d.of] = Append(resp[d.of], answer)]
  BY DEF WriteAnswer
<1>3. resp' = resp \/ \E x \in Clients : resp' = [resp EXCEPT ![x] = longer[x]]
  <2>1. \A x : x \notin Clients => [resp EXCEPT ![x] = Append(resp[x], answer)] = resp
    BY <1>1
  <2>2. \A x \in Clients : longer[x] = Append(resp[x], answer)
    OBVIOUS
  <2> HIDE DEF d, longer
  <2> QED
    BY <1>2, <2>1, <2>2
<1> HIDE DEF S, longer
<1>4. resp' \in [Clients -> S]
  BY <1>1, <1>3
<1> QED
  BY <1>4 DEF S

LEMMA ManagerData ==
  ASSUME SessionInv, NEW m \in Managers, ManagerStep(m)
  PROVE  /\ req' \in [Clients -> Seq(Requests \cup Keys)]
         /\ resp' \in [Clients -> Seq(Answers)] /\ outcome' \in [Clients -> Seq(Answers)]
         /\ op' \in [Clients \cup Managers -> Requests \cup {"none"}]
         /\ from' \in [Managers -> Clients \cup {NoClient}]
         /\ up' \in BOOLEAN /\ clobbered' \in BOOLEAN
         /\ \A p \in Clients \cup Managers : p # m => op'[p] = op[p]
         /\ pc'[m] \in {"key", "exec"} => op'[m] # "none"
<1>1. /\ req \in [Clients -> Seq(Requests \cup Keys)]
      /\ resp \in [Clients -> Seq(Answers)] /\ outcome \in [Clients -> Seq(Answers)]
      /\ op \in [Clients \cup Managers -> Requests \cup {"none"}]
      /\ from \in [Managers -> Clients \cup {NoClient}]
      /\ reading \in [Managers -> Clients \cup {NoClient}]
      /\ up \in BOOLEAN /\ clobbered \in BOOLEAN
      /\ m \in Clients \cup Managers /\ pc \in [Processes -> Labels] /\ m \in Processes
      /\ pc[m] \in {"key", "exec"} => op[m] # "none"
  <2>1. pc \in [Processes -> Labels] /\ m \in Processes
        /\ (pc[m] \in {"key", "exec"} => op[m] # "none")
    BY Constants DEF SessionInv, ShapesOK
  <2> QED
    BY <2>1 DEF SessionInv, TypeOK
<1> DEFINE Ops == Requests \cup {"none"}
<1>2. ASSUME NEW o \in Ops, op' = [op EXCEPT ![m] = o]
      PROVE  /\ op' \in [Clients \cup Managers -> Ops] /\ op'[m] = o
             /\ \A p \in Clients \cup Managers : p # m => op'[p] = op[p]
  <2> HIDE DEF Ops
  <2> QED
    BY <1>1, <1>2 DEF Ops
<1>3. CASE Hello(m)
  <2>1. <<"connect", TRUE>> \in Answers
    BY DEF Answers
  <2>2. resp' \in [Clients -> Seq(Answers)]
    BY <1>3, <2>1, AnswerWritten DEF Hello
  <2>3. UNCHANGED <<req, outcome, op, from, up, clobbered>> /\ pc'[m] = "open"
    BY <1>1, <1>3 DEF Hello, calls, rest, Goto
  <2> QED
    BY <1>1, <2>2, <2>3
<1>4. CASE Answer(m)
  <2>1. PICK result \in BOOLEAN :
          /\ WriteAnswer(m, <<op[m], result>>)
          /\ outcome' = [c \in Clients |-> outcome[c] \o
                           IF c = from[m] THEN <<<<op[m], result>>>> ELSE << >>]
    BY <1>4 DEF Answer
  <2>2. pc[m] = "exec" /\ op[m] \in Requests
    <3>1. pc[m] = "exec"
      BY <1>4 DEF Answer, At
    <3> QED
      BY <1>1, <3>1
  <2> DEFINE answer == <<op[m], result>>
             S == Seq(Answers)
             more == [c \in Clients |-> IF c = from[m] THEN <<answer>> ELSE << >>]
  <2>3. answer \in Answers
    BY <2>2 DEF Answers
  <2>4. resp' \in [Clients -> Seq(Answers)]
    <3>1. WriteAnswer(m, answer)
      BY <2>1
    <3> HIDE DEF answer
    <3> QED
      BY <2>3, <3>1, AnswerWritten
  <2>5. outcome' \in [Clients -> Seq(Answers)]
    <3>1. /\ outcome' = [c \in Clients |-> outcome[c] \o more[c]]
      BY <2>1
    <3>2. \A c \in Clients : more[c] \in S
      <4> HIDE DEF answer
      <4> QED
        BY <2>3
    <3>3. \A s \in S, t \in S : s \o t \in S
      OBVIOUS
    <3> HIDE DEF S, more, answer
    <3>4. outcome' \in [Clients -> S]
      BY <1>1, <3>1, <3>2, <3>3 DEF S
    <3> QED
      BY <3>4 DEF S
  <2>6. /\ op' = [op EXCEPT ![m] = "none"] /\ from' = [from EXCEPT ![m] = NoClient]
        /\ UNCHANGED <<req, up, clobbered>> /\ pc'[m] \in {"close", "ready"}
    BY <1>1, <1>4 DEF Answer, rest, Goto
  <2>7. from' \in [Managers -> Clients \cup {NoClient}]
    BY <1>1, <2>6
  <2> QED
    BY <1>1, <1>2, <2>4, <2>5, <2>6, <2>7
<1>5. CASE CallRead(m)
  <2>1. /\ UNCHANGED <<req, resp, outcome, from, up, clobbered>>
        /\ \/ op' = op /\ pc' = pc
           \/ op' = [op EXCEPT ![m] = "disconnect"]
           \/ op' = [op EXCEPT ![m] = "none"] /\ pc'[m] = "ready"
    BY <1>1, <1>5 DEF CallRead, NothingRead, Goto, control, data, rest
  <2>2. "disconnect" \in Ops /\ "none" \in Ops /\ "disconnect" # "none"
    BY DEF Requests
  <2> QED
    BY <1>1, <1>2, <2>1, <2>2
<1>6. CASE ReturnRead(m)
  <2> DEFINE maker == reading[m]
             sent == req[maker]
             wants == Head(sent)
             S == Seq(Requests \cup Keys)
  <2>1. maker \in Clients /\ sent \in S /\ UNCHANGED <<resp, outcome, up, clobbered>>
    BY <1>1, <1>6 DEF ReturnRead, rest
  <2>2. /\ \/ req' = [req EXCEPT ![maker] = Tail(sent)] /\ sent # << >>
           \/ req' = [req EXCEPT ![maker] = << >>]
           \/ req' = req
        /\ from' = from \/ from' = [from EXCEPT ![m] = maker]
    BY <1>6 DEF ReturnRead
  <2>3. \/ op' = [op EXCEPT ![m] = wants] /\ wants \in {"subscribe", "unsubscribe"}
        \/ op' = [op EXCEPT ![m] = "disconnect"]
        \/ op' = [op EXCEPT ![m] = "none"] /\ pc'[m] = "ready"
        \/ op' = op /\ pc[m] = "key"
    BY <1>1, <1>6 DEF ReturnRead, NothingRead, Goto
  <2>4. req' \in [Clients -> S]
    <3>1. << >> \in S /\ (sent # << >> => Tail(sent) \in S)
      BY <2>1
    <3>2. req \in [Clients -> S]
      BY <1>1
    <3> HIDE DEF S, maker, sent
    <3> QED
      BY <2>1, <2>2, <3>1, <3>2
  <2>5. from' \in [Managers -> Clients \cup {NoClient}]
    BY <1>1, <2>1, <2>2
  <2>6. {"subscribe", "unsubscribe", "disconnect"} \subseteq Ops /\ "none" \in Ops
        /\ "none" \notin {"subscribe", "unsubscribe", "disconnect"}
    BY DEF Requests
  <2> HIDE DEF wants
  <2>7. /\ op' \in [Clients \cup Managers -> Ops]
        /\ \A p \in Clients \cup Managers : p # m => op'[p] = op[p]
        /\ pc'[m] \in {"key", "exec"} => op'[m] # "none"
    BY <1>1, <1>2, <2>3, <2>6
  <2> QED
    BY <1>1, <2>1, <2>4, <2>5, <2>7
<1>7. CASE OpenPipe(m)
  <2>1. /\ UNCHANGED <<req, resp, outcome, op, from, clobbered>> /\ up' \in BOOLEAN
    BY <1>1, <1>7 DEF OpenPipe, data, calls
  <2>2. pc'[m] \notin {"key", "exec"}
    BY <1>7, ManagerControl DEF OpenPipe, At
  <2> QED
    BY <1>1, <2>1, <2>2
<1>8. CASE PipeOpened(m) \/ Take(m) \/ UnlinkPipes(m) \/ ClosePipe(m)
  <2>1. /\ UNCHANGED <<req, resp, outcome, op, from, up>> /\ clobbered' \in BOOLEAN
        /\ pc[m] \in {"opening", "idle", "remove", "close"}
    BY <1>1, <1>8 DEF PipeOpened, Opened, Take, UnlinkPipes, ClosePipe, data, calls, rest, At
  <2>2. pc'[m] \notin {"key", "exec"}
    BY <2>1, ManagerControl
  <2> QED
    BY <1>1, <2>1, <2>2
<1> QED
  BY <1>3, <1>4, <1>5, <1>6, <1>7, <1>8 DEF ManagerStep

LEMMA ManagerTypes ==
  ASSUME SessionInv, UNCHANGED IdOf, NEW m \in Managers, ManagerStep(m)
  PROVE  TypeOK' /\ ShapesOK'
<1>1. /\ \A p \in Processes \ {m} : pc'[p] = pc[p] /\ step'[p] = step[p]
      /\ Processes = Clients \cup Managers /\ m \notin Clients /\ m \in Processes
      /\ pc' \in [Processes -> Labels] /\ step' \in [Processes -> 1 .. Len(CloseOrder)]
      /\ Len(CloseOrder) = 4
  BY ManagerControl, Constants, Orders
<1>2. /\ pc'[m] \in {"idle", "open", "opening", "hello", "ready", "key", "exec", "close", "remove"}
      /\ pc'[m] \in {"open", "opening"} => step'[m] <= 3
      /\ pc'[m] = "hello" => step'[m] = 2
      /\ pc'[m] \notin {"open", "opening", "hello", "close"} => step'[m] = 1
      /\ pc'[m] = "ready" => pc[m] \in {"opening", "ready", "key", "exec"}
      /\ pc'[m] \in {"key", "exec"} => pc[m] \in {"ready", "key"}
      /\ pc'[m] = "close" => pc[m] \in {"exec", "close"}
  <2>1. /\ pc[m] \in {"open", "opening"} => step[m] <= 3
        /\ pc[m] = "hello" => step[m] = 2
        /\ pc[m] \notin {"open", "opening", "hello", "close", "dead", "failed"} => step[m] = 1
    <3>1. ShapesOK
      BY DEF SessionInv
    <3> QED
      BY <1>1, <3>1 DEF ShapesOK
  <2>2. step[m] \in 1 .. 4
    BY <1>1 DEF SessionInv, TypeOK
  <2> QED
    BY <2>1, <2>2, ManagerControl
<1>3. \A k \in Kinds : pc'[m] \in {"ready", "key", "exec", "close"} => fd'[m][k] \in Fds
  <2> SUFFICES ASSUME NEW k \in Kinds, pc'[m] \in {"ready", "key", "exec", "close"}
               PROVE  fd'[m][k] \in Fds
    OBVIOUS
  <2>1. Called(m)' = 3
    BY <1>2 DEF Called
  <2>2. Turn[k] <= 3
    BY Orders
  <2>3. fd'[m][k] # NoFd
    BY <2>1, <2>2, ManagerFds DEF FdsOK
  <2> QED
    BY <2>3, ManagerFds
<1>4. TypeOK'
  <2>1. \A x \in Clients :
          pc'[x] \in {"mkfifo", "connect", "open", "opening", "hello",
                      "ready", "await", "bye", "close", "remove"} \cup Ended
    BY <1>1 DEF SessionInv, TypeOK
  <2>2. \A n \in Managers :
          /\ pc'[n] \in {"idle", "open", "opening", "hello", "ready", "key",
                         "exec", "close", "remove"}
          /\ pc'[n] \in {"ready", "key", "exec", "close"} => \A k \in Kinds : fd'[n][k] \in Fds
    <3> SUFFICES ASSUME NEW n \in Managers
                 PROVE  /\ pc'[n] \in {"idle", "open", "opening", "hello", "ready", "key",
                                       "exec", "close", "remove"}
                        /\ pc'[n] \in {"ready", "key", "exec", "close"} => \A k \in Kinds : fd'[n][k] \in Fds
      OBVIOUS
    <3>1. CASE n = m
      BY <1>2, <1>3, <3>1
    <3>2. CASE n # m
      <4>1. pc'[n] = pc[n] /\ fd'[n] = fd[n]
        BY <3>2, OthersKept
      <4> QED
        BY <4>1 DEF SessionInv, TypeOK
    <3> QED
      BY <3>1, <3>2
  <2>3. /\ \A n \in Managers : session'[n] = NoClient <=> pc'[n] = "idle"
        /\ session' \in [Managers -> Clients \cup {NoClient}]
        /\ queue' \in Seq(arrived') /\ arrived' = arrived
    BY ManagerRegisters
  <2>4. /\ \A n \in Managers : reading'[n] # NoClient => pc'[n] \in {"ready", "key"}
        /\ reading' \in [Managers -> Clients \cup {NoClient}]
    BY ManagerReading
  <2>5. /\ node' \in [Ids -> [Kinds -> Clients \cup {NoClient}]]
        /\ met' \subseteq {p \in Clients \cup Managers : pc'[p] = "opening"}
        /\ fd' \in [Managers -> [Kinds -> Fds \cup {NoFd}]]
        /\ \A d \in Fds : desc'[d] \in
             {Free} \cup [owner : Managers, kind : Kinds, of : Clients, ready : BOOLEAN]
    BY ManagerPaths, ManagerMet, ManagerFds, ManagerDesc
  <2>6. /\ arrived \subseteq Clients /\ end' \in [Clients -> [Kinds -> Clients \cup {NoClient}]]
        /\ asked' \in [Clients -> 0 .. MaxRequests] /\ deaths' \in 0 .. MaxDeaths
    BY ManagerShares DEF SessionInv, TypeOK
  <2>7. step' \in [Clients \cup Managers -> 1 .. Len(CloseOrder)]
    BY <1>1
  <2>8. keeper' \subseteq Managers /\ Cardinality(keeper') <= 1
    <3>1. keeper' \in {keeper, {}, {m}}
      BY DEF ManagerStep, Take, OpenPipe, PipeOpened, Hello, CallRead, ReturnRead, Answer,
             ClosePipe, UnlinkPipes, calls
    <3>2. keeper \subseteq Managers /\ Cardinality(keeper) <= 1
      BY DEF SessionInv, TypeOK
    <3>3. Cardinality({}) = 0 /\ Cardinality({m}) = 1
      BY FS_EmptySet, FS_Singleton
    <3> QED
      BY <3>1, <3>2, <3>3
  <2> QED
    BY <2>1, <2>2, <2>3, <2>4, <2>5, <2>6, <2>7, <2>8, ManagerData DEF TypeOK
<1>5. ShapesOK'
  <2>1. \A p \in Processes :
          /\ pc'[p] \in {"open", "opening"} => step'[p] <= 3
          /\ pc'[p] = "hello" => step'[p] = 2
          /\ pc'[p] \notin {"open", "opening", "hello", "close", "dead", "failed"} => step'[p] = 1
          /\ pc'[p] \in {"key", "exec"} => op'[p] # "none"
    <3> SUFFICES ASSUME NEW p \in Processes
                 PROVE  /\ pc'[p] \in {"open", "opening"} => step'[p] <= 3
                        /\ pc'[p] = "hello" => step'[p] = 2
                        /\ pc'[p] \notin {"open", "opening", "hello", "close", "dead", "failed"}
                             => step'[p] = 1
                        /\ pc'[p] \in {"key", "exec"} => op'[p] # "none"
      OBVIOUS
    <3>1. CASE p = m
      BY <1>2, <3>1, ManagerData
    <3>2. CASE p # m
      <4>1. pc'[p] = pc[p] /\ step'[p] = step[p] /\ op'[p] = op[p]
        BY <1>1, <3>2, ManagerData
      <4>2. ShapesOK
        BY DEF SessionInv
      <4> QED
        BY <4>1, <4>2 DEF ShapesOK
    <3> QED
      BY <3>1, <3>2
  <2>2. \A x \in Clients : pc'[x] = "close" => step'[x] = 1
    BY <1>1 DEF SessionInv, ShapesOK
  <2>3. IdOf' \in [Clients -> Ids] /\ DOMAIN desc' = Fds
    BY ManagerDesc DEF SessionInv, ShapesOK
  <2> QED
    BY <1>1, <2>1, <2>2, <2>3 DEF ShapesOK
<1> QED
  BY <1>4, <1>5

LEMMA ManagerStepInv ==
  ASSUME SessionInv, UNCHANGED IdOf, NEW m \in Managers, ManagerStep(m)
  PROVE  SessionInv'
BY ManagerTypes, ManagerRegisters, ManagerFds, ManagerDesc, ManagerEndsIds, ManagerPaths,
   ManagerMeetings DEF SessionInv

LEMMA SessionIdle ==
  ASSUME SessionInv, UNCHANGED vars
  PROVE  SessionInv'
<1> USE DEF vars, registration, control, ends, data, calls, rest
<1>1. TypeOK' /\ ShapesOK'
  BY DEF SessionInv, TypeOK, ShapesOK
<1>2. /\ \A x \in Clients : (Queued(x)' <=> Queued(x)) /\ (Served(x)' <=> Served(x))
      /\ \A p : Called(p)' = Called(p)
  BY DEF Queued, Served, Called
<1>3. /\ \A x \in Clients : (Around(x)' <=> Around(x)) /\ (Handshaking(x)' <=> Handshaking(x))
  BY <1>2 DEF Around, Handshaking
<1>4. RegisteredOK'
  BY DEF SessionInv, RegisteredOK, Queued
<1>5. FdsOK'
  BY <1>2 DEF SessionInv, FdsOK
<1>6. DescriptorsOK'
  BY DEF SessionInv, DescriptorsOK, DescriptorOK, WaitsInOpen
<1>7. IdsOK' /\ PathsOK'
  BY <1>3 DEF SessionInv, IdsOK, PathsOK
<1>8. EndsOK'
  BY <1>2 DEF SessionInv, EndsOK
<1>9. MeetingsOK'
  BY DEF SessionInv, MeetingsOK, Past, Queued, Called
<1> QED
  BY <1>1, <1>4, <1>5, <1>6, <1>7, <1>8, <1>9 DEF SessionInv

LEMMA SessionInvariant == Spec => []SessionInv
<1>1. SessionInv /\ [Next]_vars => SessionInv'
  <2> SUFFICES ASSUME SessionInv, [Next]_vars
               PROVE  SessionInv'
    OBVIOUS
  <2>1. CASE UNCHANGED vars
    BY <2>1, SessionIdle
  <2>2. ASSUME NEW c \in Clients, Start(c) \/ ClientStep(c) \/ Die(c), UNCHANGED IdOf
        PROVE  SessionInv'
    BY <2>2, ClientStepInv DEF ClientMoves
  <2>3. ASSUME NEW m \in Managers, ManagerStep(m), UNCHANGED IdOf
        PROVE  SessionInv'
    BY <2>3, ManagerStepInv
  <2> QED
    BY <2>1, <2>2, <2>3 DEF Next
<1> QED
  BY <1>1, SessionInit, PTL DEF Spec

-----------------------------------------------------------------------------
(* Every variable keeps its shape (client api.c and main.c, manager_thread *)
(* of main.c).                                                             *)
THEOREM SessionTypeCorrect == Spec => []TypeOK
<1>1. SessionInv => TypeOK
  BY DEF SessionInv
<1> QED
  BY <1>1, SessionInvariant, PTL

(* If an id is used again only once the server is done with it, the server *)
(* survives its clients: whenever they die, no manager finds a FIFO of a   *)
(* handshake missing (main.c:162, 169, 171, where it would exit).          *)
THEOREM ServerSurvivesClients == Careful => (Spec => []ServerSurvives)
<1> SUFFICES ASSUME Careful
             PROVE  Spec => []ServerSurvives
  OBVIOUS
<1>1. Init => ServerSurvives
  BY DEF Init, ServerSurvives
<1>2. SessionInv /\ ServerSurvives /\ [Next]_vars => ServerSurvives'
  <2> SUFFICES ASSUME SessionInv, up, [Next]_vars
               PROVE  up'
    BY DEF ServerSurvives
  <2>1. CASE UNCHANGED vars
    BY <2>1 DEF vars, rest
  <2>2. ASSUME NEW c \in Clients, ClientMoves(c)
        PROVE  up'
    BY <2>2, ClientMovesOne
  <2>3. ASSUME NEW m \in Managers, ManagerStep(m)
        PROVE  up'
    <3>1. CASE ~OpenPipe(m)
      BY <2>3, <3>1, ManagerShares
    <3>2. CASE OpenPipe(m)
      <4> SUFFICES ASSUME ~up'
                   PROVE  FALSE
        OBVIOUS
      <4> DEFINE c == session[m]
                 kind == OpenOrder[step[m]]
      <4>1. pc[m] = "open" /\ c \in Clients /\ step[m] \in 1 .. 3
        <5>1. pc[m] = "open"
          BY <3>2 DEF OpenPipe, At
        <5>2. c \in Clients /\ step[m] \in 1 .. 4
          BY <5>1, Orders DEF SessionInv, TypeOK
        <5> QED
          BY <5>1, <5>2, Constants DEF SessionInv, ShapesOK
      <4>2. kind \in Kinds
        BY <4>1, Orders
      <4>3. Handshaking(c)
        <5>1. Called(m) < 3
          BY <4>1 DEF Called
        <5> QED
          BY <5>1 DEF Handshaking
      <4>4. node[IdOf[c]][kind] = c
        <5> HIDE DEF c, kind
        <5> QED
          BY <4>1, <4>2, <4>3 DEF SessionInv, PathsOK
      <4>5. node[IdOf[c]][kind] = NoClient
        BY <3>2, <4>1, ServerExits, Constants DEF PathId
      <4> QED
        BY <4>1, <4>4, <4>5, Constants
    <3> QED
      BY <3>1, <3>2
  <2> QED
    BY <2>1, <2>2, <2>3 DEF Next, ClientMoves
<1> QED
  BY <1>1, <1>2, SessionInvariant, PTL DEF Spec

-----------------------------------------------------------------------------
(* Answers.  The invariant adds to SessionInv what each client has been    *)
(* told, and by whom it will be told the rest.                             *)

(* How far a process has come with the open calls that have returned or    *)
(* have found their other end.                                             *)
Reached(p) == IF pc[p] = "opening" /\ p \notin met THEN step[p] - 1 ELSE Called(p)

(* A number that a manager has opened and not yet closed is its own.       *)
Holds(m, k) ==
  /\ Turn[k] <= Called(m) /\ pc[m] # "remove"
  /\ pc[m] = "close" => \A i \in 1 .. step[m] - 1 : CloseOrder[i] # k

HeldOK ==
  \A m \in Managers :
    /\ \A k \in Kinds : Holds(m, k) => desc[fd[m][k]].owner = m /\ desc[fd[m][k]].kind = k
    /\ pc[m] = "close" => \A k \in Kinds, l \in Kinds : fd[m][k] = fd[m][l] => k = l

(* A manager reads its own client's FIFO, and what it works on came from   *)
(* there.  It is not ahead of its client in the handshake.                 *)
WorksOK ==
  \A m \in Managers :
    /\ reading[m] \in {NoClient, session[m]}
    /\ from[m] # NoClient => from[m] = session[m] /\ pc[m] \in {"ready", "key", "exec"}
    /\ pc[m] # "idle" => Reached(m) <= Called(session[m])

(* The first answer, to the connection, is written.                        *)
Greeted(m) ==
  pc[m] \notin {"idle", "hello"} /\ ~(pc[m] \in {"open", "opening"} /\ step[m] = 1)

(* The manager of c is on its way to read a request.                       *)
Listens(m, c) ==
  /\ session[m] = c /\ from[m] = NoClient
  /\ pc[m] = "ready" \/ (pc[m] \in {"open", "opening"} /\ Greeted(m))

(* It has c's request before it, or has begun with it.                     *)
Asked(m, c) ==
  /\ Listens(m, c)
  /\ req[c] = <<op[c]>> \/ (op[c] # "disconnect" /\ \E key \in Keys : req[c] = <<op[c], key>>)

Begun(m, c) ==
  /\ session[m] = c /\ from[m] = c /\ op[m] = op[c]
  /\ \/ pc[m] = "exec" /\ req[c] = << >>
     \/ pc[m] = "key" /\ op[c] # "disconnect" /\ (req[c] = << >> \/ \E key \in Keys : req[c] = <<key>>)

Unanswered(c) == resp[c] = << >> /\ outcome[c] = << >>

Answered(c) ==
  resp[c] = outcome[c] /\ \E result \in BOOLEAN : outcome[c] = <<<<op[c], result>>>>

(* What c has been told, and who will tell it, at each point of a session. *)
StageOK(c) ==
  /\ pc[c] \in {"off", "mkfifo", "connect"} \/ (pc[c] = "open" /\ step[c] = 1) =>
       req[c] = << >> /\ resp[c] = << >>
  /\ pc[c] = "hello" \/ (pc[c] = "opening" /\ step[c] = 1) =>
       /\ req[c] = << >>
       /\ resp[c] = IF \E m \in Managers : session[m] = c /\ Greeted(m)
                    THEN <<<<"connect", TRUE>>>> ELSE << >>
  /\ pc[c] = "hello" \/ (pc[c] \in {"open", "opening"} /\ step[c] = 1) => Queued(c) \/ Served(c)
  /\ pc[c] = "ready" \/ (pc[c] \in {"open", "opening"} /\ step[c] > 1) =>
       /\ req[c] = << >> /\ resp[c] = << >>
       /\ \E m \in Managers : Listens(m, c)
  /\ Waiting(c) => op[c] \in Requests /\ (op[c] = "disconnect" <=> pc[c] = "bye")
  /\ Waiting(c) =>
       \/ Unanswered(c) /\ \E m \in Managers : Asked(m, c) \/ Begun(m, c)
       \/ /\ Answered(c)
          /\ pc[c] = "await" => req[c] = << >> /\ \E m \in Managers : Listens(m, c)
          /\ pc[c] = "bye" => \A m \in Managers : session[m] = c => pc[m] \in {"close", "remove"}

(* While the server is up and no manager has closed another's descriptor,  *)
(* this is so; when it is down, it says no more.                           *)
AnswersInv ==
  /\ up /\ ~clobbered => HeldOK /\ WorksOK /\ \A c \in Clients : StageOK(c)
  /\ ~clobbered => \A c \in Clients : Waiting(c) => Unanswered(c) \/ Answered(c)
  /\ ~up => (\A d \in Fds : desc[d] = Free) /\ \A m \in Managers : reading[m] = NoClient
-----------------------------------------------------------------------------
(* StageOK of a client that m serves.                                      *)
StageWith(m, c) ==
  /\ pc[c] \in {"off", "mkfifo", "connect"} \/ (pc[c] = "open" /\ step[c] = 1) =>
       req[c] = << >> /\ resp[c] = << >>
  /\ pc[c] = "hello" \/ (pc[c] = "opening" /\ step[c] = 1) =>
       /\ req[c] = << >>
       /\ resp[c] = IF Greeted(m) THEN <<<<"connect", TRUE>>>> ELSE << >>
  /\ pc[c] = "ready" \/ (pc[c] \in {"open", "opening"} /\ step[c] > 1) =>
       req[c] = << >> /\ resp[c] = << >> /\ Listens(m, c)
  /\ Waiting(c) => op[c] \in Requests /\ (op[c] = "disconnect" <=> pc[c] = "bye")
  /\ Waiting(c) =>
       \/ Unanswered(c) /\ (Asked(m, c) \/ Begun(m, c))
       \/ /\ Answered(c)
          /\ pc[c] = "await" => req[c] = << >> /\ Listens(m, c)
          /\ pc[c] = "bye" => pc[m] \in {"close", "remove"}

LEMMA StageServed ==
  ASSUME SessionInv, NEW m \in Managers, NEW c \in Clients, session[m] = c, StageOK(c)
  PROVE  StageWith(m, c)
<1>1. \A n \in Managers : session[n] = c => n = m
  BY Constants DEF SessionInv, RegisteredOK
<1>2. /\ (\E n \in Managers : Listens(n, c)) => Listens(m, c)
      /\ (\E n \in Managers : Asked(n, c) \/ Begun(n, c)) => Asked(m, c) \/ Begun(m, c)
  <2>1. \A n \in Managers : Listens(n, c) => n = m
    BY <1>1 DEF Listens
  <2>2. \A n \in Managers : Asked(n, c) \/ Begun(n, c) => n = m
    BY <1>1, <2>1 DEF Asked, Begun
  <2> QED
    BY <2>1, <2>2
<1>3. (\E n \in Managers : session[n] = c /\ Greeted(n)) <=> Greeted(m)
  BY <1>1
<1> QED
  BY <1>2, <1>3 DEF StageOK, StageWith

LEMMA StageServedNext ==
  ASSUME SessionInv', NEW m \in Managers, NEW c \in Clients, session'[m] = c, StageWith(m, c)'
  PROVE  StageOK(c)'
<1>1. \A n \in Managers : session'[n] = c => n = m
  BY Constants DEF SessionInv, RegisteredOK
<1>2. (\E n \in Managers : session'[n] = c /\ Greeted(n)') <=> Greeted(m)'
  BY <1>1
<1>3. Served(c)'
  BY DEF Served
<1>4. \A n \in Managers : session'[n] = c => (pc'[m] \in {"close", "remove"} => pc'[n] \in {"close", "remove"})
  BY <1>1
<1> QED
  BY <1>2, <1>3, <1>4 DEF StageOK, StageWith

(* A number that a manager holds is an end of its client's FIFO.           *)
LEMMA HeldEnd ==
  ASSUME SessionInv, HeldOK, NEW m \in Managers, NEW k \in Kinds, Holds(m, k)
  PROVE  /\ fd[m][k] \in Fds /\ desc[fd[m][k]].owner = m /\ desc[fd[m][k]].kind = k
         /\ desc[fd[m][k]].of = session[m] /\ session[m] \in Clients
         /\ desc[fd[m][k]] # Free
         /\ pc[m] # "opening" => desc[fd[m][k]].ready
         /\ ServerEnd(k, session[m]) # {}
<1> DEFINE d == fd[m][k]
<1>1. /\ Turn[k] <= Called(m) /\ fd[m][k] # NoFd
      /\ fd \in [Managers -> [Kinds -> Fds \cup {NoFd}]]
      /\ session \in [Managers -> Clients \cup {NoClient}]
  BY DEF Holds, SessionInv, FdsOK, TypeOK
<1>2. d \in Fds /\ desc[d].owner = m /\ desc[d].kind = k
  BY <1>1 DEF HeldOK
<1>3. desc[d] # Free
  <2>1. Free.kind \notin Kinds
    BY DEF Free, Kinds
  <2> QED
    BY <1>2, <2>1
<1> HIDE DEF d
<1>4. DescriptorOK(d)
  BY <1>2, <1>3 DEF SessionInv, DescriptorsOK
<1>5. /\ desc[d].of = session[m] /\ session[m] \in Clients
      /\ pc[m] # "opening" => desc[d].ready
  BY <1>1, <1>2, <1>4 DEF DescriptorOK
<1>6. d \in ServerFds(k, session[m])
  BY <1>2, <1>5 DEF ServerFds
<1>7. ServerEnd(k, session[m]) # {}
  BY <1>6 DEF ServerEnd
<1> QED
  BY <1>2, <1>3, <1>5, <1>7 DEF d

LEMMA ClientHolds ==
  ASSUME SessionInv, NEW k \in Kinds, NEW c \in Clients
  PROVE  /\ ClientEnd(k, c) # {} <=> Turn[k] <= Called(c) /\ pc[c] \notin Ended \cup {"remove"}
         /\ Turn[k] <= Called(c) /\ pc[c] \notin Ended \cup {"remove"} => end[c][k] = c
<1>1. \A x \in Clients : end[x][k] = c <=>
        x = c /\ Turn[k] <= Called(c) /\ pc[c] \notin Ended \cup {"remove"}
  BY Constants DEF SessionInv, EndsOK
<1> QED
  BY <1>1 DEF ClientEnd

(* A request that waits for its answer has a manager, which holds the      *)
(* answer pipe open.                                                       *)
LEMMA AnswerComes ==
  ASSUME SessionInv, HeldOK, NEW c \in Clients, NEW m \in Managers,
         Listens(m, c) \/ Asked(m, c) \/ Begun(m, c)
  PROVE  ServerEnd("resp", c) # {}
<1>1. /\ session[m] = c /\ "resp" \in Kinds /\ Turn["resp"] = 1
      /\ \/ pc[m] \in {"ready", "exec", "key"}
         \/ pc[m] = "open" /\ step[m] # 1
         \/ pc[m] = "opening"
  BY DEF Listens, Asked, Begun, Kinds, Turn, Greeted
<1>2. step[m] \in 1 .. 4 /\ m \in Processes
  BY Orders, Constants DEF SessionInv, TypeOK
<1>3. 1 <= Called(m)
  BY <1>1, <1>2 DEF Called
<1>4. Holds(m, "resp")
  BY <1>1, <1>3 DEF Holds
<1> QED
  BY <1>1, <1>4, HeldEnd

LEMMA AnswersMatchHolds ==
  ASSUME SessionInv, AnswersInv
  PROVE  AnswersMatch
<1> SUFFICES ASSUME ~clobbered, NEW c \in Clients, Waiting(c)
             PROVE  /\ outcome[c] \in {<< >>} \cup {<<<<op[c], result>>>> : result \in BOOLEAN}
                    /\ resp[end[c]["resp"]] = outcome[c]
                    /\ up /\ resp[end[c]["resp"]] = << >> => ServerEnd("resp", end[c]["resp"]) # {}
  BY DEF AnswersMatch
<1>1. "resp" \in Kinds /\ Turn["resp"] = 1 /\ pc[c] \notin Ended \cup {"remove"} /\ Called(c) = 3
  BY DEF Kinds, Turn, Waiting, Ended, Called
<1>2. end[c]["resp"] = c
  BY <1>1, ClientHolds
<1>3. Unanswered(c) \/ Answered(c)
  BY DEF AnswersInv
<1>4. resp[c] = outcome[c] /\ outcome[c] \in {<< >>} \cup {<<<<op[c], result>>>> : result \in BOOLEAN}
  BY <1>3 DEF Unanswered, Answered
<1>5. ASSUME up, resp[c] = << >>
      PROVE  ServerEnd("resp", c) # {}
  <2>1. HeldOK /\ StageOK(c)
    BY <1>5 DEF AnswersInv
  <2>2. ~Answered(c)
    BY <1>5 DEF Answered
  <2>3. \E m \in Managers : Asked(m, c) \/ Begun(m, c)
    BY <2>1, <2>2 DEF StageOK
  <2> QED
    BY <2>1, <2>3, AnswerComes
<1> QED
  BY <1>2, <1>4, <1>5

LEMMA AnswersInit == Init => AnswersInv
<1> SUFFICES ASSUME Init
             PROVE  AnswersInv
  OBVIOUS
<1>1. /\ \A c \in Clients : pc[c] = "off" /\ req[c] = << >> /\ resp[c] = << >>
      /\ \A m \in Managers : /\ pc[m] = "idle" /\ Called(m) = 0 /\ from[m] = NoClient
                             /\ reading[m] = NoClient
      /\ \A d \in Fds : desc[d] = Free
      /\ up
  BY Constants DEF Init, Called
<1>2. HeldOK
  <2>1. \A k \in Kinds : ~(Turn[k] <= 0)
    BY Orders
  <2> QED
    BY <1>1, <2>1 DEF HeldOK, Holds
<1>3. WorksOK
  BY <1>1 DEF WorksOK
<1>4. \A c \in Clients : StageOK(c) /\ ~Waiting(c)
  BY <1>1 DEF StageOK, Waiting
<1> QED
  BY <1>1, <1>2, <1>3, <1>4 DEF AnswersInv

-----------------------------------------------------------------------------
(* A client's steps: it opens, it reads, it asks or it leaves.             *)
Goes(c) == Start(c) \/ MakeFifos(c) \/ Connect(c) \/ OpenFifo(c) \/ FifoOpened(c)
Leaves(c) == CloseFifos(c) \/ Exits(c)

LEMMA ClientGoes ==
  ASSUME SessionInv, NEW c \in Clients, Goes(c)
  PROVE  UNCHANGED <<req, resp, outcome, op>>
BY DEF Goes, Start, MakeFifos, Connect, OpenFifo, FifoOpened, data, calls

LEMMA ClientLeaves ==
  ASSUME SessionInv, NEW c \in Clients, Leaves(c)
  PROVE  /\ pc'[c] \in {"remove", "done", "dead", "failed"} /\ req' = req
         /\ \A x \in Clients \ {c} : resp'[x] = resp[x] /\ outcome'[x] = outcome[x]
         /\ \A p \in Processes \ {c} : op'[p] = op[p]
<1>1. /\ pc \in [Processes -> Labels] /\ c \in Processes
      /\ resp \in [Clients -> Seq(Answers)] /\ outcome \in [Clients -> Seq(Answers)]
      /\ op \in [Processes -> Requests \cup {"none"}]
  BY Constants DEF SessionInv, ShapesOK, TypeOK
<1>2. /\ resp' = [resp EXCEPT ![c] = << >>] /\ req' = req
      /\ outcome' = outcome \/ outcome' = [outcome EXCEPT ![c] = << >>]
      /\ op' = op \/ op' = [op EXCEPT ![c] = "none"]
  BY DEF Leaves, CloseFifos, Exits, OpenFails, BrokenPipe, UnlinkFifos, Die, Exit, Close, calls
<1>3. pc'[c] \in {"remove", "done", "dead", "failed"}
  BY <1>1 DEF Leaves, CloseFifos, Exits, OpenFails, BrokenPipe, UnlinkFifos, Die, Exit, Goto
<1> QED
  BY <1>1, <1>2, <1>3

LEMMA ClientReads ==
  ASSUME SessionInv, NEW c \in Clients, ReadResponse(c)
  PROVE  /\ UNCHANGED <<req, outcome, reading, desc>>
         /\ \A x \in Clients \ {c} : resp'[x] = resp[x]
         /\ \A p \in Processes \ {c} : op'[p] = op[p]
         /\ resp[c] # << >> => resp'[c] = Tail(resp[c])
         /\ resp[c] = << >> => resp'[c] = << >> /\ ServerEnd("resp", c) = {}
         /\ \/ pc[c] = "hello" /\ pc'[c] = "open"
            \/ pc[c] = "await" /\ pc'[c] = "ready"
            \/ pc[c] = "bye" /\ pc'[c] = "close"
<1>1. /\ pc \in [Processes -> Labels] /\ c \in Processes
      /\ resp \in [Clients -> Seq(Answers)]
      /\ op \in [Processes -> Requests \cup {"none"}]
      /\ pc[c] \in {"hello", "await", "bye"}
  BY Constants DEF SessionInv, ShapesOK, TypeOK, ReadResponse
<1>2. end[c]["resp"] = c
  <2>1. "resp" \in Kinds /\ Turn["resp"] = 1 /\ pc[c] \notin Ended \cup {"remove"}
    BY <1>1 DEF Kinds, Turn, Ended
  <2>2. pc[c] = "hello" => step[c] = 2
    BY <1>1 DEF SessionInv, ShapesOK
  <2>3. 1 <= Called(c)
    BY <1>1, <2>2 DEF Called
  <2> QED
    BY <2>1, <2>3, ClientHolds
<1>3. /\ UNCHANGED <<req, outcome, reading, desc>>
      /\ op' = [op EXCEPT ![c] = "none"]
      /\ \/ resp[c] # << >> /\ resp' = [resp EXCEPT ![c] = Tail(resp[c])]
         \/ resp[c] = << >> /\ ServerEnd("resp", c) = {} /\ resp' = resp
      /\ \/ pc[c] = "hello" /\ pc'[c] = "open"
         \/ pc[c] = "await" /\ pc'[c] = "ready"
         \/ pc[c] = "bye" /\ pc'[c] = "close"
  BY <1>1, <1>2 DEF ReadResponse, Goto, ends
<1> QED
  BY <1>1, <1>3

LEMMA OpcodeThenKey ==
  ASSUME NEW S, NEW o \in S, NEW key \in S
  PROVE  <<o>> \o <<key>> = <<o, key>>
<1> DEFINE s == <<o>> \o <<key>>
           t == <<o, key>>
<1>1. s \in Seq(S) /\ t \in Seq(S) /\ Len(s) = 2 /\ Len(t) = 2
  OBVIOUS
<1>2. s[1] = o /\ s[2] = key /\ t[1] = o /\ t[2] = key
  OBVIOUS
<1>3. \A i \in 1 .. 2 : i = 1 \/ i = 2
  OBVIOUS
<1> HIDE DEF s, t
<1>4. \A i \in 1 .. Len(s) : s[i] = t[i]
  BY <1>1, <1>2, <1>3
<1>5. s = t
  BY <1>1, <1>4, SeqEqual
<1> QED
  BY <1>5 DEF s, t

LEMMA ClientAsks ==
  ASSUME SessionInv, NEW c \in Clients, Asks(c)
  PROVE  /\ UNCHANGED <<resp, desc, reading>> /\ pc[c] = "ready"
         /\ \A x \in Clients \ {c} : req'[x] = req[x] /\ outcome'[x] = outcome[x]
         /\ \A p \in Processes \ {c} : op'[p] = op[p]
         /\ outcome'[c] = << >> /\ ServerEnd("req", c) # {}
         /\ op'[c] \in Requests /\ pc'[c] \in {"await", "bye"}
         /\ op'[c] = "disconnect" <=> pc'[c] = "bye"
         /\ req[c] = << >> =>
              \/ req'[c] = <<op'[c]>>
              \/ op'[c] # "disconnect" /\ \E key \in Keys : req'[c] = <<op'[c], key>>
<1>1. /\ pc \in [Processes -> Labels] /\ c \in Processes
      /\ outcome \in [Clients -> Seq(Answers)]
      /\ op \in [Processes -> Requests \cup {"none"}]
      /\ req \in [Clients -> Seq(Requests \cup Keys)]
  BY Constants DEF SessionInv, ShapesOK, TypeOK
<1>2. \E o \in Requests, key \in Keys \cup {NoKey} :
        Request(c, o, key) /\ (key = NoKey \/ (o # "disconnect" /\ key \in Keys))
  <2>1. CASE AskForKey(c)
    <3>1. Opcodes \subseteq Requests \ {"disconnect"}
      BY SessionAssumption DEF Requests
    <3> QED
      BY <2>1, <3>1 DEF AskForKey
  <2>2. CASE Disconnect(c)
    BY <2>2 DEF Disconnect, Requests
  <2> QED
    BY <2>1, <2>2 DEF Asks
<1>4. PICK o \in Requests, key \in Keys \cup {NoKey} :
        Request(c, o, key) /\ (key = NoKey \/ (o # "disconnect" /\ key \in Keys))
  BY <1>2
<1>5. end[c]["req"] = c /\ pc[c] = "ready"
  <2>1. pc[c] = "ready"
    BY <1>4 DEF Request
  <2>2. "req" \in Kinds /\ Turn["req"] = 2 /\ pc[c] \notin Ended \cup {"remove"} /\ Called(c) = 3
    BY <2>1 DEF Kinds, Turn, Ended, Called
  <2> QED
    BY <2>1, <2>2, ClientHolds
<1>6. /\ UNCHANGED <<resp, desc, reading>>
      /\ ServerEnd("req", c) # {}
      /\ op' = [op EXCEPT ![c] = o] /\ outcome' = [outcome EXCEPT ![c] = << >>]
      /\ pc' = [pc EXCEPT ![c] = IF o = "disconnect" THEN "bye" ELSE "await"]
  BY <1>4, <1>5 DEF Request, Goto, ends
<1> DEFINE tail == IF key = NoKey THEN << >> ELSE <<key>>
<1>7. req' = [req EXCEPT ![c] = req[c] \o <<o>> \o tail]
  BY <1>4, <1>5 DEF Request
<1>8. req[c] = << >> => \/ req'[c] = <<o>>
                        \/ o # "disconnect" /\ \E k \in Keys : req'[c] = <<o, k>>
  <2> SUFFICES ASSUME req[c] = << >>
               PROVE  \/ req'[c] = <<o>>
                      \/ o # "disconnect" /\ \E k \in Keys : req'[c] = <<o, k>>
    OBVIOUS
  <2>1. req'[c] = (<< >> \o <<o>>) \o tail
    BY <1>1, <1>7
  <2>2. CASE key = NoKey
    <3>1. tail = << >>
      BY <2>2
    <3>2. (<< >> \o <<o>>) \o << >> = <<o>>
      OBVIOUS
    <3> HIDE DEF tail
    <3> QED
      BY <2>1, <3>1, <3>2
  <2>3. CASE key # NoKey
    <3>1. tail = <<key>> /\ key \in Keys /\ o # "disconnect"
      BY <1>4, <2>3
    <3>2. (<< >> \o <<o>>) \o <<key>> = <<o, key>>
      <4>1. << >> \o <<o>> = <<o>>
        OBVIOUS
      <4>2. <<o>> \o <<key>> = <<o, key>>
        <5> DEFINE K == Requests \cup Keys
        <5>1. o \in K /\ key \in K
          BY <3>1
        <5> HIDE DEF K
        <5> QED
          BY <5>1, OpcodeThenKey
      <4> QED
        BY <4>1, <4>2
    <3> HIDE DEF tail
    <3> QED
      BY <2>1, <3>1, <3>2
  <2> QED
    BY <2>2, <2>3
<1>9. op'[c] = o /\ outcome'[c] = << >> /\ pc'[c] = IF o = "disconnect" THEN "bye" ELSE "await"
  BY <1>1, <1>6
<1>10. \A x \in Clients \ {c} : req'[x] = req[x] /\ outcome'[x] = outcome[x]
  BY <1>1, <1>6, <1>7
<1>11. \A p \in Processes \ {c} : op'[p] = op[p]
  BY <1>1, <1>6
<1> QED
  BY <1>5, <1>6, <1>8, <1>9, <1>10, <1>11

LEMMA ClientMovesAre ==
  ASSUME SessionInv, NEW c \in Clients, ClientMoves(c)
  PROVE  Goes(c) \/ ReadResponse(c) \/ Asks(c) \/ Leaves(c)
BY DEF ClientMoves, ClientStep, Goes, Asks, Leaves, Exits

(* The steps of a client leave the others' data alone.                     *)
LEMMA ClientKeepsOthers ==
  ASSUME SessionInv, NEW c \in Clients, ClientMoves(c)
  PROVE  /\ \A x \in Clients \ {c} : /\ req'[x] = req[x] /\ resp'[x] = resp[x]
                                     /\ outcome'[x] = outcome[x] /\ op'[x] = op[x]
         /\ \A m \in Managers : op'[m] = op[m]
<1>1. \A x \in Clients \ {c} : x \in Processes \ {c}
  BY DEF Processes
<1>2. \A m \in Managers : m \in Processes \ {c}
  BY Constants
<1> QED
  BY <1>1, <1>2, ClientMovesAre, ClientGoes, ClientLeaves, ClientReads, ClientAsks

LEMMA ClientWorks ==
  ASSUME SessionInv, SessionInv', UNCHANGED IdOf, NEW c \in Clients, ClientMoves(c), WorksOK
  PROVE  WorksOK'
<1>1. /\ UNCHANGED <<session, fd, desc, reading, from>>
      /\ \A m \in Managers : pc'[m] = pc[m] /\ step'[m] = step[m]
      /\ \A x \in Clients \ {c} : pc'[x] = pc[x] /\ step'[x] = step[x]
  BY ClientMovesOne, Constants
<1>2. \A x \in Clients : Called(x) \in 0 .. 3 /\ Called(x)' \in 0 .. 3 /\ Called(x) <= Called(x)'
  <2> SUFFICES ASSUME NEW x \in Clients
               PROVE  Called(x) \in 0 .. 3 /\ Called(x)' \in 0 .. 3 /\ Called(x) <= Called(x)'
    OBVIOUS
  <2>1. Called(x) \in 0 .. 3
    BY CalledBounds, Constants
  <2>2. CASE x # c
    BY <1>1, <2>1, <2>2 DEF Called
  <2>3. CASE x = c /\ OpenFifo(c)
    BY <2>1, <2>3, ClientCalled
  <2>4. CASE x = c /\ ~OpenFifo(c)
    <3>1. CASE pc'[c] \in {"dead", "failed"}
      <4>1. Called(c)' = 3
        BY <3>1 DEF Called
      <4> QED
        BY <2>1, <2>4, <4>1
    <3>2. CASE pc'[c] \notin {"dead", "failed"}
      BY <2>1, <2>4, <3>2, ClientCalled
    <3> QED
      BY <3>1, <3>2
  <2> QED
    BY <2>2, <2>3, <2>4
<1>3. ASSUME NEW m \in Managers, pc[m] # "idle"
      PROVE  Reached(m)' <= Called(session[m])'
  <2>1. /\ session[m] \in Clients /\ Called(m)' = Called(m) /\ Called(m) \in 0 .. 3
        /\ step[m] \in 1 .. 4 /\ (pc[m] = "opening" => Called(m) = step[m])
        /\ Reached(m) <= Called(session[m]) /\ Reached(m) \in 0 .. 3
    <3>1. session[m] \in Clients /\ step[m] \in 1 .. 4
      BY <1>3, Orders DEF SessionInv, TypeOK
    <3>2. Called(m)' = Called(m) /\ Called(m) \in 0 .. 3
      BY ClientMovesNoFd, CalledBounds, Constants
    <3>3. pc[m] = "opening" => Called(m) = step[m]
      BY DEF Called
    <3>4. Reached(m) <= Called(session[m]) /\ Reached(m) \in 0 .. 3
      BY <1>3, <3>1, <3>2, <3>3 DEF WorksOK, Reached
    <3> QED
      BY <3>1, <3>2, <3>3, <3>4
  <2>2. PICK x \in Clients : x = session[m]
    BY <2>1
  <2>3. Called(session[m])' = Called(x)'
    BY <1>1, <2>2 DEF Called
  <2>4. CASE m \in met' /\ m \notin met /\ pc[m] = "opening"
    <3>1. OpenFifo(c)
      BY <2>4, ClientMet
    <3> DEFINE kind  == OpenOrder[step[c]]
               maker == node[PathId(c)][kind]
               W     == {desc[d].owner : d \in {d \in ServerFds(kind, maker) : ~desc[d].ready}}
    <3>2. /\ maker # NoClient /\ pc[c] = "open"
          /\ met' = met \cup W \cup (IF ServerEnd(kind, maker) # {} THEN {c} ELSE {})
      BY <3>1 DEF OpenFifo
    <3>3. Called(c)' = step[c] /\ step[c] \in 1 .. 3
      BY <3>1, ClientCalled
    <3>4. kind \in Kinds /\ Turn[kind] = step[c]
      BY <3>3, Orders
    <3>5. maker = c
      <4>1. Around(c) /\ PathId(c) = IdOf[c] /\ pc[c] \notin {"mkfifo", "done"}
        BY <3>2 DEF Around, Ended, PathId
      <4>2. node[IdOf[c]][kind] \in {c, NoClient}
        <5> HIDE DEF kind
        <5> QED
          BY <3>4, <4>1 DEF SessionInv, PathsOK
      <4> QED
        BY <3>2, <4>1, <4>2
    <3>6. m \in W
      <4> HIDE DEF W, maker, kind
      <4> QED
        BY <2>4, <3>2, Constants
    <3>7. PICK d \in ServerFds(kind, maker) : m = desc[d].owner /\ ~desc[d].ready
      BY <3>6
    <3>8. d \in Fds /\ desc[d].of = c /\ desc[d].kind = kind /\ desc[d] # Free
      <4>1. d \in Fds /\ desc[d].of = c /\ desc[d].kind = kind
        BY <3>5, <3>7 DEF ServerFds
      <4>2. Free.kind \notin Kinds
        BY DEF Free, Kinds
      <4> HIDE DEF kind
      <4> QED
        BY <3>4, <4>1, <4>2
    <3>9. step[m] = Turn[kind] /\ session[m] = c
      <4>1. Turn[desc[d].kind] = step[m]
        BY <3>7, <3>8, NotReadyWaits
      <4>2. desc[d].of = session[m]
        BY <3>7, <3>8 DEF SessionInv, DescriptorsOK, DescriptorOK
      <4> QED
        BY <3>8, <4>1, <4>2
    <3>10. Reached(m)' = step[m]
      BY <1>1, <2>1, <2>4 DEF Reached
    <3> QED
      BY <1>2, <2>1, <2>2, <2>3, <3>3, <3>4, <3>9, <3>10
  <2>5. CASE ~(m \in met' /\ m \notin met /\ pc[m] = "opening")
    <3>1. Reached(m)' <= Reached(m)
      BY <1>1, <2>1, <2>5 DEF Reached
    <3>2. Reached(m)' \in 0 .. 3
      BY <1>1, <2>1 DEF Reached
    <3> QED
      BY <1>2, <2>1, <2>2, <2>3, <3>1, <3>2
  <2> QED
    BY <2>4, <2>5
<1>4. \A m \in Managers : /\ reading'[m] \in {NoClient, session'[m]}
                          /\ from'[m] # NoClient => from'[m] = session'[m] /\ pc'[m] \in {"ready", "key", "exec"}
  BY <1>1 DEF WorksOK
<1> QED
  BY <1>1, <1>3, <1>4 DEF WorksOK

LEMMA ClientHeld ==
  ASSUME SessionInv, NEW c \in Clients, ClientMoves(c), HeldOK
  PROVE  HeldOK'
<1>1. /\ UNCHANGED <<fd, desc>>
      /\ \A m \in Managers : pc'[m] = pc[m] /\ step'[m] = step[m] /\ Called(m)' = Called(m)
  BY ClientMovesOne, ClientMovesNoFd, Constants
<1>2. \A m \in Managers, k \in Kinds : Holds(m, k)' => Holds(m, k)
  BY <1>1 DEF Holds
<1> QED
  BY <1>1, <1>2 DEF HeldOK

(* What is so at each point of a session stays so for the other clients.   *)
LEMMA ClientOtherStages ==
  ASSUME SessionInv, NEW c \in Clients, ClientMoves(c), NEW x \in Clients \ {c}, StageOK(x)
  PROVE  StageOK(x)'
<1>1. /\ UNCHANGED <<session, from>> /\ x \in Clients
      /\ \A m \in Managers : pc'[m] = pc[m] /\ step'[m] = step[m] /\ op'[m] = op[m]
      /\ pc'[x] = pc[x] /\ step'[x] = step[x]
      /\ req'[x] = req[x] /\ resp'[x] = resp[x] /\ outcome'[x] = outcome[x] /\ op'[x] = op[x]
  BY ClientMovesOne, ClientKeepsOthers, Constants
<1>2. (Queued(x)' <=> Queued(x)) /\ (Served(x)' <=> Served(x))
  BY ClientRegisters
<1>3. \A m \in Managers : /\ Greeted(m)' <=> Greeted(m)
                          /\ Listens(m, x)' <=> Listens(m, x)
                          /\ Begun(m, x)' <=> Begun(m, x)
  BY <1>1 DEF Greeted, Listens, Begun
<1>4. \A m \in Managers : Asked(m, x)' <=> Asked(m, x)
  BY <1>1, <1>3 DEF Asked
<1>5. /\ Unanswered(x)' <=> Unanswered(x)
      /\ Answered(x)' <=> Answered(x)
      /\ Waiting(x)' <=> Waiting(x)
  BY <1>1 DEF Unanswered, Answered, Waiting
<1>6. (\E m \in Managers : session'[m] = x /\ Greeted(m)') <=> (\E m \in Managers : session[m] = x /\ Greeted(m))
  BY <1>1, <1>3
<1>7. (\E m \in Managers : Listens(m, x)') <=> (\E m \in Managers : Listens(m, x))
  BY <1>3
<1>8. (\E m \in Managers : Asked(m, x)' \/ Begun(m, x)') <=> (\E m \in Managers : Asked(m, x) \/ Begun(m, x))
  BY <1>3, <1>4
<1>9. (\A m \in Managers : session'[m] = x => pc'[m] \in {"close", "remove"})
        <=> (\A m \in Managers : session[m] = x => pc[m] \in {"close", "remove"})
  BY <1>1
<1>10. /\ pc[x] \in {"off", "mkfifo", "connect"} \/ (pc[x] = "open" /\ step[x] = 1) =>
            req'[x] = << >> /\ resp'[x] = << >>
       /\ pc[x] = "hello" \/ (pc[x] = "opening" /\ step[x] = 1) =>
            /\ req'[x] = << >>
            /\ resp'[x] = IF \E m \in Managers : session'[m] = x /\ Greeted(m)'
                          THEN <<<<"connect", TRUE>>>> ELSE << >>
       /\ pc[x] = "hello" \/ (pc[x] \in {"open", "opening"} /\ step[x] = 1) => Queued(x)' \/ Served(x)'
       /\ pc[x] = "ready" \/ (pc[x] \in {"open", "opening"} /\ step[x] > 1) =>
            req'[x] = << >> /\ resp'[x] = << >> /\ \E m \in Managers : Listens(m, x)'
  BY <1>1, <1>2, <1>6, <1>7 DEF StageOK
<1>11. /\ Waiting(x)' => op'[x] \in Requests /\ (op'[x] = "disconnect" <=> pc'[x] = "bye")
       /\ Waiting(x)' =>
            \/ Unanswered(x)' /\ \E m \in Managers : Asked(m, x)' \/ Begun(m, x)'
            \/ /\ Answered(x)'
               /\ pc[x] = "await" => req'[x] = << >> /\ \E m \in Managers : Listens(m, x)'
               /\ pc[x] = "bye" => \A m \in Managers : session'[m] = x => pc'[m] \in {"close", "remove"}
  BY <1>1, <1>5, <1>7, <1>8, <1>9 DEF StageOK
<1> QED
  BY <1>1, <1>10, <1>11 DEF StageOK

(* A manager that has greeted its client has opened the answer pipe.       *)
LEMMA GreetedReached ==
  ASSUME SessionInv, NEW m \in Managers, Greeted(m)
  PROVE  Reached(m) >= 1 /\ Reached(m) \in 0 .. 3
<1>1. /\ pc[m] \in {"open", "opening", "ready", "key", "exec", "close", "remove"}
      /\ step[m] \in 1 .. 4
      /\ pc[m] \in {"open", "opening"} => step[m] # 1 /\ step[m] <= 3
  <2>1. step[m] \in 1 .. 4 /\ pc[m] \in {"idle", "open", "opening", "hello", "ready", "key",
                                         "exec", "close", "remove"}
    BY Orders DEF SessionInv, TypeOK
  <2>2. pc[m] \in {"open", "opening"} => step[m] <= 3
    BY Constants DEF SessionInv, ShapesOK
  <2> QED
    BY <2>1, <2>2 DEF Greeted
<1> QED
  BY <1>1 DEF Reached, Called

(* The stages of a client that moves.                                      *)
LEMMA ClientOwnStage ==
  ASSUME SessionInv, NEW c \in Clients, ClientMoves(c), HeldOK, WorksOK, StageOK(c)
  PROVE  StageOK(c)'
<1>1. /\ UNCHANGED <<session, from>>
      /\ \A m \in Managers : pc'[m] = pc[m] /\ step'[m] = step[m] /\ op'[m] = op[m]
      /\ c \in Processes /\ step[c] \in 1 .. 4
      /\ step'[c] \in 1 .. 4 /\ Managers \cap Clients = {}
  <2>1. c \in Processes /\ Managers \cap Clients = {} /\ Len(CloseOrder) = 4
    BY Constants, Orders
  <2>2. \A m \in Managers : m \in Processes \ {c}
    BY Constants
  <2>3. step[c] \in 1 .. 4
    BY <2>1 DEF SessionInv, TypeOK
  <2> QED
    BY <2>1, <2>2, <2>3, ClientMovesOne, ClientKeepsOthers
<1>2. /\ ~Connect(c) => (Queued(c)' <=> Queued(c))
      /\ Connect(c) => Queued(c)'
      /\ Served(c)' <=> Served(c)
  BY ClientRegisters
<1>3. \A m \in Managers : (Greeted(m)' <=> Greeted(m)) /\ (Listens(m, c)' <=> Listens(m, c))
  BY <1>1 DEF Greeted, Listens
<1>4. /\ (\E m \in Managers : session'[m] = c /\ Greeted(m)') <=> (\E m \in Managers : session[m] = c /\ Greeted(m))
      /\ (\E m \in Managers : Listens(m, c)') <=> (\E m \in Managers : Listens(m, c))
  BY <1>1, <1>3
<1>5. \A m \in Managers : session[m] = c => pc[m] # "idle" /\ Reached(m) <= Called(c) /\ c # NoClient
  BY Constants DEF SessionInv, TypeOK, WorksOK
<1>6. /\ pc[c] \in {"off", "mkfifo", "connect", "hello", "ready", "await", "bye"} =>
           IF pc[c] = "hello" THEN step[c] = 2 ELSE step[c] = 1
      /\ pc[c] \in {"open", "opening"} => step[c] <= 3
  BY <1>1 DEF SessionInv, ShapesOK
<1>7. ASSUME pc'[c] \in {"close", "remove", "done", "dead", "failed"}
      PROVE  StageOK(c)'
  BY <1>7 DEF StageOK, Waiting
<1>8. CASE Goes(c)
  <2>1. /\ req'[c] = req[c] /\ resp'[c] = resp[c]
        /\ pc[c] \in {"off", "mkfifo", "connect", "open", "opening"}
    BY <1>8, ClientGoes DEF Goes, Start, MakeFifos, Connect, OpenFifo, FifoOpened, Opened
  <2>2. CASE pc'[c] \in {"mkfifo", "connect"}
    <3>1. pc[c] \in {"off", "mkfifo"}
      BY <2>1, <2>2, ClientControl
    <3> QED
      BY <2>1, <2>2, <3>1 DEF StageOK, Waiting
  <2>3. CASE Connect(c) /\ pc[c] = "connect" /\ pc'[c] = "open"
    <3>1. step'[c] = 1
      BY <1>6, <2>3, ClientControl
    <3> QED
      BY <1>2, <2>1, <2>3, <3>1 DEF StageOK, Waiting
  <2>4. CASE pc[c] = "open" /\ pc'[c] = "opening" /\ step'[c] = step[c]
    <3>1. CASE step[c] = 1
      <4>1. \A m \in Managers : ~(session[m] = c /\ Greeted(m))
        <5> SUFFICES ASSUME NEW m \in Managers, session[m] = c, Greeted(m)
                     PROVE  FALSE
          OBVIOUS
        <5>1. Called(c) = 0
          BY <2>4, <3>1 DEF Called
        <5> QED
          BY <1>5, <5>1, GreetedReached
      <4>2. req[c] = << >> /\ resp[c] = << >> /\ (Queued(c) \/ Served(c))
        BY <2>4, <3>1 DEF StageOK
      <4>3. ~Connect(c)
        BY <2>4 DEF Connect
      <4> QED
        BY <1>2, <1>4, <2>1, <2>4, <3>1, <4>1, <4>2, <4>3 DEF StageOK, Waiting
    <3>2. CASE step[c] > 1
      BY <1>4, <2>1, <2>4, <3>2 DEF StageOK, Waiting
    <3> QED
      BY <1>1, <3>1, <3>2
  <2>5. CASE pc[c] = "opening" /\ pc'[c] \in {"hello", "open", "ready"}
    <3>0. ~Connect(c)
      BY <2>5 DEF Connect
    <3>1. \/ step[c] = 1 /\ pc'[c] = "hello" /\ step'[c] = 2
          \/ step[c] = 2 /\ pc'[c] = "open" /\ step'[c] = 3
          \/ step[c] = 3 /\ pc'[c] = "ready" /\ step'[c] = 1
      BY <2>5, ClientControl
    <3>2. CASE step[c] = 1
      BY <1>2, <1>4, <2>1, <2>5, <3>0, <3>1, <3>2 DEF StageOK, Waiting
    <3>3. CASE step[c] \in {2, 3}
      BY <1>4, <2>1, <2>5, <3>1, <3>3 DEF StageOK, Waiting
    <3> QED
      BY <3>1, <3>2, <3>3
  <2> QED
    BY <1>7, <2>1, <2>2, <2>3, <2>4, <2>5, ClientControl
<1>9. CASE ReadResponse(c)
  <2>1. /\ req'[c] = req[c] /\ ~Connect(c)
        /\ resp[c] # << >> => resp'[c] = Tail(resp[c])
        /\ resp[c] = << >> => resp'[c] = << >> /\ ServerEnd("resp", c) = {}
    BY <1>9, ClientReads DEF Connect
  <2>2. CASE pc[c] = "hello" /\ pc'[c] = "open"
    <3>1. step[c] = 2 /\ step'[c] = 2 /\ Called(c) = 1
      <4>1. step'[c] = step[c]
        BY <2>2, ClientControl
      <4> QED
        BY <1>6, <2>2, <4>1 DEF Called
    <3>2. PICK m \in Managers : session[m] = c
      <4>1. Past(c, 1)
        BY <2>2, <3>1 DEF SessionInv, MeetingsOK
      <4>2. ~Queued(c)
        BY <4>1 DEF Past
      <4> QED
        BY <2>2, <4>2 DEF StageOK, Served
    <3>3. Called(m) >= 1 /\ Called(m) \in 0 .. 3
      <4>1. Past(c, 1)
        BY <2>2, <3>1 DEF SessionInv, MeetingsOK
      <4> QED
        BY <3>2, <4>1, CalledBounds, Constants DEF Past
    <3>4. pc[m] \in {"open", "opening", "hello"} /\ Reached(m) <= 1
      <4>1. Reached(m) <= 1 /\ pc[m] # "idle"
        BY <1>5, <3>1, <3>2
      <4>2. pc[m] \in {"ready", "key", "exec", "close", "remove"} => Reached(m) = 3
        BY DEF Reached, Called
      <4>3. pc[m] \in {"idle", "open", "opening", "hello", "ready", "key", "exec", "close", "remove"}
        BY DEF SessionInv, TypeOK
      <4> QED
        BY <4>1, <4>2, <4>3
    <3>5. Greeted(m)
      <4> SUFFICES ASSUME ~Greeted(m)
                   PROVE  FALSE
        OBVIOUS
      <4>1. \A n \in Managers : session[n] = c => n = m
        BY <3>2, <1>5 DEF SessionInv, RegisteredOK
      <4>2. resp[c] = << >>
        BY <2>2, <4>1 DEF StageOK
      <4>3. ServerEnd("resp", c) = {}
        BY <2>1, <4>2
      <4>4. "resp" \in Kinds /\ Turn["resp"] = 1
        BY DEF Kinds, Turn
      <4>5. Holds(m, "resp")
        BY <3>3, <3>4, <4>4 DEF Holds
      <4> QED
        BY <3>2, <4>3, <4>4, <4>5, HeldEnd
    <3>6. from[m] = NoClient
      BY <3>4 DEF WorksOK
    <3>7. Listens(m, c)
      <4>1. pc[m] \in {"open", "opening"}
        BY <3>4, <3>5 DEF Greeted
      <4> QED
        BY <3>2, <3>5, <3>6, <4>1 DEF Listens
    <3>8. req[c] = << >> /\ resp[c] = <<<<"connect", TRUE>>>>
      BY <2>2, <3>2, <3>5 DEF StageOK
    <3>9. resp'[c] = << >>
      <4>1. resp[c] # << >> /\ Tail(resp[c]) = << >>
        BY <3>8
      <4> QED
        BY <2>1, <4>1
    <3> QED
      BY <1>4, <2>1, <2>2, <3>1, <3>7, <3>8, <3>9 DEF StageOK, Waiting
  <2>3. CASE pc[c] = "await" /\ pc'[c] = "ready"
    <3>1. ~Unanswered(c)
      <4> SUFFICES ASSUME Unanswered(c)
                   PROVE  FALSE
        OBVIOUS
      <4>1. resp[c] = << >> /\ ~Answered(c)
        BY DEF Unanswered, Answered
      <4>2. PICK m \in Managers : Asked(m, c) \/ Begun(m, c)
        BY <2>3, <4>1 DEF StageOK, Waiting
      <4> QED
        BY <2>1, <4>1, <4>2, AnswerComes
    <3>2. /\ Answered(c) /\ req[c] = << >> /\ \E m \in Managers : Listens(m, c)
      BY <2>3, <3>1 DEF StageOK, Waiting
    <3>3. resp'[c] = << >>
      <4>1. \E a : resp[c] = <<a>>
        BY <3>2 DEF Answered
      <4>2. resp[c] # << >> /\ Tail(resp[c]) = << >>
        BY <4>1
      <4> QED
        BY <2>1, <4>2
    <3> QED
      BY <1>4, <2>1, <2>3, <3>2, <3>3 DEF StageOK, Waiting
  <2>4. CASE pc[c] = "bye" /\ pc'[c] = "close"
    BY <1>7, <2>4
  <2> QED
    BY <1>9, <2>2, <2>3, <2>4, ClientReads
<1>10. CASE Asks(c)
  <2>1. PICK m \in Managers : Listens(m, c)
    BY <1>10, ClientAsks DEF StageOK
  <2>2. req[c] = << >> /\ resp[c] = << >>
    BY <1>10, ClientAsks DEF StageOK
  <2>3. /\ resp'[c] = << >> /\ outcome'[c] = << >> /\ op'[c] \in Requests
        /\ pc'[c] \in {"await", "bye"}
        /\ op'[c] = "disconnect" <=> pc'[c] = "bye"
        /\ \/ req'[c] = <<op'[c]>>
           \/ op'[c] # "disconnect" /\ \E key \in Keys : req'[c] = <<op'[c], key>>
    BY <1>10, <2>2, ClientAsks
  <2>4. Asked(m, c)'
    BY <1>3, <2>1, <2>3 DEF Asked
  <2>5. Unanswered(c)'
    BY <2>3 DEF Unanswered
  <2> QED
    BY <2>3, <2>4, <2>5 DEF StageOK, Waiting
<1>11. CASE Leaves(c)
  BY <1>7, <1>11, ClientLeaves
<1> QED
  BY <1>8, <1>9, <1>10, <1>11, ClientMovesAre

LEMMA ClientAnswers ==
  ASSUME SessionInv, SessionInv', UNCHANGED IdOf, NEW c \in Clients, ClientMoves(c), AnswersInv
  PROVE  AnswersInv'
<1>1. UNCHANGED <<desc, reading, up, clobbered>>
  BY ClientMovesOne
<1>2. ASSUME up, ~clobbered
      PROVE  HeldOK' /\ WorksOK' /\ \A x \in Clients : StageOK(x)'
  <2>1. HeldOK /\ WorksOK /\ \A x \in Clients : StageOK(x)
    BY <1>2 DEF AnswersInv
  <2>2. \A x \in Clients \ {c} : StageOK(x)'
    BY <2>1, ClientOtherStages
  <2>3. StageOK(c)'
    BY <2>1, ClientOwnStage
  <2>4. HeldOK' /\ WorksOK'
    BY <2>1, ClientHeld, ClientWorks
  <2> QED
    BY <2>2, <2>3, <2>4
<1>3. ASSUME ~up, ~clobbered, NEW x \in Clients, Waiting(x)'
      PROVE  Unanswered(x)' \/ Answered(x)'
  <2>1. (\A d \in Fds : desc[d] = Free) /\ \A m \in Managers : reading[m] = NoClient
    BY <1>3 DEF AnswersInv
  <2>2. CASE x # c
    <3>1. /\ pc'[x] = pc[x] /\ resp'[x] = resp[x] /\ outcome'[x] = outcome[x] /\ op'[x] = op[x]
      BY <2>2, ClientMovesOne, ClientKeepsOthers, Constants
    <3>2. Waiting(x)
      BY <1>3, <3>1 DEF Waiting
    <3>3. Unanswered(x) \/ Answered(x)
      BY <1>3, <3>2 DEF AnswersInv
    <3> QED
      BY <3>1, <3>3 DEF Unanswered, Answered
  <2>3. CASE x = c
    <3>1. Asks(c)
      <4>1. pc'[c] \in {"await", "bye"}
        BY <1>3, <2>3 DEF Waiting
      <4>2. pc[c] = "ready"
        BY <4>1, ClientControl
      <4> QED
        BY <4>1, <4>2, ClientMovesAre, ClientLeaves DEF Goes, Start, MakeFifos, Connect, OpenFifo,
           FifoOpened, Opened, ReadResponse
    <3>2. ServerEnd("req", c) # {}
      BY <3>1, ClientAsks
    <3>3. ServerFds("req", c) = {}
      <4>1. Free.kind # "req"
        BY DEF Free
      <4> QED
        BY <2>1, <4>1 DEF ServerFds
    <3>4. {m \in Managers : reading[m] = c} = {}
      BY <2>1, Constants
    <3> QED
      BY <3>2, <3>3, <3>4 DEF ServerEnd
  <2> QED
    BY <2>2, <2>3
<1>4. ASSUME up, ~clobbered, NEW x \in Clients, Waiting(x)'
      PROVE  Unanswered(x)' \/ Answered(x)'
  <2>1. StageOK(x)'
    BY <1>2, <1>4
  <2> QED
    BY <1>4, <2>1 DEF StageOK
<1> QED
  BY <1>1, <1>2, <1>3, <1>4 DEF AnswersInv

-----------------------------------------------------------------------------
(* The steps of a manager.  It reads and writes its own client's FIFOs.    *)
LEMMA ManagerReadsOwn ==
  ASSUME SessionInv, NEW m \in Managers, CallRead(m), HeldOK
  PROVE  /\ reading' = [reading EXCEPT ![m] = session[m]]
         /\ UNCHANGED <<pc, step, op, req, resp, from, outcome, session, queue, desc, fd, met>>
<1>1. pc[m] \in {"ready", "key"}
  BY DEF CallRead, At
<1>2. "req" \in Kinds /\ Turn["req"] = 2
  BY DEF Kinds, Turn
<1>3. Holds(m, "req")
  BY <1>1, <1>2 DEF Holds, Called
<1> DEFINE d == desc[fd[m]["req"]]
<1>4. d.ready /\ d.kind = "req" /\ d.of = session[m]
  BY <1>1, <1>2, <1>3, HeldEnd
<1>5. reading' = [reading EXCEPT ![m] = d.of] /\ UNCHANGED <<control, op>>
  <2> HIDE DEF NothingRead
  <2> QED
    BY <1>4 DEF CallRead
<1> QED
  BY <1>4, <1>5 DEF CallRead, control, registration, data

LEMMA ManagerWritesOwn ==
  ASSUME SessionInv, NEW m \in Managers, NEW answer, WriteAnswer(m, answer), HeldOK,
         pc[m] \in {"hello", "exec"}
  PROVE  /\ session[m] \in Clients
         /\ \A x \in Clients : x # session[m] => resp'[x] = resp[x]
         /\ ClientEnd("resp", session[m]) # {} =>
              resp'[session[m]] = Append(resp[session[m]], answer)
<1>1. "resp" \in Kinds /\ Turn["resp"] = 1
  BY DEF Kinds, Turn
<1>2. Holds(m, "resp")
  <2>1. pc[m] = "hello" => step[m] = 2
    BY Constants DEF SessionInv, ShapesOK
  <2>2. 1 <= Called(m)
    BY <2>1 DEF Called
  <2> QED
    BY <1>1, <2>2 DEF Holds
<1> DEFINE d == desc[fd[m]["resp"]]
<1>3. d.ready /\ d.kind = "resp" /\ d.of = session[m] /\ session[m] \in Clients
  BY <1>1, <1>2, HeldEnd
<1>4. resp' = IF ClientEnd("resp", session[m]) # {}
              THEN [resp EXCEPT ![session[m]] = Append(resp[session[m]], answer)] ELSE resp
  <2>1. resp' = IF d.ready /\ d.kind = "resp" /\ ClientEnd("resp", d.of) # {}
                THEN [resp EXCEPT ![d.of] = Append(resp[d.of], answer)] ELSE resp
    BY DEF WriteAnswer
  <2> HIDE DEF d
  <2> QED
    BY <1>3, <2>1
<1>5. DOMAIN resp = Clients
  BY DEF SessionInv, TypeOK
<1> QED
  BY <1>3, <1>4, <1>5

(* A manager takes no descriptor from another, but by closing it.          *)
LEMMA DescriptorFields ==
  ASSUME SessionInv, NEW m \in Managers, ManagerStep(m), up', NEW d \in Fds, desc[d] # Free,
         ~(ClosePipe(m) /\ d = fd[m][CloseOrder[step[m]]])
  PROVE  desc'[d].owner = desc[d].owner /\ desc'[d].kind = desc[d].kind
<1>1. DOMAIN desc = Fds
  BY DEF SessionInv, ShapesOK
<1>2. CASE OpenPipe(m)
  <2>1. PICK e \in Fds : desc[e] = Free /\ \E r : desc' = [desc EXCEPT ![e] = r]
    <3>1. PICK kind \in Kinds, e \in Fds, c \in Clients :
            /\ desc[e] = Free
            /\ desc' = [desc EXCEPT ![e] = [owner |-> m, kind |-> kind, of |-> c, ready |-> FALSE]]
      BY <1>2, OpenPipeEffect
    <3> QED
      BY <3>1
  <2>2. d # e
    BY <2>1
  <2> QED
    BY <1>1, <2>1, <2>2
<1>3. CASE PipeOpened(m)
  <2> DEFINE e == fd[m][OpenOrder[step[m]]]
             new == [desc[e] EXCEPT !.ready = TRUE]
  <2>1. desc' = [desc EXCEPT ![e].ready = TRUE]
    BY <1>3 DEF PipeOpened
  <2>2. desc' = [desc EXCEPT ![e] = new]
    BY <2>1
  <2>3. pc[m] = "opening"
    BY <1>3 DEF PipeOpened, Opened
  <2>4. desc[e] = [owner |-> m, kind |-> OpenOrder[step[m]], of |-> session[m], ready |-> FALSE]
    <3>1. up
      BY ManagerControl
    <3> QED
      BY <2>3, <3>1 DEF SessionInv, DescriptorsOK, WaitsInOpen
  <2>5. new.owner = desc[e].owner /\ new.kind = desc[e].kind
    BY <2>4
  <2> HIDE DEF new, e
  <2> QED
    BY <1>1, <2>2, <2>5
<1>4. CASE ClosePipe(m)
  <2> DEFINE e == fd[m][CloseOrder[step[m]]]
  <2>1. desc' = desc \/ desc' = [desc EXCEPT ![e] = Free]
    BY <1>4 DEF ClosePipe
  <2>2. d # e
    BY <1>4
  <2> HIDE DEF e
  <2> QED
    BY <1>1, <2>1, <2>2
<1>5. CASE ~OpenPipe(m) /\ ~PipeOpened(m) /\ ~ClosePipe(m)
  BY <1>5, ManagerShares
<1> QED
  BY <1>2, <1>3, <1>4, <1>5

LEMMA HeldBefore ==
  ASSUME SessionInv, HeldOK, NEW m \in Managers, ManagerStep(m), up', NEW k \in Kinds, Holds(m, k)'
  PROVE  \/ OpenPipe(m) /\ k = OpenOrder[step[m]]
         \/ /\ Holds(m, k) /\ fd'[m][k] = fd[m][k]
            /\ ~(ClosePipe(m) /\ fd[m][k] = fd[m][CloseOrder[step[m]]])
<1>1. /\ Turn[k] \in 1 .. 3 /\ OpenOrder[Turn[k]] = k /\ step[m] \in 1 .. 4
      /\ Called(m) \in 0 .. 3 /\ up
      /\ Turn[k] <= Called(m)' /\ pc'[m] # "remove"
      /\ pc'[m] = "close" => \A i \in 1 .. step'[m] - 1 : CloseOrder[i] # k
  BY Orders, CalledBounds, Constants, ManagerControl DEF SessionInv, TypeOK, Holds
<1>2. fd \in [Managers -> [Kinds -> Fds \cup {NoFd}]]
  BY DEF SessionInv, TypeOK
<1>3. CASE OpenPipe(m)
  <2>1. SUFFICES ASSUME k # OpenOrder[step[m]]
                 PROVE  Holds(m, k) /\ fd'[m][k] = fd[m][k] /\ ~ClosePipe(m)
    BY <1>3
  <2>2. Called(m)' = step[m] /\ Called(m) = step[m] - 1 /\ pc[m] = "open"
    BY <1>3, ManagerCalled DEF OpenPipe, At
  <2>3. Turn[k] # step[m]
    BY <1>1, <2>1
  <2>4. Holds(m, k)
    BY <1>1, <2>2, <2>3 DEF Holds
  <2>5. fd'[m][k] = fd[m][k]
    <3>1. PICK kind \in Kinds, d \in Fds : kind = OpenOrder[step[m]] /\ fd' = [fd EXCEPT ![m][kind] = d]
      BY <1>3, OpenPipeEffect
    <3> QED
      BY <1>2, <2>1, <3>1
  <2> QED
    BY <2>2, <2>4, <2>5 DEF ClosePipe, At
<1>4. CASE Take(m) \/ UnlinkPipes(m)
  <2>1. Called(m)' = 0
    <3>1. CASE UnlinkPipes(m)
      BY <3>1, ManagerCalled
    <3>2. CASE Take(m)
      <4>1. pc[m] = "idle"
        BY <3>2 DEF Take, At
      <4>2. ~OpenPipe(m) /\ ~UnlinkPipes(m)
        BY <4>1 DEF OpenPipe, UnlinkPipes, At
      <4>3. Called(m) = 0
        BY <4>1 DEF Called
      <4> QED
        BY <4>2, <4>3, ManagerCalled
    <3> QED
      BY <1>4, <3>1, <3>2
  <2> QED
    BY <1>1, <2>1
<1>5. CASE ClosePipe(m)
  <2>1. pc[m] = "close" /\ Called(m)' = Called(m) /\ fd' = fd
    <3>1. pc[m] = "close"
      BY <1>5 DEF ClosePipe, At
    <3>2. ~OpenPipe(m) /\ ~UnlinkPipes(m)
      BY <3>1 DEF OpenPipe, UnlinkPipes, At
    <3> QED
      BY <3>1, <3>2, ManagerCalled, ManagerShares
  <2>2. pc'[m] = "close" /\ step'[m] = step[m] + 1 /\ step[m] < 4
    BY <1>1, <1>5, <2>1, ManagerControl
  <2>3. \A i \in 1 .. step[m] : CloseOrder[i] # k
    BY <1>1, <2>2
  <2>4. Holds(m, k)
    BY <1>1, <2>1, <2>3 DEF Holds
  <2>5. CloseOrder[step[m]] # k /\ CloseOrder[step[m]] \in Kinds
    BY <1>1, <2>3, Orders
  <2>6. fd[m][k] # fd[m][CloseOrder[step[m]]]
    <3>1. \A l \in Kinds : fd[m][k] = fd[m][l] => k = l
      BY <2>1 DEF HeldOK
    <3> QED
      BY <2>5, <3>1
  <2> QED
    BY <2>1, <2>4, <2>6
<1>6. CASE ~OpenPipe(m) /\ ~Take(m) /\ ~UnlinkPipes(m) /\ ~ClosePipe(m)
  <2>1. Called(m)' = Called(m) /\ fd' = fd
    BY <1>6, ManagerCalled, ManagerShares
  <2>2. pc[m] # "remove" /\ pc[m] # "close"
    BY <1>6, ManagerControl
  <2>3. Holds(m, k)
    BY <1>1, <2>1, <2>2 DEF Holds
  <2> QED
    BY <1>6, <2>1, <2>3
<1> QED
  BY <1>3, <1>4, <1>5, <1>6

LEMMA ManagerHeld ==
  ASSUME SessionInv, SessionInv', HeldOK, NEW m \in Managers, ManagerStep(m), up', ~clobbered'
  PROVE  HeldOK'
<1>1. ASSUME NEW n \in Managers, NEW k \in Kinds, Holds(n, k), fd'[n][k] = fd[n][k],
             ~(ClosePipe(m) /\ fd[n][k] = fd[m][CloseOrder[step[m]]])
      PROVE  desc'[fd'[n][k]].owner = n /\ desc'[fd'[n][k]].kind = k
  <2>1. /\ fd[n][k] \in Fds /\ desc[fd[n][k]] # Free
        /\ desc[fd[n][k]].owner = n /\ desc[fd[n][k]].kind = k
    BY <1>1, HeldEnd
  <2> QED
    BY <1>1, <2>1, DescriptorFields
<1>2. ASSUME NEW n \in Managers \ {m}, NEW k \in Kinds, Holds(n, k)'
      PROVE  desc'[fd'[n][k]].owner = n /\ desc'[fd'[n][k]].kind = k
  <2>1. /\ fd'[n] = fd[n] /\ pc'[n] = pc[n] /\ step'[n] = step[n] /\ Called(n)' = Called(n)
    BY OthersKept, ManagerCalled, Constants
  <2>2. Holds(n, k)
    BY <1>2, <2>1 DEF Holds
  <2>3. CASE ClosePipe(m) /\ fd[n][k] = fd[m][CloseOrder[step[m]]]
    <3>1. desc[fd[n][k]].owner = n /\ desc[fd[n][k]].kind = k
      BY <2>2, HeldEnd
    <3>2. n # m
      OBVIOUS
    <3>3. ~desc[fd[n][k]].ready
      BY <2>3, <3>1, <3>2 DEF ClosePipe
    <3>4. desc' = desc
      BY <2>3, <3>3 DEF ClosePipe
    <3> QED
      BY <2>1, <3>1, <3>4
  <2> QED
    BY <1>1, <2>1, <2>2, <2>3
<1>3. ASSUME NEW k \in Kinds, Holds(m, k)'
      PROVE  desc'[fd'[m][k]].owner = m /\ desc'[fd'[m][k]].kind = k
  <2>1. CASE OpenPipe(m) /\ k = OpenOrder[step[m]]
    <3>1. PICK d \in Fds : \E c \in Clients :
            /\ desc' = [desc EXCEPT ![d] = [owner |-> m, kind |-> k, of |-> c, ready |-> FALSE]]
            /\ fd' = [fd EXCEPT ![m][k] = d]
      BY <2>1, OpenPipeEffect
    <3>2. DOMAIN desc = Fds /\ fd \in [Managers -> [Kinds -> Fds \cup {NoFd}]]
      BY DEF SessionInv, ShapesOK, TypeOK
    <3>3. fd'[m][k] = d
      BY <3>1, <3>2
    <3>4. desc'[d].owner = m /\ desc'[d].kind = k
      BY <3>1, <3>2
    <3> QED
      BY <3>3, <3>4
  <2>2. CASE ~(OpenPipe(m) /\ k = OpenOrder[step[m]])
    BY <1>1, <1>3, <2>2, HeldBefore
  <2> QED
    BY <2>1, <2>2
<1>4. ASSUME NEW n \in Managers, pc'[n] = "close", NEW k \in Kinds, NEW l \in Kinds, fd'[n][k] = fd'[n][l]
      PROVE  k = l
  <2>1. CASE n # m \/ pc[m] = "close"
    <3>1. fd'[n] = fd[n] /\ pc[n] = "close"
      <4>1. CASE n # m
        BY <1>4, <4>1, OthersKept
      <4>2. CASE n = m
        <5>1. ~OpenPipe(m) /\ ~UnlinkPipes(m)
          BY <2>1, <4>2 DEF OpenPipe, UnlinkPipes, At
        <5> QED
          BY <2>1, <4>2, <5>1, ManagerShares
      <4> QED
        BY <4>1, <4>2
    <3> QED
      BY <1>4, <3>1 DEF HeldOK
  <2>2. CASE n = m /\ pc[m] # "close"
    <3>1. Answer(m) /\ pc[m] = "exec" /\ step'[m] = 1
      <4>1. Answer(m) /\ pc[m] = "exec" /\ step'[m] = step[m]
        BY <1>4, <2>2, ManagerControl
      <4>2. step[m] = 1
        BY <4>1, Constants DEF SessionInv, ShapesOK
      <4> QED
        BY <4>1, <4>2
    <3>2. Called(m)' = 3 /\ Turn[k] <= 3 /\ Turn[l] <= 3
      BY <1>4, <2>2, Orders DEF Called
    <3>3. Holds(m, k)' /\ Holds(m, l)'
      BY <1>4, <2>2, <3>1, <3>2 DEF Holds
    <3> QED
      BY <1>3, <1>4, <2>2, <3>3
  <2> QED
    BY <2>1, <2>2
<1> QED
  BY <1>2, <1>3, <1>4 DEF HeldOK

(* A manager's read and the rest of what it does with its request.         *)
LEMMA ManagerFrom ==
  ASSUME SessionInv, WorksOK, NEW m \in Managers, ManagerStep(m), up'
  PROVE  /\ \A n \in Managers \ {m} : reading'[n] = reading[n] /\ from'[n] = from[n]
         /\ ~Reads(m) => reading' = reading
         /\ ~Reads(m) /\ ~Answer(m) => UNCHANGED <<from, req, op>>
         /\ Answer(m) => from'[m] = NoClient
         /\ ReturnRead(m) => /\ reading[m] = session[m] /\ session[m] \in Clients
                             /\ reading'[m] = NoClient
                             /\ pc'[m] \in {"ready", "key", "exec"}
                             /\ from'[m] = from[m] \/ (from'[m] = session[m] /\ pc'[m] \in {"key", "exec"})
<1>1. /\ reading \in [Managers -> Clients \cup {NoClient}]
      /\ from \in [Managers -> Clients \cup {NoClient}]
      /\ session \in [Managers -> Clients \cup {NoClient}]
      /\ reading[m] \in {NoClient, session[m]}
  BY DEF SessionInv, TypeOK, WorksOK
<1>2. CASE CallRead(m)
  <2>1. /\ from' = from
        /\ reading' = reading \/ \E c : reading' = [reading EXCEPT ![m] = c]
    BY <1>2 DEF CallRead
  <2>2. ~ReturnRead(m) /\ ~Answer(m)
    <3>1. pc[m] \in {"ready", "key"} /\ reading[m] = NoClient
      BY <1>2 DEF CallRead, At
    <3> QED
      BY <3>1 DEF ReturnRead, Answer, At
  <2> QED
    BY <1>1, <1>2, <2>1, <2>2 DEF Reads
<1>3. CASE ReturnRead(m)
  <2>1. /\ reading' = [reading EXCEPT ![m] = NoClient] /\ reading[m] # NoClient
        /\ from' = from \/ (from' = [from EXCEPT ![m] = reading[m]] /\ pc'[m] \in {"key", "exec"})
    <3>1. pc \in [Processes -> Labels] /\ m \in Processes
      BY Constants DEF SessionInv, ShapesOK
    <3> QED
      BY <1>3, <3>1 DEF ReturnRead, Goto
  <2>2. pc[m] \in {"ready", "key"} /\ ~Answer(m)
    <3>1. pc[m] \in {"ready", "key"}
      BY <2>1 DEF SessionInv, TypeOK
    <3> QED
      BY <3>1 DEF Answer, At
  <2>3. pc'[m] \in {"ready", "key", "exec"}
    BY <2>2, ManagerControl, <1>3
  <2> QED
    BY <1>1, <1>3, <2>1, <2>2, <2>3 DEF Reads
<1>4. CASE Answer(m)
  <2>1. /\ from' = [from EXCEPT ![m] = NoClient] /\ reading' = reading
        /\ ~ReturnRead(m)
    <3>1. pc[m] = "exec"
      BY <1>4 DEF Answer, At
    <3>2. reading[m] = NoClient
      BY <3>1 DEF SessionInv, TypeOK
    <3> QED
      BY <1>4, <3>2 DEF Answer, ends, ReturnRead
  <2> QED
    BY <1>1, <1>4, <2>1
<1>5. CASE ~Reads(m) /\ ~Answer(m)
  <2>1. UNCHANGED <<from, req, op>>
    BY <1>5 DEF ManagerStep, Reads, Take, OpenPipe, PipeOpened, Hello, ClosePipe, UnlinkPipes,
       calls, data
  <2>2. reading' = reading
    BY <1>5, ManagerShares, OpenPipeEffect
  <2> QED
    BY <1>5, <2>1, <2>2 DEF Reads
<1> QED
  BY <1>2, <1>3, <1>4, <1>5 DEF Reads

LEMMA ManagerReached ==
  ASSUME SessionInv, SessionInv', WorksOK, NEW m \in Managers, ManagerStep(m), up',
         NEW n \in Managers, pc'[n] # "idle"
  PROVE  Reached(n)' <= Called(session[n])'
<1>0. /\ session \in [Managers -> Clients \cup {NoClient}]
      /\ session' \in [Managers -> Clients \cup {NoClient}]
      /\ session[n] = NoClient <=> pc[n] = "idle"
      /\ session'[n] \in Clients
      /\ \A x \in Clients : x \in Processes /\ x # m
      /\ n \in Processes /\ m \in Processes
  <2>1. /\ session \in [Managers -> Clients \cup {NoClient}]
        /\ session[n] = NoClient <=> pc[n] = "idle"
    BY DEF SessionInv, TypeOK
  <2>2. /\ session' \in [Managers -> Clients \cup {NoClient}]
        /\ session'[n] = NoClient <=> pc'[n] = "idle"
    BY DEF SessionInv, TypeOK
  <2> QED
    BY <2>1, <2>2, Constants
<1> PICK c \in Clients : c = session'[n]
  BY <1>0
<1> SUFFICES Reached(n)' <= Called(c)'
  BY DEF Called
<1>1. CASE n # m
  <2>1. session'[n] = session[n] /\ pc'[n] = pc[n] /\ step'[n] = step[n] /\ Called(n)' = Called(n)
    BY <1>0, <1>1, OthersKept, ManagerCalled
  <2>2. Called(c)' = Called(c)
    BY <1>0, ManagerCalled
  <2>3. n \in met' <=> n \in met
    <3>1. CASE OpenPipe(m)
      <4>1. \E x \in Clients : met' \subseteq met \cup {m, x} /\ met \subseteq met'
        BY <3>1, OpenPipeEffect
      <4> QED
        BY <1>1, <4>1, Constants
    <3>2. CASE PipeOpened(m)
      <4>1. met' = met \ {m}
        BY <3>2 DEF PipeOpened, Opened
      <4> QED
        BY <1>1, <4>1
    <3>3. CASE ~OpenPipe(m) /\ ~PipeOpened(m)
      BY <3>3, ManagerShares
    <3> QED
      BY <3>1, <3>2, <3>3
  <2>4. Reached(n)' = Reached(n)
    BY <2>1, <2>3 DEF Reached
  <2>5. Reached(n) <= Called(c)
    BY <2>1 DEF WorksOK
  <2> QED
    BY <2>1, <2>2, <2>4, <2>5
<1>2. CASE n = m
  <2>1. session'[m] = c
    BY <1>2
  <2>2. Called(c)' = Called(c) /\ Called(c) \in 0 .. 3
    BY <1>0, ManagerCalled, CalledBounds
  <2>3. CASE Take(m)
    <3>1. pc'[m] = "open" /\ step'[m] = 1
      <4>1. pc[m] = "idle"
        BY <2>3 DEF Take, At
      <4>2. step[m] = 1
        BY <1>0, <4>1 DEF SessionInv, ShapesOK
      <4> QED
        BY <4>1, <4>2, ManagerControl
    <3>2. Reached(m)' = 0
      BY <3>1 DEF Reached, Called
    <3> QED
      BY <1>2, <2>2, <3>2
  <2>4. CASE OpenPipe(m)
    <3>1. pc[m] = "open" /\ pc'[m] = "opening" /\ step'[m] = step[m] /\ session'[m] = session[m]
      <4>1. ~Take(m) /\ ~UnlinkPipes(m) /\ pc[m] = "open"
        BY <2>4 DEF OpenPipe, Take, UnlinkPipes, At
      <4> QED
        BY <4>1, ManagerControl, ManagerShares
    <3>2. m \in met' => step[m] <= Called(c)
      BY <2>1, <2>4, <3>1, OpenPipeEffect
    <3>3. Called(m) = step[m] - 1 /\ Called(m)' = step[m]
      BY <2>4, ManagerCalled
    <3>4. Reached(m) = Called(m) /\ Reached(m) <= Called(c)
      BY <2>1, <3>1 DEF Reached, WorksOK
    <3>5. Reached(m)' = IF m \in met' THEN step[m] ELSE step[m] - 1
      BY <3>1, <3>3 DEF Reached
    <3> QED
      BY <1>2, <2>2, <3>1, <3>2, <3>3, <3>4, <3>5
  <2>5. CASE ~Take(m) /\ ~OpenPipe(m)
    <3>1. ~UnlinkPipes(m)
      <4>1. UnlinkPipes(m) => pc[m] = "remove"
        BY DEF UnlinkPipes, At
      <4> QED
        BY <1>2, <4>1, ManagerControl
    <3>2. /\ session' = session /\ Called(m)' = Called(m) /\ pc[m] # "idle"
          /\ pc'[m] # "opening" /\ (pc[m] = "opening" => m \in met)
      BY <2>5, <3>1, ManagerShares, ManagerCalled, ManagerControl
    <3>3. Reached(m)' = Called(m)' /\ Reached(m) = Called(m)
      BY <3>2 DEF Reached
    <3>4. Reached(m) <= Called(c)
      BY <2>1, <3>2 DEF WorksOK
    <3> QED
      BY <1>2, <2>2, <3>2, <3>3, <3>4
  <2> QED
    BY <2>3, <2>4, <2>5
<1> QED
  BY <1>1, <1>2

LEMMA ManagerWorks ==
  ASSUME SessionInv, SessionInv', HeldOK, WorksOK, NEW m \in Managers, ManagerStep(m), up'
  PROVE  WorksOK'
<1>1. \A n \in Managers : pc'[n] # "idle" => Reached(n)' <= Called(session[n])'
  BY ManagerReached
<1>2. ASSUME NEW n \in Managers \ {m}
      PROVE  /\ reading'[n] \in {NoClient, session'[n]}
             /\ from'[n] # NoClient => from'[n] = session'[n] /\ pc'[n] \in {"ready", "key", "exec"}
  BY OthersKept, ManagerFrom DEF WorksOK
<1>3. /\ reading'[m] \in {NoClient, session'[m]}
      /\ from'[m] # NoClient => from'[m] = session'[m] /\ pc'[m] \in {"ready", "key", "exec"}
  <2>0. /\ reading[m] \in {NoClient, session[m]}
        /\ from[m] # NoClient => from[m] = session[m] /\ pc[m] \in {"ready", "key", "exec"}
        /\ reading[m] # NoClient => pc[m] \in {"ready", "key"}
        /\ DOMAIN reading = Managers
    BY DEF WorksOK, SessionInv, TypeOK
  <2>1. CASE CallRead(m)
    <3>1. /\ reading' = [reading EXCEPT ![m] = session[m]]
          /\ UNCHANGED <<pc, from, session>>
      BY <2>1, ManagerReadsOwn
    <3> QED
      BY <2>0, <3>1
  <2>2. CASE ReturnRead(m)
    <3>1. ~Take(m) /\ ~UnlinkPipes(m)
      BY <2>0, <2>2 DEF ReturnRead, Take, UnlinkPipes, At
    <3> QED
      BY <2>0, <2>2, <3>1, ManagerFrom, ManagerShares
  <2>3. CASE Answer(m)
    <3>1. ~Take(m) /\ ~UnlinkPipes(m) /\ ~Reads(m)
      <4>1. pc[m] = "exec"
        BY <2>3 DEF Answer, At
      <4> QED
        BY <2>0, <4>1 DEF Reads, CallRead, ReturnRead, Take, UnlinkPipes, At
    <3> QED
      BY <2>0, <2>3, <3>1, ManagerFrom, ManagerShares
  <2>4. CASE ~Reads(m) /\ ~Answer(m)
    <3>1. reading' = reading /\ from' = from
      BY <2>4, ManagerFrom
    <3>2. pc[m] \notin {"ready", "key", "exec"}
      BY <2>4, ManagerControl
    <3> QED
      BY <2>0, <3>1, <3>2
  <2> QED
    BY <2>1, <2>2, <2>3, <2>4 DEF Reads
<1> QED
  BY <1>1, <1>2, <1>3 DEF WorksOK

(* What a manager writes is its own client's.                              *)
LEMMA ManagerDataOwn ==
  ASSUME SessionInv, HeldOK, WorksOK, NEW m \in Managers, ManagerStep(m), up'
  PROVE  /\ \A x \in Clients : x # session[m] =>
              req'[x] = req[x] /\ resp'[x] = resp[x] /\ outcome'[x] = outcome[x]
         /\ \A p \in Processes \ {m} : op'[p] = op[p]
         /\ ~ReturnRead(m) => req' = req
         /\ ~Hello(m) /\ ~Answer(m) => resp' = resp
         /\ ~Answer(m) => outcome' = outcome
<1>1. /\ DOMAIN req = Clients /\ DOMAIN op = Processes
      /\ outcome \in [Clients -> Seq(Answers)] /\ from[m] \in {NoClient, session[m]}
      /\ reading[m] # NoClient => pc[m] \in {"ready", "key"}
  BY DEF SessionInv, TypeOK, WorksOK, Processes
<1>2. CASE CallRead(m)
  BY <1>2, ManagerReadsOwn
<1>3. CASE ReturnRead(m)
  <2>1. /\ UNCHANGED <<resp, outcome>>
        /\ \/ UNCHANGED req
           \/ req' = [req EXCEPT ![reading[m]] = Tail(req[reading[m]])]
           \/ req' = [req EXCEPT ![reading[m]] = << >>]
        /\ \/ UNCHANGED op
           \/ \E o : op' = [op EXCEPT ![m] = o]
    BY <1>3 DEF ReturnRead, NothingRead
  <2>2. reading[m] = session[m]
    BY <1>3, ManagerFrom
  <2> QED
    BY <1>1, <1>3, <2>1, <2>2
<1>4. CASE Hello(m)
  <2>1. /\ UNCHANGED <<req, outcome, op>> /\ pc[m] = "hello"
        /\ WriteAnswer(m, <<"connect", TRUE>>)
    BY <1>4 DEF Hello, At, calls
  <2>2. \A x \in Clients : x # session[m] => resp'[x] = resp[x]
    BY <2>1, ManagerWritesOwn
  <2> QED
    BY <1>4, <2>1, <2>2
<1>5. CASE Answer(m)
  <2>1. PICK result \in BOOLEAN :
          /\ WriteAnswer(m, <<op[m], result>>)
          /\ outcome' = [c \in Clients |-> outcome[c] \o
                           IF c = from[m] THEN <<<<op[m], result>>>> ELSE << >>]
    BY <1>5 DEF Answer
  <2>2. req' = req /\ op' = [op EXCEPT ![m] = "none"] /\ pc[m] = "exec"
    BY <1>5 DEF Answer, At
  <2>3. \A x \in Clients : x # session[m] => resp'[x] = resp[x]
    BY <2>1, <2>2, ManagerWritesOwn
  <2>4. ASSUME NEW x \in Clients, x # session[m]
        PROVE  outcome'[x] = outcome[x]
    <3>1. x # from[m]
      BY <1>1, <2>4, Constants
    <3>2. outcome[x] \in Seq(Answers) /\ outcome'[x] = outcome[x] \o << >>
      BY <1>1, <2>1, <3>1
    <3> QED
      BY <3>2
  <2> QED
    BY <1>1, <1>5, <2>2, <2>3, <2>4
<1>6. CASE ~Reads(m) /\ ~Hello(m) /\ ~Answer(m)
  BY <1>6 DEF ManagerStep, Reads, Take, OpenPipe, PipeOpened, ClosePipe, UnlinkPipes, calls, data
<1> QED
  BY <1>2, <1>3, <1>4, <1>5, <1>6 DEF Reads

LEMMA ManagerOtherStages ==
  ASSUME SessionInv, HeldOK, WorksOK, NEW m \in Managers, ManagerStep(m), up',
         NEW x \in Clients, x # session[m], x # session'[m], StageOK(x)
  PROVE  StageOK(x)'
<1>1. /\ pc'[x] = pc[x] /\ step'[x] = step[x] /\ op'[x] = op[x]
      /\ req'[x] = req[x] /\ resp'[x] = resp[x] /\ outcome'[x] = outcome[x]
  BY ManagerControl, ManagerDataOwn, Constants
<1>2. /\ ~(session[m] = x) /\ ~(session'[m] = x)
      /\ \A n \in Managers \ {m} :
           /\ session'[n] = session[n] /\ pc'[n] = pc[n] /\ step'[n] = step[n]
           /\ from'[n] = from[n] /\ op'[n] = op[n]
  BY OthersKept, ManagerFrom, ManagerDataOwn, Constants
<1>3. \A n \in Managers :
        /\ Listens(n, x)' <=> Listens(n, x)
        /\ session'[n] = x /\ Greeted(n)' <=> session[n] = x /\ Greeted(n)
  BY <1>2 DEF Listens, Greeted
<1>4. \A n \in Managers :
        /\ Asked(n, x)' <=> Asked(n, x)
        /\ Begun(n, x)' <=> Begun(n, x)
        /\ session'[n] = x => session[n] = x /\ pc'[n] = pc[n]
  <2>1. \A n \in Managers : Asked(n, x)' <=> Asked(n, x)
    BY <1>1, <1>3 DEF Asked
  <2>2. \A n \in Managers : Begun(n, x)' <=> Begun(n, x)
    BY <1>1, <1>2 DEF Begun
  <2> QED
    BY <1>2, <2>1, <2>2
<1>5. Queued(x) \/ Served(x) => Queued(x)' \/ Served(x)'
  <2>1. Queued(x) => Queued(x)'
    BY <1>2, ManagerRegisters
  <2>2. Served(x) => Served(x)'
    BY <1>2 DEF Served
  <2> QED
    BY <2>1, <2>2
<1>6. /\ Waiting(x)' <=> Waiting(x)
      /\ Unanswered(x)' <=> Unanswered(x)
      /\ Answered(x)' <=> Answered(x)
  BY <1>1 DEF Waiting, Unanswered, Answered
<1> HIDE DEF Queued, Served
<1>7. /\ pc'[x] = "hello" \/ (pc'[x] = "opening" /\ step'[x] = 1) =>
           /\ req'[x] = << >>
           /\ resp'[x] = IF \E n \in Managers : session'[n] = x /\ Greeted(n)'
                         THEN <<<<"connect", TRUE>>>> ELSE << >>
      /\ pc'[x] = "ready" \/ (pc'[x] \in {"open", "opening"} /\ step'[x] > 1) =>
           req'[x] = << >> /\ resp'[x] = << >> /\ \E n \in Managers : Listens(n, x)'
  BY <1>1, <1>3 DEF StageOK
<1>8. Waiting(x)' =>
       \/ Unanswered(x)' /\ \E n \in Managers : Asked(n, x)' \/ Begun(n, x)'
       \/ /\ Answered(x)'
          /\ pc'[x] = "await" => req'[x] = << >> /\ \E n \in Managers : Listens(n, x)'
          /\ pc'[x] = "bye" => \A n \in Managers : session'[n] = x => pc'[n] \in {"close", "remove"}
  BY <1>1, <1>3, <1>4, <1>6 DEF StageOK
<1> QED
  BY <1>1, <1>5, <1>6, <1>7, <1>8 DEF StageOK

(* A step that changes nothing for the client.                             *)
LEMMA StageQuiet ==
  ASSUME NEW m \in Managers, NEW c \in Clients, StageWith(m, c),
         pc'[c] = pc[c], step'[c] = step[c], op'[c] = op[c],
         req'[c] = req[c], resp'[c] = resp[c], outcome'[c] = outcome[c],
         Greeted(m)' <=> Greeted(m), Listens(m, c) => Listens(m, c)', Begun(m, c) => Begun(m, c)',
         pc[m] \in {"close", "remove"} => pc'[m] \in {"close", "remove"}
  PROVE  StageWith(m, c)'
<1>1. Asked(m, c) => Asked(m, c)'
  BY DEF Asked
<1>2. /\ Waiting(c)' <=> Waiting(c)
      /\ Unanswered(c)' <=> Unanswered(c)
      /\ Answered(c)' <=> Answered(c)
  BY DEF Waiting, Unanswered, Answered
<1> QED
  BY <1>1, <1>2 DEF StageWith

(* The state of the client that a manager serves, action by action.        *)
LEMMA TakeStage ==
  ASSUME SessionInv, SessionInv', HeldOK, WorksOK, NEW m \in Managers, Take(m), up',
         NEW c \in Clients, session'[m] = c, StageOK(c)
  PROVE  StageOK(c)'
<1>1. /\ ManagerStep(m) /\ pc[m] = "idle" /\ session[m] = NoClient
      /\ \A p \in Processes \ {m} : pc'[p] = pc[p] /\ step'[p] = step[p] /\ op'[p] = op[p]
      /\ UNCHANGED <<req, resp, outcome>>
  <2>1. ManagerStep(m) /\ pc[m] = "idle" /\ UNCHANGED <<req, resp, outcome, op>>
    BY DEF Take, At, ManagerStep, data, calls
  <2> QED
    BY <2>1, ManagerControl DEF SessionInv, TypeOK
<1>2. pc'[m] = "open" /\ step'[m] = 1
  <2>1. step[m] = 1
    BY <1>1, Constants DEF SessionInv, ShapesOK
  <2> QED
    BY <1>1, <2>1, ManagerControl
<1>3. Queued(c) /\ c # m
  BY <1>1, ManagerRegisters, Constants
<1>4. c \in arrived /\ ~\E n \in Managers : session[n] = c
  <2>1. queue \in Seq(arrived)
    BY DEF SessionInv, TypeOK
  <2>2. c \in arrived
    BY <1>3, <2>1 DEF Queued
  <2>3. \A n \in Managers : session[n] = c => ~Queued(c)
    BY Constants DEF SessionInv, RegisteredOK
  <2> QED
    BY <1>3, <2>2, <2>3
<1>5. pc[c] \in {"open", "opening", "dead", "failed"} /\ (pc[c] \in {"open", "opening"} => step[c] = 1)
  <2>1. pc[c] \notin {"off", "mkfifo", "connect"}
    BY <1>4 DEF SessionInv, RegisteredOK
  <2>3. /\ step[c] \in 1 .. 4 /\ c \in Processes
        /\ pc[c] \in {"mkfifo", "connect", "open", "opening", "hello",
                 "ready", "await", "bye", "close", "remove"} \cup Ended
    BY Orders, Constants DEF SessionInv, TypeOK
  <2>2. pc[c] \in {"dead", "failed"} \/ Reached(c) <= 0
    <3>1. Reached(c) \in Nat
      BY <2>3, CalledBounds DEF Reached
    <3>2. pc[c] \notin {"dead", "failed"} => Past(c, Reached(c))
      BY <2>1 DEF SessionInv, MeetingsOK, Reached
    <3> QED
      BY <1>3, <3>1, <3>2 DEF Past
  <2>4. pc[c] = "hello" => step[c] = 2
    BY <2>3 DEF SessionInv, ShapesOK
  <2>5. ASSUME pc[c] \notin {"dead", "failed"}
        PROVE  pc[c] \in {"open", "opening"} /\ step[c] = 1
    <3>1. pc[c] \notin {"off", "mkfifo", "connect", "dead", "failed", "hello"}
      BY <2>1, <2>2, <2>4, <2>5 DEF Reached, Called
    <3>2. pc[c] \in {"open", "opening"}
      BY <2>2, <2>3, <2>5, <3>1 DEF Reached, Called, Ended
    <3> QED
      BY <2>2, <2>3, <3>2 DEF Reached, Called
  <2> QED
    BY <2>5
<1>6. StageWith(m, c)'
  <2>1. ~Greeted(m)'
    BY <1>2 DEF Greeted
  <2>2. pc'[c] = pc[c] /\ step'[c] = step[c]
    BY <1>1, <1>3, Constants
  <2>3. /\ pc[c] = "open" /\ step[c] = 1 => req[c] = << >> /\ resp[c] = << >>
        /\ pc[c] = "opening" /\ step[c] = 1 => req[c] = << >> /\ resp[c] = << >>
    BY <1>4 DEF StageOK
  <2> QED
    BY <1>1, <1>5, <2>1, <2>2, <2>3 DEF StageWith, Waiting
<1> QED
  BY <1>6, StageServedNext

LEMMA OpenStage ==
  ASSUME SessionInv, HeldOK, WorksOK, NEW m \in Managers, OpenPipe(m) \/ PipeOpened(m), up',
         NEW c \in Clients, session[m] = c, StageWith(m, c)
  PROVE  StageWith(m, c)' /\ session'[m] = c
<1>1. /\ ManagerStep(m) /\ pc[m] \in {"open", "opening"}
      /\ ~Take(m) /\ ~UnlinkPipes(m) /\ ~Reads(m) /\ ~Hello(m) /\ ~Answer(m)
  <2>1. pc[m] \in {"open", "opening"} /\ ManagerStep(m)
    BY DEF OpenPipe, PipeOpened, At, ManagerStep
  <2>2. reading[m] = NoClient
    BY <2>1 DEF SessionInv, TypeOK
  <2> QED
    BY <2>1, <2>2 DEF Take, UnlinkPipes, Reads, CallRead, ReturnRead, Hello, Answer, At
<1>2. UNCHANGED <<session, req, resp, outcome, op, from>>
  <2>1. ~ReturnRead(m)
    BY <1>1 DEF Reads
  <2> QED
    BY <1>1, <2>1, ManagerShares, ManagerDataOwn, ManagerFrom
<1>3. pc'[c] = pc[c] /\ step'[c] = step[c]
  BY <1>1, ManagerControl, Constants
<1>4. \/ pc[m] = "open" /\ pc'[m] = "opening" /\ step'[m] = step[m]
      \/ pc[m] = "opening" /\ \/ step[m] = 1 /\ pc'[m] = "hello"
                              \/ step[m] = 2 /\ pc'[m] = "open" /\ step'[m] = 3
                              \/ step[m] = 3 /\ pc'[m] = "ready"
  <2>1. CASE OpenPipe(m)
    <3>1. pc[m] = "open"
      BY <2>1 DEF OpenPipe, At
    <3> QED
      BY <1>1, <3>1, ManagerControl
  <2>2. CASE PipeOpened(m)
    <3>1. pc[m] = "opening"
      BY <2>2 DEF PipeOpened, At
    <3> QED
      BY <1>1, <3>1, ManagerControl
  <2> QED
    BY <2>1, <2>2
<1>5. Greeted(m)' <=> Greeted(m)
  BY <1>4 DEF Greeted
<1>6. Listens(m, c) => Listens(m, c)'
  BY <1>2, <1>4, <1>5 DEF Listens, Greeted
<1>7. ~Begun(m, c)
  BY <1>1 DEF Begun
<1> QED
  BY <1>1, <1>2, <1>3, <1>5, <1>6, <1>7, StageQuiet

(* A client is as far as its manager.                                      *)
LEMMA ServedReached ==
  ASSUME SessionInv, WorksOK, NEW m \in Managers, NEW c \in Clients, session[m] = c,
         pc[m] \in {"hello", "ready", "key", "exec", "close", "remove"}
  PROVE  /\ 1 <= Called(c)
         /\ pc[m] # "hello" => Called(c) = 3
         /\ pc[c] \notin {"off", "mkfifo", "connect"} /\ ~(pc[c] = "open" /\ step[c] = 1)
         /\ pc[m] # "hello" => ~(pc[c] = "hello" \/ (pc[c] = "opening" /\ step[c] = 1))
<1>1. /\ pc[m] = "hello" => step[m] = 2
      /\ pc[c] = "hello" => step[c] = 2
  BY Constants DEF SessionInv, ShapesOK
<1>2. Reached(m) <= Called(c) /\ Called(c) \in 0 .. 3
  BY CalledBounds, Constants DEF WorksOK
<1>3. /\ pc[m] = "hello" => Reached(m) = 1
      /\ pc[m] # "hello" => Reached(m) = 3
  BY <1>1 DEF Reached, Called
<1>4. 1 <= Called(c) /\ (pc[m] # "hello" => Called(c) = 3)
  BY <1>2, <1>3
<1> QED
  BY <1>1, <1>4 DEF Called

LEMMA HelloStage ==
  ASSUME SessionInv, HeldOK, WorksOK, NEW m \in Managers, Hello(m), up',
         NEW c \in Clients, session[m] = c, StageWith(m, c)
  PROVE  StageWith(m, c)' /\ session'[m] = c
<1>1. /\ ManagerStep(m) /\ pc[m] = "hello"
      /\ WriteAnswer(m, <<"connect", TRUE>>)
      /\ UNCHANGED <<session, req, outcome, op, from>>
  BY DEF Hello, At, ManagerStep, registration, calls
<1>2. pc'[m] = "open" /\ step'[m] = 2
  <2>1. step[m] = 2
    BY <1>1, Constants DEF SessionInv, ShapesOK
  <2> QED
    BY <1>1, <2>1, ManagerControl
<1>3. pc'[c] = pc[c] /\ step'[c] = step[c]
  BY <1>1, ManagerControl, Constants
<1>4. Greeted(m)' /\ ~Greeted(m) /\ ~Listens(m, c) /\ ~Begun(m, c)
  BY <1>1, <1>2 DEF Greeted, Listens, Begun
<1>5. /\ pc[c] # "ready" /\ ~(pc[c] \in {"open", "opening"} /\ step[c] > 1)
      /\ ~Waiting(c)
  BY <1>1, <1>4 DEF StageWith, Asked, Waiting
<1>6. 1 <= Called(c) /\ pc[c] \notin {"off", "mkfifo", "connect"} /\ ~(pc[c] = "open" /\ step[c] = 1)
  BY <1>1, ServedReached
<1>7. ASSUME pc[c] = "hello" \/ (pc[c] = "opening" /\ step[c] = 1)
      PROVE  req[c] = << >> /\ resp'[c] = <<<<"connect", TRUE>>>>
  <2>1. req[c] = << >> /\ resp[c] = << >>
    BY <1>4, <1>7 DEF StageWith
  <2>2. "resp" \in Kinds /\ Turn["resp"] = 1 /\ pc[c] \notin Ended \cup {"remove"}
    BY <1>7 DEF Kinds, Turn, Ended
  <2>3. ClientEnd("resp", c) # {}
    BY <1>6, <2>2, ClientHolds
  <2>4. resp'[c] = Append(<< >>, <<"connect", TRUE>>)
    BY <1>1, <2>1, <2>3, ManagerWritesOwn
  <2> QED
    BY <2>1, <2>4
<1>8. ~Waiting(c)'
  BY <1>3, <1>5 DEF Waiting
<1> QED
  BY <1>1, <1>3, <1>4, <1>5, <1>6, <1>7, <1>8 DEF StageWith

LEMMA CallReadStage ==
  ASSUME SessionInv, HeldOK, WorksOK, NEW m \in Managers, CallRead(m), up',
         NEW c \in Clients, session[m] = c, StageWith(m, c)
  PROVE  StageWith(m, c)' /\ session'[m] = c
<1>1. UNCHANGED <<pc, step, op, req, resp, from, outcome, session>>
  BY ManagerReadsOwn
<1>2. Greeted(m)' <=> Greeted(m)
  BY <1>1 DEF Greeted
<1>3. Listens(m, c) => Listens(m, c)'
  BY <1>1, <1>2 DEF Listens
<1>4. Begun(m, c) => Begun(m, c)'
  BY <1>1 DEF Begun
<1> QED
  BY <1>1, <1>2, <1>3, <1>4, StageQuiet

LEMMA ReturnReadStage ==
  ASSUME SessionInv, HeldOK, WorksOK, NEW m \in Managers, ReturnRead(m), up',
         NEW c \in Clients, session[m] = c, StageWith(m, c)
  PROVE  StageWith(m, c)' /\ session'[m] = c
<1>1. /\ ManagerStep(m) /\ pc[m] \in {"ready", "key"} /\ reading[m] = c
      /\ UNCHANGED <<session, resp, outcome>>
  <2>1. ManagerStep(m) /\ UNCHANGED <<session, resp, outcome>>
    BY DEF ManagerStep, ReturnRead, registration
  <2>2. reading[m] = c
    BY <2>1, ManagerFrom
  <2>3. pc[m] \in {"ready", "key"}
    BY <2>2, Constants DEF SessionInv, TypeOK
  <2> QED
    BY <2>1, <2>2, <2>3
<1>2. pc'[c] = pc[c] /\ step'[c] = step[c] /\ op'[c] = op[c]
  BY <1>1, ManagerControl, ManagerDataOwn, Constants
<1>3. Called(c) = 3 /\ pc[c] \notin {"off", "mkfifo", "connect", "hello"}
      /\ ~(pc[c] \in {"open", "opening"} /\ step[c] = 1)
  BY <1>1, ServedReached
<1>4. ASSUME pc[c] \in {"ready", "await", "bye", "open", "opening"}
      PROVE  /\ req[c] # << >> /\ c \in DOMAIN req /\ m \in DOMAIN pc /\ m \in DOMAIN op
             /\ m \in DOMAIN from
             /\ \/ /\ pc[m] = "ready" /\ req'[c] = Tail(req[c]) /\ from'[m] = c
                   /\ \/ /\ Head(req[c]) \in {"subscribe", "unsubscribe"}
                         /\ pc'[m] = "key" /\ op'[m] = Head(req[c])
                      \/ /\ Head(req[c]) \notin {"subscribe", "unsubscribe"}
                         /\ pc'[m] = "exec" /\ op'[m] = "disconnect"
                \/ /\ pc[m] = "key" /\ pc'[m] = "exec" /\ req'[c] = << >>
                   /\ op'[m] = op[m] /\ from'[m] = from[m]
  <2>1. /\ c \in DOMAIN req /\ m \in DOMAIN pc /\ m \in DOMAIN op /\ m \in DOMAIN from
    BY Constants DEF SessionInv, ShapesOK, TypeOK
  <2>2. "req" \in Kinds /\ Turn["req"] = 2 /\ pc[c] \notin Ended \cup {"remove"}
    BY <1>4 DEF Kinds, Turn, Ended
  <2>3. ClientEnd("req", c) # {}
    BY <1>3, <2>2, ClientHolds
  <2>4. \/ /\ req[c] # << >> /\ pc[m] = "ready"
           /\ IF Head(req[c]) \in {"subscribe", "unsubscribe"}
              THEN pc' = [pc EXCEPT ![m] = "key"] /\ op' = [op EXCEPT ![m] = Head(req[c])]
              ELSE pc' = [pc EXCEPT ![m] = "exec"] /\ op' = [op EXCEPT ![m] = "disconnect"]
           /\ req' = [req EXCEPT ![c] = Tail(req[c])]
           /\ from' = [from EXCEPT ![m] = c]
        \/ /\ req[c] # << >> /\ pc[m] = "key"
           /\ pc' = [pc EXCEPT ![m] = "exec"]
           /\ req' = [req EXCEPT ![c] = << >>]
           /\ UNCHANGED <<op, from>>
    <3> HIDE DEF NothingRead
    <3> QED
      BY <1>1, <2>3 DEF ReturnRead, Goto
  <2> QED
    BY <2>1, <2>4
<1>5. ASSUME pc[c] = "ready" \/ (pc[c] \in {"open", "opening"} /\ step[c] > 1)
      PROVE  FALSE
  <2>1. req[c] = << >>
    BY <1>5 DEF StageWith
  <2> QED
    BY <1>4, <1>5, <2>1
<1>6. ASSUME Waiting(c)
      PROVE  Unanswered(c)' /\ Begun(m, c)'
  <2>1. pc[c] \in {"await", "bye"} /\ req[c] # << >> /\ op[c] \in Requests
    BY <1>4, <1>6 DEF Waiting, StageWith
  <2>2. Unanswered(c) /\ (Asked(m, c) \/ Begun(m, c))
    <3>1. ~(pc[c] = "bye" /\ pc[m] \in {"close", "remove"}) /\ ~(pc[c] = "await" /\ req[c] = << >>)
      BY <1>1, <2>1
    <3> QED
      BY <1>6, <2>1, <3>1 DEF StageWith
  <2>3. Unanswered(c)'
    BY <1>1, <2>2 DEF Unanswered
  <2>4. CASE Begun(m, c)
    <3>1. pc[m] = "key" /\ from[m] = c /\ op[m] = op[c]
      BY <1>1, <2>4 DEF Begun
    <3>2. pc'[m] = "exec" /\ req'[c] = << >> /\ op'[m] = op[m] /\ from'[m] = from[m]
      BY <1>4, <2>1, <3>1
    <3> QED
      BY <1>1, <1>2, <2>3, <3>1, <3>2 DEF Begun
  <2>5. CASE Asked(m, c)
    <3>1. pc[m] = "ready"
      BY <1>1, <2>5 DEF Asked, Listens
    <3>2. /\ req'[c] = Tail(req[c]) /\ from'[m] = c
          /\ \/ /\ Head(req[c]) \in {"subscribe", "unsubscribe"}
                /\ pc'[m] = "key" /\ op'[m] = Head(req[c])
             \/ /\ Head(req[c]) \notin {"subscribe", "unsubscribe"}
                /\ pc'[m] = "exec" /\ op'[m] = "disconnect"
      BY <1>4, <2>1, <3>1
    <3>3. CASE req[c] = <<op[c]>>
      <4>1. Head(req[c]) = op[c] /\ Tail(req[c]) = << >>
        BY <3>3
      <4>2. CASE op[c] = "disconnect"
        <5>1. pc'[m] = "exec" /\ op'[m] = "disconnect" /\ req'[c] = << >> /\ from'[m] = c
          BY <3>2, <4>1, <4>2
        <5> QED
          BY <1>1, <1>2, <2>3, <4>2, <5>1 DEF Begun
      <4>3. CASE op[c] # "disconnect"
        <5>1. pc'[m] = "key" /\ op'[m] = op[c] /\ req'[c] = << >> /\ from'[m] = c
          BY <2>1, <3>2, <4>1, <4>3 DEF Requests
        <5> QED
          BY <1>1, <1>2, <2>3, <4>3, <5>1 DEF Begun
      <4> QED
        BY <4>2, <4>3
    <3>4. CASE op[c] # "disconnect" /\ \E key \in Keys : req[c] = <<op[c], key>>
      <4>1. PICK key \in Keys : req[c] = <<op[c], key>>
        BY <3>4
      <4>2. Head(req[c]) = op[c] /\ Tail(req[c]) = <<key>>
        BY <4>1
      <4>3. pc'[m] = "key" /\ op'[m] = op[c] /\ req'[c] = <<key>> /\ from'[m] = c
        BY <2>1, <3>2, <3>4, <4>2 DEF Requests
      <4> QED
        BY <1>1, <1>2, <2>3, <3>4, <4>3 DEF Begun
    <3> QED
      BY <2>5, <3>3, <3>4 DEF Asked
  <2> QED
    BY <2>2, <2>4, <2>5
<1>7. Waiting(c)' <=> Waiting(c)
  BY <1>2 DEF Waiting
<1>8. StageWith(m, c)'
  <2>1. Waiting(c) => op[c] \in Requests /\ (op[c] = "disconnect" <=> pc[c] = "bye")
    BY DEF StageWith
  <2> QED
    BY <1>2, <1>3, <1>5, <1>6, <1>7, <2>1 DEF StageWith
<1> QED
  BY <1>1, <1>8

LEMMA AnswerStage ==
  ASSUME SessionInv, HeldOK, WorksOK, NEW m \in Managers, Answer(m), up',
         NEW c \in Clients, session[m] = c, StageWith(m, c)
  PROVE  StageWith(m, c)' /\ session'[m] = c
<1>1. /\ ManagerStep(m) /\ pc[m] = "exec" /\ session' = session /\ req' = req
  BY DEF ManagerStep, Answer, At, registration
<1>2. pc'[c] = pc[c] /\ step'[c] = step[c] /\ op'[c] = op[c]
  BY <1>1, ManagerControl, ManagerDataOwn, Constants
<1>3. Called(c) = 3 /\ pc[c] \notin {"off", "mkfifo", "connect", "hello"}
      /\ ~(pc[c] \in {"open", "opening"} /\ step[c] = 1)
  BY <1>1, ServedReached
<1>4. ~Listens(m, c) /\ ~Asked(m, c)
  BY <1>1 DEF Listens, Asked
<1>5. ~(pc[c] = "ready" \/ (pc[c] \in {"open", "opening"} /\ step[c] > 1))
  BY <1>4 DEF StageWith
<1>6. ASSUME Waiting(c)
      PROVE  /\ Answered(c)'
             /\ pc[c] = "await" => req'[c] = << >> /\ Listens(m, c)'
             /\ pc[c] = "bye" => pc'[m] \in {"close", "remove"}
  <2>1. Unanswered(c) /\ Begun(m, c)
    BY <1>1, <1>4, <1>6 DEF StageWith, Waiting
  <2>2. from[m] = c /\ op[m] = op[c] /\ req[c] = << >> /\ resp[c] = << >> /\ outcome[c] = << >>
    BY <1>1, <2>1 DEF Begun, Unanswered
  <2>3. PICK result \in BOOLEAN :
          /\ WriteAnswer(m, <<op[m], result>>)
          /\ outcome' = [x \in Clients |-> outcome[x] \o
                           IF x = from[m] THEN <<<<op[m], result>>>> ELSE << >>]
    BY DEF Answer
  <2>4. /\ m \in DOMAIN pc /\ m \in DOMAIN from
        /\ pc' = [pc EXCEPT ![m] = IF op[m] = "disconnect" THEN "close" ELSE "ready"]
        /\ from' = [from EXCEPT ![m] = NoClient]
    BY Constants DEF SessionInv, ShapesOK, TypeOK, Answer, Goto
  <2>5. ClientEnd("resp", c) # {}
    <3>1. "resp" \in Kinds /\ Turn["resp"] = 1 /\ pc[c] \notin Ended \cup {"remove"}
      BY <1>6 DEF Kinds, Turn, Ended, Waiting
    <3> QED
      BY <1>3, <3>1, ClientHolds
  <2>6. resp'[c] = Append(<< >>, <<op[c], result>>)
    BY <1>1, <2>2, <2>3, <2>5, ManagerWritesOwn
  <2>7. outcome'[c] = << >> \o <<<<op[c], result>>>>
    BY <2>2, <2>3
  <2>8. Answered(c)'
    <3>1. resp'[c] = <<<<op[c], result>>>> /\ outcome'[c] = <<<<op[c], result>>>>
      BY <2>6, <2>7
    <3> QED
      BY <1>2, <3>1 DEF Answered
  <2>9. op[c] = "disconnect" <=> pc[c] = "bye"
    BY <1>6 DEF StageWith
  <2>10. CASE pc[c] = "await"
    <3>1. pc'[m] = "ready" /\ from'[m] = NoClient
      BY <2>2, <2>4, <2>9, <2>10
    <3> QED
      BY <1>1, <2>2, <2>8, <2>10, <3>1 DEF Listens
  <2>11. CASE pc[c] = "bye"
    BY <2>2, <2>4, <2>8, <2>9, <2>11
  <2> QED
    BY <1>6, <2>10, <2>11 DEF Waiting
<1>7. Waiting(c)' <=> Waiting(c)
  BY <1>2 DEF Waiting
<1>8. StageWith(m, c)'
  <2>1. Waiting(c) => op[c] \in Requests /\ (op[c] = "disconnect" <=> pc[c] = "bye")
    BY DEF StageWith
  <2> QED
    BY <1>2, <1>3, <1>5, <1>6, <1>7, <2>1 DEF StageWith
<1> QED
  BY <1>1, <1>8

LEMMA CloseStage ==
  ASSUME SessionInv, HeldOK, WorksOK, NEW m \in Managers, ClosePipe(m), up',
         NEW c \in Clients, session[m] = c, StageWith(m, c)
  PROVE  StageWith(m, c)' /\ session'[m] = c
<1>1. /\ ManagerStep(m) /\ pc[m] = "close"
      /\ UNCHANGED <<session, req, resp, outcome, op, from>>
  BY DEF ManagerStep, ClosePipe, At, registration, data, calls
<1>2. pc'[c] = pc[c] /\ step'[c] = step[c]
  BY <1>1, ManagerControl, Constants
<1>3. pc'[m] \in {"close", "remove"}
  BY <1>1, ManagerControl
<1>4. (Greeted(m)' <=> Greeted(m)) /\ ~Listens(m, c) /\ ~Begun(m, c)
  BY <1>1, <1>3 DEF Greeted, Listens, Begun
<1> QED
  BY <1>1, <1>2, <1>3, <1>4, StageQuiet

LEMMA UnlinkStage ==
  ASSUME SessionInv, SessionInv', HeldOK, WorksOK, NEW m \in Managers, UnlinkPipes(m), up',
         NEW c \in Clients, session[m] = c, StageWith(m, c)
  PROVE  StageOK(c)'
<1>1. /\ ManagerStep(m) /\ pc[m] = "remove"
      /\ UNCHANGED <<req, resp, outcome, op, from>>
      /\ session' = [session EXCEPT ![m] = NoClient]
  BY DEF ManagerStep, UnlinkPipes, At, data, calls, Queue!End
<1>2. pc'[c] = pc[c] /\ step'[c] = step[c]
  BY <1>1, ManagerControl, Constants
<1>3. Called(c) = 3 /\ pc[c] \notin {"off", "mkfifo", "connect", "hello"}
      /\ ~(pc[c] \in {"open", "opening"} /\ step[c] = 1)
  <2>1. Called(c) = 3 /\ pc[c] \notin {"off", "mkfifo", "connect"}
        /\ ~(pc[c] = "open" /\ step[c] = 1)
        /\ ~(pc[c] = "hello" \/ (pc[c] = "opening" /\ step[c] = 1))
    BY <1>1, ServedReached
  <2> QED
    BY <2>1
<1>4. ~Listens(m, c) /\ ~Asked(m, c) /\ ~Begun(m, c)
  BY <1>1 DEF Listens, Asked, Begun
<1>5. ~(pc[c] = "ready" \/ (pc[c] \in {"open", "opening"} /\ step[c] > 1))
  BY <1>4 DEF StageWith
<1>6. Waiting(c) => Answered(c) /\ pc[c] # "await"
  BY <1>4 DEF StageWith
<1>7. \A n \in Managers : session'[n] # c
  <2>1. \A n \in Managers : session[n] = c => n = m
    BY Constants DEF SessionInv, RegisteredOK
  <2>2. DOMAIN session = Managers
    BY DEF SessionInv, TypeOK
  <2> QED
    BY <1>1, <2>1, <2>2, Constants
<1>8. /\ Waiting(c)' <=> Waiting(c)
      /\ Answered(c)' <=> Answered(c)
  BY <1>1, <1>2 DEF Waiting, Answered
<1>9. Waiting(c) => op[c] \in Requests /\ (op[c] = "disconnect" <=> pc[c] = "bye")
  BY DEF StageWith
<1> QED
  BY <1>1, <1>2, <1>3, <1>5, <1>6, <1>7, <1>8, <1>9 DEF StageOK

LEMMA ManagerOwnStage ==
  ASSUME SessionInv, SessionInv', HeldOK, WorksOK, NEW m \in Managers, ManagerStep(m), up',
         NEW c \in Clients, c = session[m] \/ c = session'[m], StageOK(c)
  PROVE  StageOK(c)'
<1>1. CASE session[m] = c
  <2>1. StageWith(m, c)
    BY <1>1, StageServed
  <2>2. ~Take(m)
    BY <1>1, Constants DEF Take, At, SessionInv, TypeOK
  <2>3. CASE UnlinkPipes(m)
    BY <1>1, <2>1, <2>3, UnlinkStage
  <2>4. CASE ~UnlinkPipes(m)
    <3>1. StageWith(m, c)' /\ session'[m] = c
      BY <1>1, <2>1, <2>2, <2>4, OpenStage, HelloStage, CallReadStage, ReturnReadStage,
         AnswerStage, CloseStage DEF ManagerStep
    <3> QED
      BY <3>1, StageServedNext
  <2> QED
    BY <2>3, <2>4
<1>2. CASE session[m] # c
  <2>1. Take(m) /\ session'[m] = c
    BY <1>2, ManagerRegisters
  <2> QED
    BY <2>1, TakeStage
<1> QED
  BY <1>1, <1>2

LEMMA ManagerAnswers ==
  ASSUME SessionInv, SessionInv', NEW m \in Managers, ManagerStep(m), AnswersInv
  PROVE  AnswersInv'
<1>1. up
  BY ManagerControl
<1>2. CASE up'
  <2>1. clobbered => clobbered'
    BY DEF ManagerStep, Take, OpenPipe, PipeOpened, Hello, CallRead, ReturnRead, Answer,
       ClosePipe, UnlinkPipes, rest
  <2>2. ASSUME ~clobbered'
        PROVE  HeldOK' /\ WorksOK' /\ \A x \in Clients : StageOK(x)'
    <3>1. HeldOK /\ WorksOK /\ \A x \in Clients : StageOK(x)
      BY <1>1, <2>1, <2>2 DEF AnswersInv
    <3>2. HeldOK' /\ WorksOK'
      BY <1>2, <2>2, <3>1, ManagerHeld, ManagerWorks
    <3>3. ASSUME NEW x \in Clients
          PROVE  StageOK(x)'
      <4>1. CASE x = session[m] \/ x = session'[m]
        BY <1>2, <3>1, <4>1, ManagerOwnStage
      <4>2. CASE x # session[m] /\ x # session'[m]
        BY <1>2, <3>1, <4>2, ManagerOtherStages
      <4> QED
        BY <4>1, <4>2
    <3> QED
      BY <3>2, <3>3
  <2>3. ASSUME ~clobbered', NEW x \in Clients, Waiting(x)'
        PROVE  Unanswered(x)' \/ Answered(x)'
    <3>1. StageOK(x)'
      BY <2>2, <2>3
    <3> QED
      BY <2>3, <3>1 DEF StageOK
  <2> QED
    BY <1>2, <2>2, <2>3 DEF AnswersInv
<1>3. CASE ~up'
  <2>1. OpenPipe(m)
    BY <1>1, <1>3, ManagerShares
  <2>2. /\ UNCHANGED <<pc, resp, outcome, op, clobbered>>
        /\ desc' = [x \in Fds |-> Free]
        /\ reading' = [n \in Managers |-> NoClient]
    BY <1>3, <2>1, ServerExits DEF data, calls
  <2>3. \A x \in Clients : /\ Waiting(x)' <=> Waiting(x)
                           /\ Unanswered(x)' <=> Unanswered(x)
                           /\ Answered(x)' <=> Answered(x)
    BY <2>2 DEF Waiting, Unanswered, Answered
  <2> QED
    BY <1>3, <2>2, <2>3 DEF AnswersInv
<1> QED
  BY <1>2, <1>3

LEMMA AnswersIdle == AnswersInv /\ UNCHANGED vars => AnswersInv'
<1> SUFFICES ASSUME AnswersInv, UNCHANGED vars
             PROVE  AnswersInv'
  OBVIOUS
<1>1. UNCHANGED <<queue, session, pc, step, met, fd, desc, reading, req, resp, op, from, outcome,
                  up, clobbered>>
  BY DEF vars, registration, control, ends, data, calls, rest
<1>2. HeldOK' <=> HeldOK
  BY <1>1 DEF HeldOK, Holds, Called
<1>3. WorksOK' <=> WorksOK
  BY <1>1 DEF WorksOK, Reached, Called
<1>4. \A c \in Clients : /\ Waiting(c)' <=> Waiting(c)
                         /\ Unanswered(c)' <=> Unanswered(c)
                         /\ Answered(c)' <=> Answered(c)
                         /\ Queued(c)' <=> Queued(c)
                         /\ Served(c)' <=> Served(c)
  BY <1>1 DEF Waiting, Unanswered, Answered, Queued, Served
<1>5. \A m \in Managers, c \in Clients : /\ Greeted(m)' <=> Greeted(m)
                                         /\ Listens(m, c)' <=> Listens(m, c)
                                         /\ Asked(m, c)' <=> Asked(m, c)
                                         /\ Begun(m, c)' <=> Begun(m, c)
  BY <1>1 DEF Greeted, Listens, Asked, Begun
<1>6. \A c \in Clients : StageOK(c) => StageOK(c)'
  BY <1>1, <1>4, <1>5 DEF StageOK
<1> QED
  BY <1>1, <1>2, <1>3, <1>4, <1>6 DEF AnswersInv

(* A client that waits for an answer gets the answer to its own request,   *)
(* once, with its result, and while the server is up the pipe does not     *)
(* end before, unless a manager's second close of f_resp hit a descriptor  *)
(* of another (api.c:57-107, main.c:130, 177-245).                         *)
THEOREM AnswersAreOwn == Spec => []AnswersMatch
<1>1. SessionInv /\ SessionInv' /\ AnswersInv /\ [Next]_vars => AnswersInv'
  <2> SUFFICES ASSUME SessionInv, SessionInv', AnswersInv, [Next]_vars
               PROVE  AnswersInv'
    OBVIOUS
  <2>1. CASE UNCHANGED vars
    BY <2>1, AnswersIdle
  <2>2. CASE Next
    <3>1. UNCHANGED IdOf
      BY <2>2 DEF Next
    <3>2. CASE \E c \in Clients : ClientMoves(c)
      BY <3>1, <3>2, ClientAnswers
    <3>3. CASE \E m \in Managers : ManagerStep(m)
      BY <3>3, ManagerAnswers
    <3> QED
      BY <2>2, <3>2, <3>3 DEF Next, ClientMoves
  <2> QED
    BY <2>1, <2>2
<1> QED
  BY <1>1, AnswersInit, AnswersMatchHolds, SessionInvariant, PTL DEF Spec
=============================================================================

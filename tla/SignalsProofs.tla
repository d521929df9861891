--------------------------- MODULE SignalsProofs ---------------------------
(***************************************************************************)
(* Proofs about Signals, for any managers and clients, any capacities and  *)
(* any number of signals.                                                  *)
(***************************************************************************)
EXTENDS Signals, FiniteSetTheorems, TLAPS

-----------------------------------------------------------------------------
(* The inductive invariant.  The handler's variables: what a signal found  *)
(* with mutexBuffer is inside the handler.                                 *)
HandlingOK ==
  /\ restarts \in BOOLEAN /\ handler \in BOOLEAN
  /\ inside \in [Threads -> {"no", "write", "install"}]
  /\ signals \in 0 .. MaxSignals
  /\ server \in {"up", "killed", "exited"}
  /\ mutex \in Threads \cup {NOBODY}
  /\ mutex # NOBODY => inside[mutex] # "no"

(* A client is in one place only on its way from the FIFO to a manager.    *)
Once(s) == \A i, j \in DOMAIN s : s[i] = s[j] /\ s[i] # NoClient => i = j
Apart(s, u) == \A i \in DOMAIN s, j \in DOMAIN u : s[i] = u[j] => s[i] = NoClient

Expected(s) ==
  \A i \in DOMAIN s :
    s[i] # NoClient => client[s[i]] = "sent" /\ \A m \in Managers : session[m] # s[i]

QueuesOK ==
  /\ fifo \in Seq(Clients \cup {NoClient}) /\ Len(fifo) <= FifoCapacity
  /\ ring \in Seq(Clients \cup {NoClient}) /\ Len(ring) <= MAX_BUFFER_SIZE
  /\ hands \in Seq(Clients \cup {NoClient}) /\ Len(hands) <= 1
  /\ Once(fifo) /\ Once(ring) /\ Once(hands)
  /\ Apart(ring, hands) /\ Apart(ring, fifo) /\ Apart(hands, fifo)
  /\ Expected(fifo) /\ Expected(ring) /\ Expected(hands)

(* What a manager's place says of its client.                              *)
States(where) ==
  CASE where = "open"   -> {"sent"}
    [] where = "answer" -> {"asking"}
    [] OTHER            -> {"on", "asking", "leaving"}

SessionsOK ==
  /\ pc \in [Managers -> {"get", "open", "opcode", "answer", "close"}]
  /\ session \in [Managers -> Clients \cup {NoClient}]
  /\ client \in [Clients -> {"off", "sent", "on", "asking", "leaving", "cut", "gone"}]
  /\ \A m \in Managers :
       /\ pc[m] = "get" => session[m] = NoClient
       /\ session[m] = NoClient => pc[m] \in {"get", "open"}
       /\ session[m] # NoClient => client[session[m]] \in States(pc[m])
  /\ \A m \in Managers, n \in Managers :
       session[m] = session[n] /\ session[m] # NoClient => m = n

(* Every signal is in the handler still, or ended a session at most.       *)
Cut == {c \in Clients : client[c] = "cut"}
Closing == {m \in Managers : pc[m] = "close" /\ client[session[m]] # "leaving"}
Busy == {t \in Threads : inside[t] # "no"}

CutOK ==
  /\ IsFiniteSet(Cut) /\ IsFiniteSet(Closing) /\ IsFiniteSet(Busy)
  /\ restarts => Cut = {} /\ Closing = {}
  /\ Cardinality(Cut) + Cardinality(Closing) + Cardinality(Busy) <= signals

SignalsInv == HandlingOK /\ QueuesOK /\ SessionsOK /\ CutOK

LEMMA SignalsInit == Init => SignalsInv
<1> SUFFICES ASSUME Init
             PROVE  SignalsInv
  OBVIOUS
<1> USE SignalsAssumption DEF Init
<1>1. HandlingOK
  <2>1. inside \in [Threads -> {"no", "write", "install"}] /\ signals \in 0 .. MaxSignals
    OBVIOUS
  <2> QED
    BY <2>1 DEF HandlingOK
<1>2. QueuesOK
  BY DEF QueuesOK, Once, Apart, Expected
<1>3. SessionsOK
  BY DEF SessionsOK, States
<1>4. Cut = {} /\ Closing = {} /\ Busy = {}
  BY DEF Cut, Closing, Busy
<1>5. CutOK
  BY <1>4, FS_EmptySet DEF CutOK
<1> QED
  BY <1>1, <1>2, <1>3, <1>5 DEF SignalsInv

-----------------------------------------------------------------------------
(* Sets that lose an element, gain one at most, or lose some.              *)
LEMMA OneLost ==
  ASSUME NEW S, NEW T, NEW x \in S, IsFiniteSet(S), T \subseteq S \ {x}
  PROVE  IsFiniteSet(T) /\ Cardinality(T) \in Nat /\ Cardinality(S) \in Nat
         /\ Cardinality(T) + 1 <= Cardinality(S)
<1>1. IsFiniteSet(S \ {x}) /\ Cardinality(S \ {x}) = Cardinality(S) - 1
  BY FS_RemoveElement
<1>2. IsFiniteSet(T) /\ Cardinality(T) <= Cardinality(S \ {x})
  BY <1>1, FS_Subset
<1>3. Cardinality(T) \in Nat /\ Cardinality(S) \in Nat
  BY <1>2, FS_CardinalityType
<1> QED
  BY <1>1, <1>2, <1>3

LEMMA OneGained ==
  ASSUME NEW S, NEW T, NEW x, IsFiniteSet(S), T \subseteq S \cup {x}
  PROVE  IsFiniteSet(T) /\ Cardinality(T) \in Nat /\ Cardinality(S) \in Nat
         /\ Cardinality(T) <= Cardinality(S) + 1
<1>1. /\ IsFiniteSet(S \cup {x})
      /\ Cardinality(S \cup {x}) = Cardinality(S) \/ Cardinality(S \cup {x}) = Cardinality(S) + 1
  BY FS_AddElement
<1>2. IsFiniteSet(T) /\ Cardinality(T) <= Cardinality(S \cup {x})
  BY <1>1, FS_Subset
<1>3. Cardinality(T) \in Nat /\ Cardinality(S) \in Nat
  BY <1>2, FS_CardinalityType
<1> QED
  BY <1>1, <1>2, <1>3

LEMMA SomeLost ==
  ASSUME NEW S, NEW T, IsFiniteSet(S), T \subseteq S
  PROVE  IsFiniteSet(T) /\ Cardinality(T) \in Nat /\ Cardinality(S) \in Nat
         /\ Cardinality(T) <= Cardinality(S)
  BY FS_Subset, FS_CardinalityType

(* Where nothing is added to the three sets, nor a signal sent, CutOK      *)
(* stays.                                                                  *)
LEMMA NothingCut ==
  ASSUME HandlingOK, CutOK, Cut' \subseteq Cut, Closing' \subseteq Closing, Busy' \subseteq Busy,
         UNCHANGED <<restarts, signals>>
  PROVE  CutOK'
<1>1. IsFiniteSet(Cut') /\ Cardinality(Cut') \in Nat /\ Cardinality(Cut) \in Nat
      /\ Cardinality(Cut') <= Cardinality(Cut)
  BY SomeLost DEF CutOK
<1>2. IsFiniteSet(Closing') /\ Cardinality(Closing') \in Nat /\ Cardinality(Closing) \in Nat
      /\ Cardinality(Closing') <= Cardinality(Closing)
  BY SomeLost DEF CutOK
<1>3. IsFiniteSet(Busy') /\ Cardinality(Busy') \in Nat /\ Cardinality(Busy) \in Nat
      /\ Cardinality(Busy') <= Cardinality(Busy)
  BY SomeLost DEF CutOK
<1>4. signals \in Nat /\ Cardinality(Cut) + Cardinality(Closing) + Cardinality(Busy) <= signals
  BY SignalsAssumption DEF HandlingOK, CutOK
<1>5. Cardinality(Cut') + Cardinality(Closing') + Cardinality(Busy') <= signals'
  BY <1>1, <1>2, <1>3, <1>4
<1>6. restarts' => Cut' = {} /\ Closing' = {}
  BY DEF CutOK
<1> QED
  BY <1>1, <1>2, <1>3, <1>5, <1>6 DEF CutOK

-----------------------------------------------------------------------------
(* The signal and its handler.                                             *)

LEMMA SignalKept ==
  ASSUME SignalsInv, NEW t \in Threads, Signal(t)
  PROVE  SignalsInv'
<1> USE SignalsAssumption DEF SignalsInv
<1>1. HandlingOK'
  <2>1. CASE handler
    <3>1. inside' = [inside EXCEPT ![t] = "write"] /\ handler' = restarts
          /\ mutex' \in {mutex, t} /\ UNCHANGED <<server, restarts>>
          /\ signals' = signals + 1 /\ signals < MaxSignals
      BY <2>1 DEF Signal, queues
    <3>2. inside' \in [Threads -> {"no", "write", "install"}]
          /\ \A u \in Threads : inside[u] # "no" => inside'[u] # "no"
          /\ inside'[t] # "no"
      BY <3>1 DEF HandlingOK
    <3>3. mutex' \in Threads \cup {NOBODY} /\ (mutex' # NOBODY => inside'[mutex'] # "no")
      BY <3>1, <3>2 DEF HandlingOK
    <3> QED
      BY <3>1, <3>2, <3>3 DEF HandlingOK
  <2>2. CASE ~handler
    BY <2>2 DEF Signal, HandlingOK
  <2> QED
    BY <2>1, <2>2
<1>2. QueuesOK'
  BY DEF Signal, queues, QueuesOK, Once, Apart, Expected
<1>3. SessionsOK'
  BY DEF Signal, SessionsOK
<1>4. CutOK'
  <2>1. Cut' = Cut /\ Closing' = Closing
    BY DEF Signal, Cut, Closing
  <2>2. Busy' \subseteq Busy \cup {t}
    BY DEF Signal, Busy, HandlingOK
  <2>3. IsFiniteSet(Busy') /\ Cardinality(Busy') \in Nat /\ Cardinality(Busy) \in Nat
        /\ Cardinality(Busy') <= Cardinality(Busy) + 1
    BY <2>2, OneGained DEF CutOK
  <2>4. Cardinality(Cut) \in Nat /\ Cardinality(Closing) \in Nat /\ signals \in Nat
    BY FS_CardinalityType DEF CutOK, HandlingOK
  <2>5. signals' = signals + 1 /\ restarts' = restarts
    BY DEF Signal
  <2>6. Cardinality(Cut') + Cardinality(Closing') + Cardinality(Busy') <= signals'
    BY <2>1, <2>3, <2>4, <2>5 DEF CutOK
  <2> QED
    BY <2>1, <2>3, <2>5, <2>6 DEF CutOK
<1> QED
  BY <1>1, <1>2, <1>3, <1>4

(* What is put at the end of a sequence without repetitions and is not in  *)
(* it, or is the handler's message, keeps it so.                           *)
LEMMA Appended ==
  ASSUME NEW s \in Seq(Clients \cup {NoClient}), NEW x \in Clients \cup {NoClient},
         Once(s), \A i \in DOMAIN s : s[i] = x => x = NoClient
  PROVE  /\ Append(s, x) \in Seq(Clients \cup {NoClient})
         /\ Len(Append(s, x)) = Len(s) + 1
         /\ Once(Append(s, x))
         /\ \A i \in DOMAIN Append(s, x) : Append(s, x)[i] = x \/ (i \in DOMAIN s /\ Append(s, x)[i] = s[i])
<1> DEFINE u == Append(s, x)
<1>1. u \in Seq(Clients \cup {NoClient}) /\ Len(u) = Len(s) + 1 /\ Len(s) \in Nat
      /\ DOMAIN u = 1 .. (Len(s) + 1) /\ DOMAIN s = 1 .. Len(s)
      /\ u[Len(s) + 1] = x /\ \A i \in 1 .. Len(s) : u[i] = s[i]
  OBVIOUS
<1> HIDE DEF u
<1>2. Once(u)
  BY <1>1 DEF Once
<1>3. \A i \in DOMAIN u : u[i] = x \/ (i \in DOMAIN s /\ u[i] = s[i])
  BY <1>1
<1>4. u \in Seq(Clients \cup {NoClient}) /\ Len(u) = Len(s) + 1
  BY <1>1
<1> QED
  BY <1>2, <1>3, <1>4, Zenon DEF u

LEMMA HandlerWriteKept ==
  ASSUME SignalsInv, NEW t \in Threads, HandlerWrite(t)
  PROVE  SignalsInv'
<1> USE SignalsAssumption DEF SignalsInv
<1>1. HandlingOK'
  BY DEF HandlerWrite, HandlingOK
<1>2. QueuesOK'
  <2>1. fifo' = Append(fifo, NoClient) /\ Len(fifo) < FifoCapacity
        /\ UNCHANGED <<ring, hands, session, client>>
    BY DEF HandlerWrite, Garbage
  <2>2. /\ fifo' \in Seq(Clients \cup {NoClient}) /\ Len(fifo') = Len(fifo) + 1 /\ Once(fifo')
        /\ \A i \in DOMAIN fifo' : fifo'[i] = NoClient \/ (i \in DOMAIN fifo /\ fifo'[i] = fifo[i])
    BY <2>1, Appended DEF QueuesOK
  <2>3. Len(fifo') <= FifoCapacity
    BY <2>1, <2>2 DEF QueuesOK
  <2>4. Apart(ring, fifo') /\ Apart(hands, fifo')
    BY <2>2 DEF QueuesOK, Apart
  <2>5. Expected(fifo)'
    BY <2>1, <2>2 DEF QueuesOK, Expected
  <2> QED
    BY <2>1, <2>2, <2>3, <2>4, <2>5 DEF QueuesOK, Once, Apart, Expected
<1>3. SessionsOK'
  BY DEF HandlerWrite, SessionsOK
<1>4. CutOK'
  <2>1. Cut' \subseteq Cut /\ Closing' \subseteq Closing /\ Busy' \subseteq Busy
    BY DEF HandlerWrite, Cut, Closing, Busy, HandlingOK
  <2> QED
    BY <2>1, NothingCut DEF HandlerWrite
<1> QED
  BY <1>1, <1>2, <1>3, <1>4

LEMMA HandlerReturnKept ==
  ASSUME SignalsInv, NEW t \in Threads, HandlerReturn(t)
  PROVE  SignalsInv'
<1> USE SignalsAssumption DEF SignalsInv
<1>1. HandlingOK'
  BY DEF HandlerReturn, Interrupted, HandlingOK, Threads
<1>2. QueuesOK'
  BY DEF HandlerReturn, queues, QueuesOK, Once, Apart, Expected
<1>3. SessionsOK'
  BY DEF HandlerReturn, Interrupted, SessionsOK, States
<1>4. CutOK'
  <2>1. Cut' = Cut /\ Closing' \subseteq Closing \cup {t} /\ (restarts => Closing' = Closing)
    BY DEF HandlerReturn, Interrupted, Cut, Closing, SessionsOK
  <2>2. t \in Busy /\ Busy' \subseteq Busy \ {t}
    BY DEF HandlerReturn, Busy, HandlingOK
  <2>3. IsFiniteSet(Closing') /\ Cardinality(Closing') \in Nat /\ Cardinality(Closing) \in Nat
        /\ Cardinality(Closing') <= Cardinality(Closing) + 1
    BY <2>1, OneGained DEF CutOK
  <2>4. IsFiniteSet(Busy') /\ Cardinality(Busy') \in Nat /\ Cardinality(Busy) \in Nat
        /\ Cardinality(Busy') + 1 <= Cardinality(Busy)
    BY <2>2, OneLost DEF CutOK
  <2>5. Cardinality(Cut) \in Nat /\ signals \in Nat
    BY FS_CardinalityType DEF CutOK, HandlingOK
  <2>6. signals' = signals /\ restarts' = restarts
    BY DEF HandlerReturn
  <2>7. Cardinality(Cut') + Cardinality(Closing') + Cardinality(Busy') <= signals'
    BY <2>1, <2>3, <2>4, <2>5, <2>6 DEF CutOK
  <2> QED
    BY <2>1, <2>3, <2>4, <2>6, <2>7 DEF CutOK
<1> QED
  BY <1>1, <1>2, <1>3, <1>4

-----------------------------------------------------------------------------
(* Between the FIFO and the managers.                                      *)

(* The rest of a sequence is as free of repetitions as the sequence.       *)
LEMMA TailTaken ==
  ASSUME NEW s \in Seq(Clients \cup {NoClient}), s # <<>>, Once(s)
  PROVE  /\ Head(s) = s[1] /\ 1 \in DOMAIN s /\ Head(s) \in Clients \cup {NoClient}
         /\ Tail(s) \in Seq(Clients \cup {NoClient}) /\ Len(Tail(s)) <= Len(s)
         /\ Once(Tail(s))
         /\ \A i \in DOMAIN Tail(s) : \E j \in DOMAIN s : j # 1 /\ Tail(s)[i] = s[j]
         /\ \A i \in DOMAIN Tail(s) : Tail(s)[i] = Head(s) => Head(s) = NoClient
<1> DEFINE u == Tail(s)
<1>1. u \in Seq(Clients \cup {NoClient}) /\ Len(u) = Len(s) - 1 /\ Len(s) \in Nat /\ Len(s) # 0
      /\ DOMAIN u = 1 .. (Len(s) - 1) /\ DOMAIN s = 1 .. Len(s)
      /\ \A i \in 1 .. (Len(s) - 1) : u[i] = s[i + 1]
  OBVIOUS
<1>2. Head(s) = s[1] /\ 1 \in DOMAIN s /\ s[1] \in Clients \cup {NoClient}
  BY <1>1
<1> HIDE DEF u
<1>3. \A i \in DOMAIN u : i + 1 \in DOMAIN s /\ i + 1 # 1 /\ u[i] = s[i + 1] /\ i \in Nat
  BY <1>1
<1>4. \A i \in DOMAIN u : \E j \in DOMAIN s : j # 1 /\ u[i] = s[j]
  BY <1>3
<1>5. Once(u)
  <2> SUFFICES ASSUME NEW i \in DOMAIN u, NEW j \in DOMAIN u, u[i] = u[j], u[i] # NoClient
               PROVE  i = j
    BY DEF Once
  <2>1. i + 1 = j + 1
    BY <1>3 DEF Once
  <2> QED
    BY <2>1, <1>3
<1>6. \A i \in DOMAIN u : u[i] = Head(s) => Head(s) = NoClient
  BY <1>2, <1>4 DEF Once
<1>7. Len(u) <= Len(s)
  BY <1>1
<1> QED
  BY <1>1, <1>2, <1>4, <1>5, <1>6, <1>7, Zenon DEF u

LEMMA InstallKept ==
  ASSUME SignalsInv, Install
  PROVE  SignalsInv'
<1> USE SignalsAssumption DEF SignalsInv
<1>1. HandlingOK'
  BY DEF Install, HandlingOK
<1>2. QueuesOK'
  BY DEF Install, queues, QueuesOK, Once, Apart, Expected
<1>3. SessionsOK'
  BY DEF Install, SessionsOK
<1>4. CutOK'
  <2>1. Cut' \subseteq Cut /\ Closing' \subseteq Closing /\ Busy' \subseteq Busy
    BY DEF Install, Cut, Closing, Busy
  <2> QED
    BY <2>1, NothingCut DEF Install
<1> QED
  BY <1>1, <1>2, <1>3, <1>4

(* A step that changes the queues only has nothing to do with the rest.    *)
LEMMA QueuesAlone ==
  ASSUME SignalsInv, UNCHANGED <<handling, server, pc, session, client>>
  PROVE  HandlingOK' /\ SessionsOK' /\ CutOK'
<1> USE DEF SignalsInv
<1>1. HandlingOK'
  BY DEF handling, HandlingOK
<1>2. SessionsOK'
  BY DEF SessionsOK
<1>3. Cut' \subseteq Cut /\ Closing' \subseteq Closing /\ Busy' \subseteq Busy
  BY DEF Cut, Closing, Busy, handling
<1>4. CutOK'
  BY <1>3, NothingCut DEF handling
<1> QED
  BY <1>1, <1>2, <1>4

LEMMA ReadRequestKept ==
  ASSUME SignalsInv, ReadRequest
  PROVE  SignalsInv'
<1>1. HandlingOK' /\ SessionsOK' /\ CutOK'
  BY QueuesAlone DEF ReadRequest
<1>2. QueuesOK'
  <2> USE DEF SignalsInv
  <2>1. hands = <<>> /\ fifo # <<>> /\ hands' = <<Head(fifo)>> /\ fifo' = Tail(fifo)
        /\ UNCHANGED <<ring, session, client>>
    BY DEF ReadRequest
  <2>2. /\ Head(fifo) = fifo[1] /\ 1 \in DOMAIN fifo /\ Head(fifo) \in Clients \cup {NoClient}
        /\ fifo' \in Seq(Clients \cup {NoClient}) /\ Len(fifo') <= Len(fifo) /\ Once(fifo')
        /\ \A i \in DOMAIN fifo' : \E j \in DOMAIN fifo : j # 1 /\ fifo'[i] = fifo[j]
        /\ \A i \in DOMAIN fifo' : fifo'[i] = Head(fifo) => Head(fifo) = NoClient
    BY <2>1, TailTaken DEF QueuesOK
  <2>3. Len(fifo') <= FifoCapacity
    <3>1. Len(fifo) \in Nat /\ Len(fifo') \in Nat /\ Len(fifo) <= FifoCapacity /\ FifoCapacity \in Nat
      BY <2>2, SignalsAssumption DEF QueuesOK
    <3> QED
      BY <2>2, <3>1
  <2>4. hands' \in Seq(Clients \cup {NoClient}) /\ Len(hands') = 1 /\ DOMAIN hands' = {1}
        /\ hands'[1] = fifo[1]
    BY <2>1, <2>2
  <2>5. Once(hands')
    BY <2>4 DEF Once
  <2>6. Apart(ring, hands') /\ Apart(ring, fifo') /\ Apart(hands', fifo')
    BY <2>2, <2>4 DEF QueuesOK, Apart
  <2>7. Expected(fifo)' /\ Expected(ring)' /\ Expected(hands)'
    BY <2>1, <2>2, <2>4 DEF QueuesOK, Expected
  <2>8. Once(ring)' /\ ring' \in Seq(Clients \cup {NoClient}) /\ Len(ring') <= MAX_BUFFER_SIZE
    BY <2>1 DEF QueuesOK, Once
  <2> QED
    BY <2>1, <2>2, <2>3, <2>4, <2>5, <2>6, <2>7, <2>8 DEF QueuesOK, Once, Apart
<1> QED
  BY <1>1, <1>2 DEF SignalsInv

LEMMA PutRequestKept ==
  ASSUME SignalsInv, PutRequest
  PROVE  SignalsInv'
<1>1. HandlingOK' /\ SessionsOK' /\ CutOK'
  BY QueuesAlone DEF PutRequest
<1>2. QueuesOK'
  <2> USE DEF SignalsInv
  <2>1. hands # <<>> /\ Len(ring) < MAX_BUFFER_SIZE /\ ring' = ring \o hands /\ hands' = <<>>
        /\ UNCHANGED <<fifo, session, client>>
    BY DEF PutRequest
  <2>2. Len(hands) = 1 /\ DOMAIN hands = {1} /\ hands[1] \in Clients \cup {NoClient}
    <3>1. hands \in Seq(Clients \cup {NoClient}) /\ Len(hands) \in Nat /\ Len(hands) <= 1
      BY DEF QueuesOK
    <3>2. Len(hands) # 0
      BY <2>1, <3>1
    <3>3. Len(hands) = 1
      BY <3>1, <3>2
    <3>4. DOMAIN hands = 1 .. 1
      BY <3>1, <3>3
    <3>5. 1 \in DOMAIN hands /\ hands[1] \in Clients \cup {NoClient}
      BY <3>1, <3>4
    <3> QED
      BY <3>3, <3>4, <3>5
  <2>3. hands = <<hands[1]>>
    BY <2>2 DEF QueuesOK
  <2>4. ring' = Append(ring, hands[1])
    <3> DEFINE x == hands[1]
    <3>1. x \in Clients \cup {NoClient} /\ ring' = ring \o <<x>>
      BY <2>1, <2>2, <2>3
    <3> HIDE DEF x
    <3>2. ring \o <<x>> = Append(ring, x)
      BY <3>1 DEF QueuesOK
    <3> QED
      BY <3>1, <3>2 DEF x
  <2>5. \A i \in DOMAIN ring : ring[i] = hands[1] => hands[1] = NoClient
    BY <2>2 DEF QueuesOK, Apart
  <2>6. /\ ring' \in Seq(Clients \cup {NoClient}) /\ Len(ring') = Len(ring) + 1 /\ Once(ring')
        /\ \A i \in DOMAIN ring' : ring'[i] = hands[1] \/ (i \in DOMAIN ring /\ ring'[i] = ring[i])
    BY <2>2, <2>4, <2>5, Appended DEF QueuesOK
  <2>7. Len(ring') <= MAX_BUFFER_SIZE
    BY <2>1, <2>6, SignalsAssumption DEF QueuesOK
  <2>8. Apart(ring', fifo) /\ Expected(ring)'
    BY <2>1, <2>2, <2>6 DEF QueuesOK, Apart, Expected
  <2>9. hands' \in Seq(Clients \cup {NoClient}) /\ Len(hands') <= 1 /\ DOMAIN hands' = {}
    BY <2>1
  <2>10. Once(hands') /\ Apart(ring', hands') /\ Apart(hands', fifo) /\ Expected(hands)'
    BY <2>9 DEF Once, Apart, Expected
  <2>11. Once(fifo') /\ Expected(fifo)'
    BY <2>1 DEF QueuesOK, Once, Expected
  <2> QED
    BY <2>1, <2>6, <2>7, <2>8, <2>9, <2>10, <2>11 DEF QueuesOK, Once, Apart
<1> QED
  BY <1>1, <1>2 DEF SignalsInv

LEMMA GetRequestKept ==
  ASSUME SignalsInv, NEW m \in Managers, GetRequest(m)
  PROVE  SignalsInv'
<1> USE SignalsAssumption DEF SignalsInv
<1>1. ring # <<>> /\ pc[m] = "get" /\ session' = [session EXCEPT ![m] = Head(ring)]
      /\ pc' = [pc EXCEPT ![m] = "open"] /\ ring' = Tail(ring)
      /\ UNCHANGED <<handling, server, fifo, hands, client>>
  BY DEF GetRequest
<1>2. /\ Head(ring) = ring[1] /\ 1 \in DOMAIN ring /\ Head(ring) \in Clients \cup {NoClient}
      /\ ring' \in Seq(Clients \cup {NoClient}) /\ Len(ring') <= Len(ring) /\ Once(ring')
      /\ \A i \in DOMAIN ring' : \E j \in DOMAIN ring : j # 1 /\ ring'[i] = ring[j]
      /\ \A i \in DOMAIN ring' : ring'[i] = Head(ring) => Head(ring) = NoClient
  BY <1>1, TailTaken DEF QueuesOK
<1>3. HandlingOK'
  BY <1>1 DEF handling, HandlingOK
<1>4. QueuesOK'
  <2>1. Len(ring') <= MAX_BUFFER_SIZE
    <3>1. Len(ring) \in Nat /\ Len(ring') \in Nat /\ Len(ring) <= MAX_BUFFER_SIZE
          /\ MAX_BUFFER_SIZE \in Nat
      BY <1>2 DEF QueuesOK
    <3> QED
      BY <1>2, <3>1
  <2>2. Apart(ring', hands) /\ Apart(ring', fifo)
    BY <1>2 DEF QueuesOK, Apart
  <2>3. \A n \in Managers : session'[n] = session[n] \/ session'[n] = ring[1]
    BY <1>1, <1>2 DEF SessionsOK
  <2>4. Expected(ring)'
    BY <1>1, <1>2, <2>3 DEF QueuesOK, Expected
  <2>5. Expected(fifo)' /\ Expected(hands)'
    BY <1>1, <1>2, <2>3 DEF QueuesOK, Expected, Apart
  <2> QED
    BY <1>1, <1>2, <2>1, <2>2, <2>4, <2>5 DEF QueuesOK, Once, Apart
<1>5. SessionsOK'
  <2>1. Head(ring) # NoClient =>
          client[Head(ring)] = "sent" /\ \A n \in Managers : session[n] # Head(ring)
    BY <1>2 DEF QueuesOK, Expected
  <2> QED
    BY <1>1, <1>2, <2>1 DEF SessionsOK, States
<1>6. CutOK'
  <2>1. Cut' \subseteq Cut /\ Closing' \subseteq Closing /\ Busy' \subseteq Busy
    BY <1>1 DEF handling, Cut, Closing, Busy, SessionsOK
  <2> QED
    BY <1>1, <2>1, NothingCut DEF handling
<1> QED
  BY <1>3, <1>4, <1>5, <1>6

-----------------------------------------------------------------------------
(* The sessions.                                                           *)

(* What happens to a client that a manager serves does not concern those   *)
(* on their way to one.                                                    *)
LEMMA QueuesNotServed ==
  ASSUME SignalsInv, NEW m \in Managers, NEW state, session[m] \in Clients,
         client' = [client EXCEPT ![session[m]] = state],
         \A n \in Managers : session'[n] \in {session[n], NoClient},
         UNCHANGED queues
  PROVE  QueuesOK'
<1> USE SignalsAssumption DEF SignalsInv
<1>1. Expected(fifo)' /\ Expected(ring)' /\ Expected(hands)'
  BY DEF QueuesOK, Expected, queues, SessionsOK
<1> QED
  BY <1>1 DEF QueuesOK, Once, Apart, queues

LEMMA OpenPipesKept ==
  ASSUME SignalsInv, NEW m \in Managers, OpenPipes(m)
  PROVE  SignalsInv'
<1> USE SignalsAssumption DEF SignalsInv
<1>1. pc[m] = "open" /\ UNCHANGED <<handling, queues, session>>
  BY DEF OpenPipes
<1>2. HandlingOK'
  BY DEF OpenPipes, handling, HandlingOK
<1>3. CASE session[m] = Garbage
  <2>1. UNCHANGED <<pc, client>>
    BY <1>3 DEF OpenPipes
  <2>2. QueuesOK'
    BY <1>1, <2>1 DEF queues, QueuesOK, Once, Apart, Expected
  <2>3. SessionsOK'
    BY <1>1, <2>1 DEF SessionsOK
  <2>4. Cut' \subseteq Cut /\ Closing' \subseteq Closing /\ Busy' \subseteq Busy
    BY <1>1, <2>1 DEF handling, Cut, Closing, Busy
  <2>5. CutOK'
    BY <1>1, <2>4, NothingCut DEF handling
  <2> QED
    BY <1>2, <2>2, <2>3, <2>5
<1>4. CASE session[m] # Garbage
  <2>1. session[m] \in Clients /\ client[session[m]] = "sent"
    BY <1>1, <1>4 DEF SessionsOK, States, Garbage
  <2>2. pc' = [pc EXCEPT ![m] = "opcode"] /\ client' = [client EXCEPT ![session[m]] = "on"]
    BY <1>4 DEF OpenPipes
  <2>3. QueuesOK'
    BY <1>1, <2>1, <2>2, QueuesNotServed
  <2>4. SessionsOK'
    BY <1>1, <2>1, <2>2 DEF SessionsOK, States
  <2>5. Cut' \subseteq Cut /\ Closing' \subseteq Closing /\ Busy' \subseteq Busy
    BY <1>1, <2>1, <2>2 DEF handling, Cut, Closing, Busy, SessionsOK
  <2>6. CutOK'
    BY <1>1, <2>5, NothingCut DEF handling
  <2> QED
    BY <1>2, <2>3, <2>4, <2>6
<1> QED
  BY <1>3, <1>4

LEMMA ReadOpcodeKept ==
  ASSUME SignalsInv, NEW m \in Managers, ReadOpcode(m)
  PROVE  SignalsInv'
<1> USE SignalsAssumption DEF SignalsInv
<1>1. pc[m] = "opcode" /\ UNCHANGED <<handling, server, queues, session, client>>
  BY DEF ReadOpcode
<1>2. session[m] \in Clients /\ client[session[m]] \in {"on", "asking", "leaving"}
  BY <1>1 DEF SessionsOK, States
<1>3. /\ pc' \in [Managers -> {"get", "open", "opcode", "answer", "close"}]
      /\ \A n \in Managers \ {m} : pc'[n] = pc[n]
      /\ client[session[m]] = "asking" => pc'[m] = "answer"
      /\ client[session[m]] = "leaving" => pc'[m] = "close"
      /\ client[session[m]] = "on" => pc'[m] = "opcode"
  BY <1>2 DEF ReadOpcode, SessionsOK
<1>4. HandlingOK'
  BY <1>1 DEF handling, HandlingOK
<1>5. QueuesOK'
  BY <1>1 DEF queues, QueuesOK, Once, Apart, Expected
<1>6. SessionsOK'
  BY <1>1, <1>2, <1>3 DEF SessionsOK, States
<1>7. Cut' \subseteq Cut /\ Closing' \subseteq Closing /\ Busy' \subseteq Busy
  BY <1>1, <1>2, <1>3 DEF handling, Cut, Closing, Busy
<1>8. CutOK'
  BY <1>1, <1>7, NothingCut DEF handling
<1> QED
  BY <1>4, <1>5, <1>6, <1>8

LEMMA AnswerKept ==
  ASSUME SignalsInv, NEW m \in Managers, Answer(m)
  PROVE  SignalsInv'
<1> USE SignalsAssumption DEF SignalsInv
<1>1. pc[m] = "answer" /\ pc' = [pc EXCEPT ![m] = "opcode"]
      /\ client' = [client EXCEPT ![session[m]] = "on"]
      /\ UNCHANGED <<handling, server, queues, session>>
  BY DEF Answer
<1>2. session[m] \in Clients /\ client[session[m]] = "asking"
  BY <1>1 DEF SessionsOK, States
<1>3. HandlingOK'
  BY <1>1 DEF handling, HandlingOK
<1>4. QueuesOK'
  BY <1>1, <1>2, QueuesNotServed
<1>5. SessionsOK'
  BY <1>1, <1>2 DEF SessionsOK, States
<1>6. Cut' \subseteq Cut /\ Closing' \subseteq Closing /\ Busy' \subseteq Busy
  BY <1>1, <1>2 DEF handling, Cut, Closing, Busy, SessionsOK
<1>7. CutOK'
  BY <1>1, <1>6, NothingCut DEF handling
<1> QED
  BY <1>3, <1>4, <1>5, <1>7

LEMMA CloseSessionKept ==
  ASSUME SignalsInv, NEW m \in Managers, CloseSession(m)
  PROVE  SignalsInv'
<1> USE SignalsAssumption DEF SignalsInv
<1> DEFINE c == session[m]
<1>1. pc[m] = "close" /\ pc' = [pc EXCEPT ![m] = "get"]
      /\ session' = [session EXCEPT ![m] = NoClient]
      /\ client' = [client EXCEPT ![c] = IF client[c] = "leaving" THEN "gone" ELSE "cut"]
      /\ UNCHANGED <<handling, server, queues>>
  BY DEF CloseSession
<1>2. c \in Clients /\ client[c] \in {"on", "asking", "leaving"}
  BY <1>1 DEF SessionsOK, States
<1>3. HandlingOK'
  BY <1>1 DEF handling, HandlingOK
<1>4. QueuesOK'
  <2>1. \A n \in Managers : session'[n] \in {session[n], NoClient}
    BY <1>1 DEF SessionsOK
  <2> QED
    BY <1>1, <1>2, <2>1, QueuesNotServed
<1>5. SessionsOK'
  BY <1>1, <1>2 DEF SessionsOK, States
<1>6. CutOK'
  <2>1. \A n \in Managers \ {m} : pc'[n] = pc[n] /\ session'[n] = session[n]
    BY <1>1 DEF SessionsOK
  <2>2. pc'[m] = "get" /\ \A d \in Clients \ {c} : client'[d] = client[d]
    BY <1>1 DEF SessionsOK
  <2>3. Closing' \subseteq Closing \ {m}
    BY <1>2, <2>1, <2>2 DEF Closing, SessionsOK, States
  <2>4. CASE client[c] = "leaving"
    <3>1. Cut' \subseteq Cut
      BY <1>1, <1>2, <2>2, <2>4 DEF Cut, SessionsOK
    <3>2. Busy' \subseteq Busy
      BY <1>1 DEF Busy, handling
    <3> QED
      BY <1>1, <2>3, <3>1, <3>2, NothingCut DEF handling
  <2>5. CASE client[c] # "leaving"
    <3>1. m \in Closing /\ Cut' \subseteq Cut \cup {c} /\ UNCHANGED <<restarts, signals>>
      BY <1>1, <2>2, <2>5 DEF Closing, Cut, handling
    <3>2. ~restarts
      BY <3>1 DEF CutOK
    <3>3. IsFiniteSet(Cut') /\ Cardinality(Cut') \in Nat /\ Cardinality(Cut) \in Nat
          /\ Cardinality(Cut') <= Cardinality(Cut) + 1
      BY <3>1, OneGained DEF CutOK
    <3>4. IsFiniteSet(Closing') /\ Cardinality(Closing') \in Nat /\ Cardinality(Closing) \in Nat
          /\ Cardinality(Closing') + 1 <= Cardinality(Closing)
      BY <2>3, <3>1, OneLost DEF CutOK
    <3>5. Busy' = Busy /\ IsFiniteSet(Busy) /\ Cardinality(Busy) \in Nat /\ signals \in Nat
      BY <1>1, FS_CardinalityType DEF Busy, handling, CutOK, HandlingOK
    <3>6. Cardinality(Cut') + Cardinality(Closing') + Cardinality(Busy') <= signals'
      BY <3>1, <3>3, <3>4, <3>5 DEF CutOK
    <3> QED
      BY <3>1, <3>2, <3>3, <3>4, <3>5, <3>6 DEF CutOK
  <2> QED
    BY <2>4, <2>5
<1> QED
  BY <1>3, <1>4, <1>5, <1>6

-----------------------------------------------------------------------------
(* The clients.                                                            *)

LEMMA ConnectKept ==
  ASSUME SignalsInv, NEW c \in Clients, Connect(c)
  PROVE  SignalsInv'
<1> USE SignalsAssumption DEF SignalsInv
<1>1. client[c] = "off" /\ Len(fifo) < FifoCapacity /\ fifo' = Append(fifo, c)
      /\ client' = [client EXCEPT ![c] = "sent"]
      /\ UNCHANGED <<handling, server, ring, hands, pc, session>>
  BY DEF Connect, Becomes
<1>2. /\ \A m \in Managers : session[m] # c
      /\ \A i \in DOMAIN fifo : fifo[i] # c
      /\ \A i \in DOMAIN ring : ring[i] # c
      /\ \A i \in DOMAIN hands : hands[i] # c
  <2>1. c # NoClient /\ client[c] # "sent"
    BY <1>1
  <2>2. \A m \in Managers : session[m] # c
    BY <1>1, <2>1 DEF SessionsOK, States
  <2>3. (\A i \in DOMAIN fifo : fifo[i] # c) /\ (\A i \in DOMAIN ring : ring[i] # c)
        /\ (\A i \in DOMAIN hands : hands[i] # c)
    BY <2>1, Zenon DEF QueuesOK, Expected
  <2> QED
    BY <2>2, <2>3
<1>3. HandlingOK'
  BY <1>1 DEF handling, HandlingOK
<1>4. QueuesOK'
  <2>1. /\ fifo' \in Seq(Clients \cup {NoClient}) /\ Len(fifo') = Len(fifo) + 1 /\ Once(fifo')
        /\ \A i \in DOMAIN fifo' : fifo'[i] = c \/ (i \in DOMAIN fifo /\ fifo'[i] = fifo[i])
    BY <1>1, <1>2, Appended DEF QueuesOK
  <2>2. Len(fifo') <= FifoCapacity
    BY <1>1, <2>1 DEF QueuesOK
  <2>3. Apart(ring, fifo') /\ Apart(hands, fifo')
    BY <1>2, <2>1 DEF QueuesOK, Apart
  <2>4. Expected(fifo)'
    BY <1>1, <1>2, <2>1 DEF QueuesOK, Expected, SessionsOK
  <2>5. Expected(ring)' /\ Expected(hands)'
    BY <1>1, <1>2 DEF QueuesOK, Expected, SessionsOK
  <2> QED
    BY <1>1, <2>1, <2>2, <2>3, <2>4, <2>5 DEF QueuesOK, Once, Apart
<1>5. SessionsOK'
  BY <1>1, <1>2 DEF SessionsOK
<1>6. Cut' \subseteq Cut /\ Closing' \subseteq Closing /\ Busy' \subseteq Busy
  BY <1>1 DEF handling, Cut, Closing, Busy, SessionsOK
<1>7. CutOK'
  BY <1>1, <1>6, NothingCut DEF handling
<1> QED
  BY <1>3, <1>4, <1>5, <1>7

(* A client that has its session asks for something or leaves.             *)
LEMMA ClientOnKept ==
  ASSUME SignalsInv, NEW c \in Clients, NEW state \in {"asking", "leaving"},
         client[c] = "on", Becomes(c, state),
         UNCHANGED <<handling, server, queues, pc, session>>
  PROVE  SignalsInv'
<1> USE SignalsAssumption DEF SignalsInv
<1>1. client' = [client EXCEPT ![c] = state]
  BY DEF Becomes
<1>2. HandlingOK'
  BY DEF handling, HandlingOK
<1>3. QueuesOK'
  <2>1. Expected(fifo)' /\ Expected(ring)' /\ Expected(hands)'
    BY <1>1 DEF QueuesOK, Expected, queues, SessionsOK
  <2> QED
    BY <2>1 DEF QueuesOK, Once, Apart, queues
<1>4. SessionsOK'
  <2>1. \A m \in Managers : session[m] = c => pc[m] \notin {"open", "answer"}
    BY DEF SessionsOK, States
  <2> QED
    BY <1>1, <2>1 DEF SessionsOK, States
<1>5. Cut' \subseteq Cut /\ Closing' \subseteq Closing /\ Busy' \subseteq Busy
  BY <1>1 DEF handling, Cut, Closing, Busy, SessionsOK
<1>6. CutOK'
  BY <1>5, NothingCut DEF handling
<1> QED
  BY <1>2, <1>3, <1>4, <1>6

-----------------------------------------------------------------------------

LEMMA SignalsStep == SignalsInv /\ [Next]_vars => SignalsInv'
<1> SUFFICES ASSUME SignalsInv, [Next]_vars
             PROVE  SignalsInv'
  OBVIOUS
<1>1. CASE \E t \in Threads : Signal(t) \/ HandlerStep(t)
  BY <1>1, SignalKept, HandlerWriteKept, HandlerReturnKept DEF HandlerStep
<1>2. CASE MainStep
  BY <1>2, InstallKept, ReadRequestKept, PutRequestKept DEF MainStep
<1>3. CASE \E m \in Managers : ManagerStep(m)
  BY <1>3, GetRequestKept, OpenPipesKept, ReadOpcodeKept, AnswerKept, CloseSessionKept
     DEF ManagerStep
<1>4. CASE \E c \in Clients : Connect(c) \/ Ask(c) \/ Leave(c)
  BY <1>4, ConnectKept, ClientOnKept DEF Ask, Leave
<1>5. CASE UNCHANGED vars
  <2>1. HandlingOK' /\ SessionsOK' /\ CutOK'
    BY <1>5, QueuesAlone DEF vars
  <2>2. QueuesOK'
    BY <1>5 DEF vars, queues, SignalsInv, QueuesOK, Once, Apart, Expected
  <2> QED
    BY <2>1, <2>2 DEF SignalsInv
<1> QED
  BY <1>1, <1>2, <1>3, <1>4, <1>5 DEF Next

(* mutexBuffer is kept only inside the handler, the FIFO and the ring hold *)
(* what fits, every manager past the opening of its pipes serves a client, *)
(* and no two the same: apanha_usr1, main_Thread, manager_thread.          *)
THEOREM SignalsTypeCorrect == Spec => []TypeOK
<1>1. SignalsInv => TypeOK
  <2> SUFFICES ASSUME SignalsInv
               PROVE  TypeOK
    OBVIOUS
  <2>1. \A m \in Managers : pc[m] \in {"opcode", "answer", "close"} => session[m] \in Clients
    BY DEF SignalsInv, SessionsOK
  <2> QED
    BY <2>1 DEF SignalsInv, HandlingOK, QueuesOK, SessionsOK, TypeOK
<1>2. Spec => []SignalsInv
  BY SignalsInit, SignalsStep, PTL DEF Spec
<1> QED
  BY <1>1, <1>2, PTL

(* A signal costs at most one client its session by a read that it         *)
(* interrupts: what apanha_usr1 interrupts in manager_thread is one read   *)
(* of an opcode, and none where calls are restarted.                       *)
THEOREM OneSessionPerSignal == Spec => []CutBySignals
<1>1. SignalsInv => CutBySignals
  <2> SUFFICES ASSUME SignalsInv
               PROVE  CutBySignals
    OBVIOUS
  <2>1. Cardinality(Cut) \in Nat /\ Cardinality(Closing) \in Nat /\ Cardinality(Busy) \in Nat
        /\ signals \in Nat
    BY SignalsAssumption, FS_CardinalityType DEF SignalsInv, CutOK, HandlingOK
  <2>2. CASE restarts
    <3>1. Cardinality(Cut) = 0 /\ Cardinality(Closing) = 0
      BY <2>2, FS_EmptySet DEF SignalsInv, CutOK
    <3>2. Cardinality(Cut) + Cardinality(Closing) <= 0
      BY <3>1
    <3> QED
      BY <2>2, <3>2 DEF CutBySignals, Cut, Closing
  <2>3. CASE ~restarts
    <3>1. Cardinality(Cut) + Cardinality(Closing) <= signals
      BY <2>1 DEF SignalsInv, CutOK
    <3> QED
      BY <2>3, <3>1 DEF CutBySignals, Cut, Closing
  <2> QED
    BY <2>2, <2>3
<1>2. Spec => []SignalsInv
  BY SignalsInit, SignalsStep, PTL DEF Spec
<1> QED
  BY <1>1, <1>2, PTL
=============================================================================

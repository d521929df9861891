---------------------- MODULE RegistrationBufferProofs ----------------------
(***************************************************************************)
(* Proofs about RegistrationBuffer for any finite set of manager threads,  *)
(* any set of requests and any buffer size.                                *)
(***************************************************************************)
EXTENDS RegistrationBuffer, FiniteSetTheorems, SequenceTheorems, TLAPS

(* The three invariants are inductive only together: count stays in range  *)
(* because a thread past its while loop still owns the mutex, and the ring *)
(* equation needs count in range.                                          *)
BufferInv == TypeOK /\ MutexHeld /\ RingInv

(* Signalling moves one thread to p and perhaps one sleeper to relock.     *)
LEMMA SignalMoves ==
  ASSUME NEW W \in SUBSET Threads, NEW t \in Threads,
         NEW p \in MainPCs \cup ManagerPCs, TypeOK,
         SignalAndMove(W, t, p), pc[t] # "wait"
  PROVE  /\ pc' \in [Threads -> MainPCs \cup ManagerPCs]
         /\ pc'[t] = p
         /\ \A u \in Threads \ {t} :
              \/ pc'[u] = pc[u]
              \/ u \in W /\ pc[u] = "wait" /\ pc'[u] = "relock"
BY DEF SignalAndMove, TypeOK, MainPCs, ManagerPCs

LEMMA BufferInvInit == Init => BufferInv
BY BufferAssumption
   DEF Init, BufferInv, TypeOK, MutexHeld, RingInv, Slot, Slots, Threads,
       MainPCs, ManagerPCs

LEMMA BufferInvInductive == BufferInv /\ [Next]_vars => BufferInv'
<1> SUFFICES ASSUME BufferInv, [Next]_vars
             PROVE  BufferInv'
  OBVIOUS
<1>0. Main \in Threads /\ Managers \subseteq Threads /\ Main \notin Managers
      /\ NOBODY \notin Threads
  BY BufferAssumption DEF Threads
<1> USE BufferAssumption, <1>0
    DEF BufferInv, TypeOK, MutexHeld, RingInv, Slot, Slots, MainPCs, ManagerPCs
<1>1. CASE UNCHANGED vars
  BY <1>1 DEF vars, ring
<1>2. ASSUME NEW r \in Requests, Connect(r)
      PROVE  BufferInv'
  BY <1>2, AppendProperties DEF Connect, ring
<1>3. CASE ResetLock
  BY <1>3 DEF ResetLock, ring, Threads
<1>4. CASE Reset
  BY <1>4 DEF Reset, Threads
<1>5. CASE Read
  BY <1>5, HeadTailProperties DEF Read, ring
<1>6. ASSUME NEW t \in Threads, Lock(t) \/ Relock(t)
      PROVE  BufferInv'
  <2>1. /\ pc[t] \in {"lock", "relock"} /\ mutex = NOBODY
        /\ mutex' = t /\ pc' = [pc EXCEPT ![t] = "check"]
        /\ UNCHANGED <<sent, fifo, buf, prodptr, consptr, count, msg, wakeups>>
    BY <1>6 DEF Lock, Relock, ring
  <2>2. TypeOK'
    BY <2>1 DEF Threads
  <2>3. MutexHeld'
    BY <2>1
  <2>4. RingInv'
    BY <2>1
  <2> QED
    BY <2>2, <2>3, <2>4
<1>7. ASSUME NEW t \in Threads, Wait(t) \/ GoOn(t)
      PROVE  BufferInv'
  <2>1. CASE Wait(t)
    BY <2>1 DEF Wait, ring, Threads
  <2>2. CASE GoOn(t) /\ t = Main
    BY <2>2 DEF GoOn, MustWait, ring
  <2>3. CASE GoOn(t) /\ t \in Managers
    BY <2>3 DEF GoOn, MustWait, ring
  <2> QED
    BY <1>7, <2>1, <2>2, <2>3 DEF Threads
<1>8. ASSUME NEW t \in Threads, SpuriousWakeup(t)
      PROVE  BufferInv'
  BY <1>8 DEF SpuriousWakeup, ring, Threads
<1>9. CASE Put
  <2>1. /\ pc' \in [Threads -> MainPCs \cup ManagerPCs]
        /\ pc'[Main] = "read"
        /\ \A m \in Managers :
             \/ pc'[m] = pc[m]
             \/ pc[m] = "wait" /\ pc'[m] = "relock"
    <3>1. SignalAndMove(Managers, Main, "read") /\ pc[Main] # "wait"
      BY <1>9 DEF Put
    <3>2. Managers \in SUBSET Threads /\ "read" \in MainPCs \cup ManagerPCs
      OBVIOUS
    <3>3. TypeOK
      OBVIOUS
    <3> HIDE DEF BufferInv, TypeOK, MutexHeld, RingInv, MainPCs, ManagerPCs
    <3> QED
      BY <3>1, <3>2, <3>3, SignalMoves
  <2>2. TypeOK'
    BY <1>9, <2>1 DEF Put, Advance
  <2>3. MutexHeld'
    BY <1>9, <2>1 DEF Put, Threads
  <2>4. RingInv'
    BY <1>9, <2>1 DEF Put, Advance, Threads
  <2> QED
    BY <2>2, <2>3, <2>4
<1>10. ASSUME NEW m \in Managers, Get(m)
       PROVE  BufferInv'
  <2>1. /\ pc' \in [Threads -> MainPCs \cup ManagerPCs]
        /\ pc'[m] = "serve"
        /\ \/ pc'[Main] = pc[Main]
           \/ pc[Main] = "wait" /\ pc'[Main] = "relock"
        /\ \A n \in Managers \ {m} : pc'[n] = pc[n]
    <3>1. SignalAndMove({Main}, m, "serve") /\ pc[m] # "wait"
      BY <1>10 DEF Get
    <3>2. {Main} \in SUBSET Threads /\ "serve" \in MainPCs \cup ManagerPCs
          /\ m \in Threads
      OBVIOUS
    <3>3. TypeOK
      OBVIOUS
    <3> HIDE DEF BufferInv, TypeOK, MutexHeld, RingInv, MainPCs, ManagerPCs
    <3>4. /\ pc' \in [Threads -> MainPCs \cup ManagerPCs]
          /\ pc'[m] = "serve"
          /\ \A u \in Threads \ {m} :
               \/ pc'[u] = pc[u]
               \/ u \in {Main} /\ pc[u] = "wait" /\ pc'[u] = "relock"
      BY <3>1, <3>2, <3>3, SignalMoves, Zenon
    <3>5. Main # m /\ \A n \in Managers \ {m} : n \in Threads \ {m} /\ n # Main
      OBVIOUS
    <3> QED
      BY <3>4, <3>5
  <2>2. TypeOK'
    <3>1. buf[consptr] \in Requests \cup {NoRequest}
      OBVIOUS
    <3>2. count' \in 0 .. MAX_BUFFER_SIZE /\ consptr' \in Slots
      BY <1>10 DEF Get, Advance
    <3>3. msg' \in [Threads -> Requests \cup {NoRequest}]
      BY <1>10, <3>1 DEF Get
    <3> QED
      BY <1>10, <2>1, <3>2, <3>3 DEF Get
  <2>3. MutexHeld'
    BY <1>10, <2>1 DEF Get, Threads
  <2>4. RingInv'
    BY <1>10, <2>1 DEF Get, Advance, Threads
  <2> QED
    BY <2>2, <2>3, <2>4
<1>11. ASSUME NEW m \in Managers, EndSession(m)
       PROVE  BufferInv'
  BY <1>11 DEF EndSession, ring
<1> QED
  BY <1>1, <1>2, <1>3, <1>4, <1>5, <1>6, <1>7, <1>8, <1>9, <1>10, <1>11
     DEF Next, MainStep, ThreadStep

(* Every variable keeps its shape; the indices stay inside the ring.       *)
THEOREM BufferTypeCorrect == Spec => []TypeOK
<1>1. BufferInv => TypeOK
  BY DEF BufferInv
<1> QED
  BY <1>1, BufferInvInit, BufferInvInductive, PTL DEF Spec

(* Type correctness, exclusive use of the ring, and the ring equation.     *)
THEOREM BufferCorrect == Spec => [](TypeOK /\ MutexHeld /\ RingInv)
<1>1. BufferInv => TypeOK /\ MutexHeld /\ RingInv
  BY DEF BufferInv
<1> QED
  BY <1>1, BufferInvInit, BufferInvInductive, PTL DEF Spec

-----------------------------------------------------------------------------
(* No lost wakeup.  The managers that are awake are counted, so what the   *)
(* steps do to their set is stated first.                                  *)
LEMMA AwakeCounted ==
  /\ IsFiniteSet(Awake) /\ Cardinality(Awake) \in Nat
  /\ Awake \subseteq Awake' => Cardinality(Awake) <= Cardinality(Awake')
  /\ \A m : m \notin Awake /\ Awake \cup {m} \subseteq Awake' =>
       Cardinality(Awake) + 1 <= Cardinality(Awake')
  /\ \A m : m \in Awake /\ Awake' = Awake \ {m} =>
       Cardinality(Awake') = Cardinality(Awake) - 1
<1>1. /\ Awake \subseteq Managers /\ Awake' \subseteq Managers
      /\ IsFiniteSet(Managers)
  BY BufferAssumption DEF Awake
<1>2. /\ IsFiniteSet(Awake) /\ IsFiniteSet(Awake')
      /\ Cardinality(Awake) \in Nat /\ Cardinality(Awake') \in Nat
  BY <1>1, FS_Subset, FS_CardinalityType
<1>3. Awake \subseteq Awake' => Cardinality(Awake) <= Cardinality(Awake')
  BY <1>2, FS_Subset
<1>4. ASSUME NEW m, m \notin Awake, Awake \cup {m} \subseteq Awake'
      PROVE  Cardinality(Awake) + 1 <= Cardinality(Awake')
  <2>1. IsFiniteSet(Awake \cup {m}) /\ Cardinality(Awake \cup {m}) = Cardinality(Awake) + 1
    BY <1>2, <1>4, FS_AddElement
  <2>2. Cardinality(Awake \cup {m}) <= Cardinality(Awake')
    BY <1>2, <1>4, FS_Subset
  <2> QED
    BY <2>1, <2>2
<1>5. ASSUME NEW m, m \in Awake, Awake' = Awake \ {m}
      PROVE  Cardinality(Awake') = Cardinality(Awake) - 1
  BY <1>2, <1>5, FS_RemoveElement
<1> QED
  BY <1>2, <1>3, <1>4, <1>5

LEMMA NoLostWakeupKept ==
  BufferInv /\ NoLostWakeup /\ [Next]_vars => NoLostWakeup'
<1> SUFFICES ASSUME BufferInv, NoLostWakeup, [Next]_vars
             PROVE  NoLostWakeup'
  OBVIOUS
<1>0. /\ Main \in Threads /\ Managers \subseteq Threads /\ Main \notin Managers
      /\ pc \in [Threads -> MainPCs \cup ManagerPCs]
      /\ pc[Main] \in MainPCs /\ \A m \in Managers : pc[m] \in ManagerPCs
      /\ count \in 0 .. MAX_BUFFER_SIZE /\ MAX_BUFFER_SIZE \in Nat \ {0}
      /\ Cardinality(Awake) \in Nat /\ Cardinality(Awake') \in Nat
  BY BufferAssumption, AwakeCounted, FS_Subset, FS_CardinalityType
     DEF Threads, BufferInv, TypeOK, Awake
(* A step that lets nobody fall asleep or into a session, and leaves count. *)
<1>1. ASSUME count' = count,
             \A m \in Managers : pc'[m] = "wait" => pc[m] = "wait",
             \A m \in Awake : pc'[m] \in {"lock", "relock", "check", "get"},
             pc'[Main] = "wait" => pc[Main] = "wait"
      PROVE  NoLostWakeup'
  <2>1. Awake \subseteq Awake'
    BY <1>1 DEF Awake
  <2>2. Cardinality(Awake) <= Cardinality(Awake')
    BY <2>1, AwakeCounted
  <2> QED
    BY <1>0, <1>1, <2>2 DEF NoLostWakeup
<1>2. CASE UNCHANGED vars
  BY <1>1, <1>2 DEF vars, ring, Awake
<1>3. ASSUME NEW r \in Requests, Connect(r)
      PROVE  NoLostWakeup'
  BY <1>1, <1>3 DEF Connect, ring, Awake
<1>4. CASE ResetLock \/ Read
  BY <1>0, <1>1, <1>4 DEF ResetLock, Read, ring, Awake
<1>5. CASE Reset
  BY <1>0, <1>5 DEF Reset, NoLostWakeup
<1>6. CASE Put
  <2>1. /\ count' = count + 1 /\ pc[Main] = "put"
        /\ SignalAndMove(Managers, Main, "read")
    BY <1>6 DEF Put
  <2>2. pc'[Main] = "read"
    BY <1>0, <2>1 DEF SignalAndMove
  <2>3. CASE {w \in Managers : pc[w] = "wait"} = {}
    BY <1>0, <2>1, <2>2, <2>3 DEF SignalAndMove, NoLostWakeup
  <2>4. ASSUME NEW w \in Managers, pc[w] = "wait",
               pc' = [pc EXCEPT ![Main] = "read", ![w] = "relock"]
        PROVE  NoLostWakeup'
    <3>1. w \notin Awake /\ Awake \cup {w} \subseteq Awake'
      BY <1>0, <2>4 DEF Awake
    <3>2. Cardinality(Awake) + 1 <= Cardinality(Awake')
      BY <3>1, AwakeCounted
    <3>3. count <= Cardinality(Awake)
      BY <2>4 DEF NoLostWakeup
    <3> QED
      BY <1>0, <2>1, <2>2, <3>2, <3>3 DEF NoLostWakeup
  <2> QED
    BY <2>1, <2>3, <2>4 DEF SignalAndMove
<1>7. ASSUME NEW t \in Threads, Lock(t) \/ Relock(t)
      PROVE  NoLostWakeup'
  BY <1>0, <1>1, <1>7 DEF Lock, Relock, ring, Awake
<1>8. ASSUME NEW t \in Threads, Wait(t)
      PROVE  NoLostWakeup'
  <2>1. count' = count /\ pc' = [pc EXCEPT ![t] = "wait"] /\ MustWait(t)
    BY <1>8 DEF Wait, ring
  <2>2. CASE t = Main
    <3>1. Awake' = Awake /\ \A m \in Managers : pc'[m] = pc[m]
      BY <1>0, <2>1, <2>2 DEF Awake
    <3> QED
      BY <1>0, <2>1, <2>2, <3>1 DEF NoLostWakeup, MustWait
  <2>3. CASE t \in Managers
    BY <1>0, <2>1, <2>3 DEF NoLostWakeup, MustWait
  <2> QED
    BY <2>2, <2>3 DEF Threads
<1>9. ASSUME NEW t \in Threads, GoOn(t) \/ SpuriousWakeup(t)
      PROVE  NoLostWakeup'
  BY <1>0, <1>1, <1>9 DEF GoOn, SpuriousWakeup, ring, Awake
<1>10. ASSUME NEW m \in Managers, Get(m)
       PROVE  NoLostWakeup'
  <2>1. /\ count' = count - 1 /\ pc[m] = "get" /\ count > 0
        /\ SignalAndMove({Main}, m, "serve")
    BY <1>10 DEF Get, BufferInv, RingInv
  <2>2. /\ pc'[m] = "serve" /\ \A n \in Managers \ {m} : pc'[n] = pc[n]
        /\ pc'[Main] # "wait"
    BY <1>0, <2>1 DEF SignalAndMove
  <2>3. m \in Awake /\ Awake' = Awake \ {m}
    BY <2>1, <2>2 DEF Awake
  <2>4. Cardinality(Awake') = Cardinality(Awake) - 1
    BY <2>3, AwakeCounted
  <2> QED
    BY <1>0, <2>1, <2>2, <2>4 DEF NoLostWakeup
<1>11. ASSUME NEW m \in Managers, EndSession(m)
       PROVE  NoLostWakeup'
  BY <1>0, <1>1, <1>11 DEF EndSession, ring, Awake
<1> QED
  BY <1>2, <1>3, <1>4, <1>5, <1>6, <1>7, <1>8, <1>9, <1>10, <1>11
     DEF Next, MainStep, ThreadStep

(* Whatever the interleaving and however the threads are woken, a manager  *)
(* never sleeps while there are more requests in the ring than managers    *)
(* awake, nor does main_Thread while there is room.                        *)
THEOREM BufferNoLostWakeup == Spec => []NoLostWakeup
<1>1. Init => NoLostWakeup
  BY BufferAssumption DEF Init, NoLostWakeup, Threads
<1> QED
  BY <1>1, BufferInvInit, BufferInvInductive, NoLostWakeupKept, PTL DEF Spec

-----------------------------------------------------------------------------
(* The threads implement the queue.  The requests that wait are a           *)
(* concatenation of three sequences, which the steps lengthen, shorten and *)
(* regroup.                                                                *)
LEMMA LastAppended ==
  ASSUME NEW S, NEW s \in Seq(S), NEW u \in Seq(S), NEW e \in S
  PROVE  s \o Append(u, e) = Append(s \o u, e)
<1>1. <<e>> \in Seq(S) /\ s \o u \in Seq(S)
  BY ConcatProperties
<1>2. Append(u, e) = u \o <<e>> /\ Append(s \o u, e) = (s \o u) \o <<e>>
  BY <1>1, AppendIsConcat
<1>3. (s \o u) \o <<e>> = s \o (u \o <<e>>)
  BY <1>1, ConcatAssociative
<1> QED
  BY <1>2, <1>3

LEMMA HeadMoved ==
  ASSUME NEW S, NEW s \in Seq(S), NEW u \in Seq(S), u # << >>
  PROVE  (s \o <<Head(u)>>) \o Tail(u) = s \o u
<1>1. <<Head(u)>> \in Seq(S) /\ Tail(u) \in Seq(S)
  BY HeadTailProperties
<1>2. <<Head(u)>> \o Tail(u) = u
  BY HeadTailProperties
<1>3. (s \o <<Head(u)>>) \o Tail(u) = s \o (<<Head(u)>> \o Tail(u))
  BY <1>1, ConcatAssociative
<1> QED
  BY <1>2, <1>3

LEMMA FirstTaken ==
  ASSUME NEW S, NEW s \in Seq(S), NEW u \in Seq(S), s # << >>
  PROVE  /\ s \o u # << >>
         /\ Head(s \o u) = Head(s) /\ Tail(s \o u) = Tail(s) \o u
<1>1. s \o u \in Seq(S) /\ Len(s) \in Nat \ {0} /\ Len(s \o u) = Len(s) + Len(u)
  BY ConcatProperties, EmptySeq, LenProperties
<1>2. s \o u # << >>
  BY <1>1, LenProperties
<1>3. Head(s \o u) = Head(s)
  BY <1>1, ConcatProperties
<1>4. Tail(s) \in Seq(S) /\ Tail(s \o u) \in Seq(S) /\ Tail(s) \o u \in Seq(S)
      /\ Len(Tail(s)) = Len(s) - 1
      /\ Len(Tail(s \o u)) = Len(s) + Len(u) - 1
      /\ Len(Tail(s) \o u) = Len(s) - 1 + Len(u)
  BY <1>1, <1>2, HeadTailProperties, ConcatProperties
<1>5. \A i \in 1 .. Len(s) + Len(u) - 1 : Tail(s \o u)[i] = (Tail(s) \o u)[i]
  <2> SUFFICES ASSUME NEW i \in 1 .. Len(s) + Len(u) - 1
               PROVE  Tail(s \o u)[i] = (Tail(s) \o u)[i]
    OBVIOUS
  <2>1. Tail(s \o u)[i] = (s \o u)[i + 1]
    BY <1>1, <1>2, <1>4, HeadTailProperties
  <2>2. (s \o u)[i + 1] = IF i + 1 <= Len(s) THEN s[i + 1] ELSE u[i + 1 - Len(s)]
    BY <1>1, ConcatProperties
  <2>3. (Tail(s) \o u)[i] = IF i <= Len(s) - 1 THEN Tail(s)[i] ELSE u[i - (Len(s) - 1)]
    BY <1>4, ConcatProperties
  <2>4. i <= Len(s) - 1 => Tail(s)[i] = s[i + 1]
    BY <1>4, HeadTailProperties
  <2> QED
    BY <1>1, <2>1, <2>2, <2>3, <2>4
<1> QED
  BY <1>2, <1>3, <1>4, <1>5, SeqEqual

(* Only requests are handed around: the zeroed memory of a slot that was   *)
(* never written, or of a message, is never taken for one.                 *)
InHandPCs == {"lock", "check", "wait", "relock", "put"}

HandedInv ==
  /\ \A i \in 0 .. count - 1 : buf[Slot(i)] \in Requests
  /\ pc[Main] \in InHandPCs => msg[Main] \in Requests
  /\ \A m \in Managers : pc[m] = "serve" => msg[m] \in Requests

(* The ring, seen from consptr: what is put comes last, behind the requests *)
(* that are there, and what is got was first.                              *)
LEMMA RingSlots ==
  ASSUME BufferInv
  PROVE  /\ \A i \in 0 .. count - 1 : Slot(i) \in Slots
         /\ count < MAX_BUFFER_SIZE =>
              /\ Slot(count) = prodptr
              /\ \A i \in 0 .. count - 1 : Slot(i) # prodptr
         /\ Slot(0) = consptr
         /\ \A i \in 0 .. count - 2 :
              (IF Advance(consptr) + i >= MAX_BUFFER_SIZE
               THEN Advance(consptr) + i - MAX_BUFFER_SIZE
               ELSE Advance(consptr) + i) = Slot(i + 1)
BY BufferAssumption DEF BufferInv, TypeOK, RingInv, Slot, Slots, Advance

LEMMA HandedInit == Init => HandedInv
BY BufferAssumption DEF Init, HandedInv, InHandPCs, Threads

LEMMA HandedKept == BufferInv /\ HandedInv /\ [Next]_vars => HandedInv'
<1> SUFFICES ASSUME BufferInv, HandedInv, [Next]_vars
             PROVE  HandedInv'
  OBVIOUS
<1>0. /\ Main \in Threads /\ Managers \subseteq Threads /\ Main \notin Managers
      /\ pc \in [Threads -> MainPCs \cup ManagerPCs] /\ fifo \in Seq(Requests)
      /\ msg \in [Threads -> Requests \cup {NoRequest}]
      /\ buf \in [Slots -> Requests \cup {NoRequest}] /\ prodptr \in Slots
      /\ count \in 0 .. MAX_BUFFER_SIZE /\ MAX_BUFFER_SIZE \in Nat \ {0}
  BY BufferAssumption DEF Threads, BufferInv, TypeOK
<1> USE DEF HandedInv, InHandPCs
<1>1. ASSUME ring' = ring, msg' = msg,
             pc'[Main] \in InHandPCs => pc[Main] \in InHandPCs,
             \A m \in Managers : pc'[m] = "serve" => pc[m] = "serve"
      PROVE  HandedInv'
  BY <1>1 DEF ring, Slot
<1>2. CASE UNCHANGED vars
  BY <1>1, <1>2 DEF vars, ring
<1>3. ASSUME NEW r \in Requests, Connect(r)
      PROVE  HandedInv'
  BY <1>1, <1>3 DEF Connect
<1>4. CASE ResetLock
  BY <1>0, <1>1, <1>4 DEF ResetLock
<1>5. CASE Reset
  BY <1>0, <1>5 DEF Reset
<1>6. CASE Read
  <2>1. Head(fifo) \in Requests
    BY <1>0, <1>6, HeadTailProperties DEF Read
  <2> QED
    BY <1>0, <1>6, <2>1 DEF Read, ring, Slot
<1>7. ASSUME NEW t \in Threads, ThreadStep(t) \/ SpuriousWakeup(t)
      PROVE  HandedInv'
  <2>1. /\ pc[t] \in {"lock", "relock", "check", "wait"} /\ msg' = msg /\ ring' = ring
        /\ \E p \in {"check", "wait", "relock", "put", "get"} : pc' = [pc EXCEPT ![t] = p]
    BY <1>7 DEF ThreadStep, Lock, Relock, Wait, GoOn, SpuriousWakeup, ring
  <2>2. pc'[Main] \in InHandPCs => pc[Main] \in InHandPCs
    BY <1>0, <2>1
  <2>3. \A m \in Managers : pc'[m] = "serve" => pc[m] = "serve"
    BY <1>0, <2>1
  <2> QED
    BY <1>1, <2>1, <2>2, <2>3
<1>8. CASE Put
  <2>1. /\ pc[Main] = "put" /\ count < MAX_BUFFER_SIZE /\ count' = count + 1
        /\ buf' = [buf EXCEPT ![prodptr] = msg[Main]] /\ msg' = msg
        /\ consptr' = consptr
        /\ SignalAndMove(Managers, Main, "read")
    BY <1>8 DEF Put, BufferInv, RingInv
  <2>2. pc'[Main] = "read" /\ \A m \in Managers : pc'[m] = "serve" => pc[m] = "serve"
    BY <1>0, <2>1 DEF SignalAndMove
  <2>3. ASSUME NEW i \in 0 .. count
        PROVE  buf'[Slot(i)] \in Requests
    BY <1>0, <2>1, <2>3, RingSlots
  <2> QED
    BY <1>0, <2>1, <2>2, <2>3 DEF Slot
<1>9. ASSUME NEW m \in Managers, Get(m)
      PROVE  HandedInv'
  <2>1. /\ pc[m] = "get" /\ count > 0 /\ count' = count - 1
        /\ buf' = buf /\ msg' = [msg EXCEPT ![m] = buf[consptr]]
        /\ consptr' = Advance(consptr)
        /\ SignalAndMove({Main}, m, "serve")
    BY <1>9 DEF Get, BufferInv, RingInv
  <2>2. /\ pc'[Main] \in InHandPCs => pc[Main] \in InHandPCs
        /\ \A n \in Managers \ {m} : pc'[n] = pc[n]
    BY <1>0, <2>1 DEF SignalAndMove
  <2>3. buf[consptr] \in Requests
    BY <1>0, <2>1, RingSlots
  <2>4. ASSUME NEW i \in 0 .. count' - 1
        PROVE  buf'[Slot(i)'] \in Requests
    <3>1. Slot(i)' = Slot(i + 1)
      BY <1>0, <2>1, RingSlots DEF Slot
    <3> QED
      BY <1>0, <2>1, <3>1
  <2> QED
    BY <1>0, <2>1, <2>2, <2>3, <2>4
<1>10. ASSUME NEW m \in Managers, EndSession(m)
       PROVE  HandedInv'
  BY <1>0, <1>1, <1>10 DEF EndSession
<1> QED
  BY <1>2, <1>3, <1>4, <1>5, <1>6, <1>7, <1>8, <1>9, <1>10 DEF Next, MainStep

(* What the refinement mapping is made of is typed, and changes only with  *)
(* the variables it is made from.                                          *)
LEMMA WaitingTyped ==
  ASSUME BufferInv, HandedInv
  PROVE  /\ Buffered \in Seq(Requests) /\ Len(Buffered) = count
         /\ InHand \in Seq(Requests) /\ fifo \in Seq(Requests)
         /\ Waiting = Buffered \o (InHand \o fifo)
         /\ InHand \o fifo \in Seq(Requests)
<1>1. count \in Nat /\ fifo \in Seq(Requests)
  BY BufferAssumption DEF BufferInv, TypeOK
<1>2. Buffered \in Seq(Requests) /\ Len(Buffered) = count
  <2>1. \A i \in 1 .. count : buf[Slot(i - 1)] \in Requests
    BY <1>1 DEF HandedInv
  <2>2. Buffered \in [1 .. count -> Requests]
    BY <2>1 DEF Buffered
  <2> QED
    BY <1>1, <2>2, IsASeq, LenProperties
<1>3. InHand \in Seq(Requests)
  BY DEF InHand, HandedInv, InHandPCs
<1>4. Waiting = Buffered \o (InHand \o fifo)
  BY <1>1, <1>2, <1>3, ConcatAssociative DEF Waiting
<1> QED
  BY <1>1, <1>2, <1>3, <1>4, ConcatProperties

LEMMA QueueInit == Init => Queue!Init
<1> SUFFICES ASSUME Init PROVE Queue!Init
  OBVIOUS
<1>1. Buffered = << >> /\ InHand = << >> /\ fifo = << >>
  BY BufferAssumption DEF Init, Buffered, InHand, Threads
<1>2. Waiting = << >>
  BY <1>1 DEF Waiting
<1>3. \A m \in Managers : pc[m] # "serve"
  BY BufferAssumption DEF Init, Threads
<1> QED
  BY <1>2, <1>3 DEF Init, Queue!Init

(* Every step of a thread or a client is one of the queue's, or none.      *)
LEMMA QueueStep == BufferInv /\ HandedInv /\ [Next]_vars => [Queue!Next]_(Queue!vars)
<1> SUFFICES ASSUME BufferInv, HandedInv, [Next]_vars
             PROVE  [Queue!Next]_(Queue!vars)
  OBVIOUS
<1> DEFINE serving == [m \in Managers |-> IF pc[m] = "serve" THEN msg[m] ELSE NoRequest]
<1>0. /\ Main \in Threads /\ Managers \subseteq Threads /\ Main \notin Managers
      /\ pc \in [Threads -> MainPCs \cup ManagerPCs] /\ fifo \in Seq(Requests)
      /\ msg \in [Threads -> Requests \cup {NoRequest}]
      /\ buf \in [Slots -> Requests \cup {NoRequest}] /\ prodptr \in Slots
      /\ count \in 0 .. MAX_BUFFER_SIZE /\ MAX_BUFFER_SIZE \in Nat \ {0}
      /\ NoRequest \notin Requests
  BY BufferAssumption DEF Threads, BufferInv, TypeOK
<1>1. ASSUME sent' = sent, Waiting' = Waiting,
             \A m \in Managers : /\ pc'[m] = "serve" <=> pc[m] = "serve"
                                 /\ pc[m] = "serve" => msg'[m] = msg[m]
      PROVE  UNCHANGED Queue!vars
  BY <1>1 DEF Queue!vars
<1>2. ASSUME ring' = ring, msg' = msg, fifo' = fifo, sent' = sent,
             pc'[Main] \in InHandPCs <=> pc[Main] \in InHandPCs,
             \A m \in Managers : pc'[m] = "serve" <=> pc[m] = "serve"
      PROVE  UNCHANGED Queue!vars
  <2>1. Waiting' = Waiting
    BY <1>2 DEF Waiting, Buffered, Slot, InHand, ring, InHandPCs
  <2> QED
    BY <1>1, <1>2, <2>1
<1>3. CASE UNCHANGED vars
  BY <1>2, <1>3 DEF vars, ring
<1>4. ASSUME NEW r \in Requests, Connect(r)
      PROVE  Queue!Arrive(r)
  <2>1. /\ r \notin sent /\ sent' = sent \cup {r} /\ fifo' = Append(fifo, r)
        /\ UNCHANGED <<pc, msg, buf, prodptr, consptr, count>>
    BY <1>4 DEF Connect, ring
  <2>2. Buffered' = Buffered /\ InHand' = InHand /\ serving' = serving
    BY <2>1 DEF Buffered, Slot, InHand
  <2>3. Buffered \o InHand \in Seq(Requests)
    BY WaitingTyped, ConcatProperties
  <2>4. Waiting' = Append(Waiting, r)
    BY <1>0, <2>1, <2>2, <2>3, LastAppended DEF Waiting
  <2> QED
    BY <2>1, <2>2, <2>4 DEF Queue!Arrive
<1>5. CASE ResetLock
  BY <1>0, <1>2, <1>5 DEF ResetLock, InHandPCs
<1>6. CASE Reset
  <2>1. /\ pc[Main] = "reset" /\ pc' = [pc EXCEPT ![Main] = "read"] /\ count = 0
        /\ count' = 0 /\ UNCHANGED <<sent, fifo, buf, consptr, msg>>
    BY <1>6 DEF Reset, BufferInv, RingInv
  <2>2. Buffered' = Buffered /\ InHand' = InHand
    BY <1>0, <2>1 DEF Buffered, Slot, InHand
  <2> QED
    BY <1>0, <1>1, <2>1, <2>2 DEF Waiting
<1>7. CASE Read
  <2>1. /\ pc[Main] = "read" /\ fifo # << >> /\ fifo' = Tail(fifo)
        /\ msg' = [msg EXCEPT ![Main] = Head(fifo)]
        /\ pc' = [pc EXCEPT ![Main] = "lock"]
        /\ UNCHANGED <<sent, buf, prodptr, consptr, count>>
    BY <1>7 DEF Read, ring
  <2>2. Buffered' = Buffered /\ InHand = << >> /\ InHand' = <<Head(fifo)>>
    BY <1>0, <2>1 DEF Buffered, Slot, InHand
  <2>3. Buffered \in Seq(Requests) /\ Buffered \o InHand = Buffered
    BY <2>2, WaitingTyped, ConcatEmptySeq
  <2>4. Waiting' = Waiting
    BY <1>0, <2>1, <2>2, <2>3, HeadMoved DEF Waiting
  <2> QED
    BY <1>0, <1>1, <2>1, <2>4
<1>8. ASSUME NEW t \in Threads, ThreadStep(t) \/ SpuriousWakeup(t)
      PROVE  UNCHANGED Queue!vars
  <2>1. /\ pc[t] \in {"lock", "relock", "check", "wait"} /\ msg' = msg /\ ring' = ring
        /\ fifo' = fifo /\ sent' = sent
        /\ \E p \in {"check", "wait", "relock", "put", "get"} :
             pc' = [pc EXCEPT ![t] = p] /\ (t = Main => p # "get")
    BY <1>8 DEF ThreadStep, Lock, Relock, Wait, GoOn, SpuriousWakeup, ring
  <2> QED
    BY <1>0, <1>2, <2>1 DEF InHandPCs
<1>9. CASE Put
  <2>1. /\ pc[Main] = "put" /\ count < MAX_BUFFER_SIZE /\ count' = count + 1
        /\ buf' = [buf EXCEPT ![prodptr] = msg[Main]] /\ msg' = msg
        /\ consptr' = consptr /\ sent' = sent /\ fifo' = fifo
        /\ SignalAndMove(Managers, Main, "read")
    BY <1>9 DEF Put, BufferInv, RingInv
  <2>2. /\ pc'[Main] = "read"
        /\ \A m \in Managers : pc'[m] = "serve" <=> pc[m] = "serve"
    BY <1>0, <2>1 DEF SignalAndMove
  <2>3. InHand = <<msg[Main]>> /\ InHand' = << >> /\ msg[Main] \in Requests
    BY <2>1, <2>2 DEF InHand, HandedInv, InHandPCs
  <2>4. Buffered' = Append(Buffered, msg[Main])
    <3> DEFINE after == Append(Buffered, msg[Main])
    <3> HIDE DEF after
    <3>1. Buffered' = [i \in 1 .. count + 1 |-> buf'[Slot(i - 1)]]
      BY <2>1 DEF Buffered, Slot
    <3>2. \A i \in 1 .. count : buf'[Slot(i - 1)] = buf[Slot(i - 1)]
      BY <1>0, <2>1, RingSlots
    <3>3. buf'[Slot(count)] = msg[Main]
      BY <1>0, <2>1, RingSlots
    <3>4. Buffered' \in Seq(Requests) /\ Len(Buffered') = count + 1
      <4>1. \A i \in 1 .. count : buf'[Slot(i - 1)] \in Requests
        BY <1>0, <3>2 DEF HandedInv
      <4>2. \A i \in 1 .. count + 1 : buf'[Slot(i - 1)] \in Requests
        <5> SUFFICES ASSUME NEW i \in 1 .. count + 1
                     PROVE  buf'[Slot(i - 1)] \in Requests
          OBVIOUS
        <5>1. i \in 1 .. count \/ (i = count + 1 /\ i - 1 = count)
          BY <1>0
        <5> QED
          BY <2>3, <3>3, <4>1, <5>1
      <4>3. Buffered' \in [1 .. count + 1 -> Requests]
        BY <3>1, <4>2
      <4> QED
        BY <1>0, <4>3, IsASeq, LenProperties
    <3>5. /\ after \in Seq(Requests)
          /\ Len(after) = count + 1
          /\ \A i \in 1 .. count : after[i] = Buffered[i]
          /\ after[count + 1] = msg[Main]
      BY <2>3, WaitingTyped, AppendProperties DEF after
    <3>6. \A i \in 1 .. count + 1 : Buffered'[i] = after[i]
      <4> SUFFICES ASSUME NEW i \in 1 .. count + 1
                   PROVE  Buffered'[i] = after[i]
        OBVIOUS
      <4>1. Buffered'[i] = buf'[Slot(i - 1)]
        BY <3>1
      <4>2. CASE i \in 1 .. count
        <5>1. Buffered[i] = buf[Slot(i - 1)]
          BY <4>2 DEF Buffered
        <5> QED
          BY <3>2, <3>5, <4>1, <4>2, <5>1
      <4>3. CASE i = count + 1
        <5>1. i - 1 = count
          BY <1>0, <4>3
        <5>2. Buffered'[i] = msg[Main]
          BY <3>3, <4>1, <5>1
        <5>3. after[i] = msg[Main]
          BY <1>0, <3>5, <4>3
        <5> QED
          BY <5>2, <5>3
      <4> QED
        BY <1>0, <4>2, <4>3
    <3> QED
      BY <3>4, <3>5, <3>6, SeqEqual DEF after
  <2>5. Waiting' = Waiting
    <3>1. Buffered \in Seq(Requests) /\ Append(Buffered, msg[Main]) \in Seq(Requests)
          /\ Append(Buffered, msg[Main]) = Buffered \o <<msg[Main]>>
      BY <2>3, WaitingTyped, AppendProperties, AppendIsConcat
    <3>2. Append(Buffered, msg[Main]) \o << >> = Append(Buffered, msg[Main])
      BY <3>1, ConcatEmptySeq
    <3> QED
      BY <2>1, <2>3, <2>4, <3>1, <3>2 DEF Waiting
  <2> QED
    BY <1>0, <1>1, <2>1, <2>2, <2>5
<1>10. ASSUME NEW m \in Managers, Get(m)
       PROVE  Queue!Take(m)
  <2>1. /\ pc[m] = "get" /\ count > 0 /\ count' = count - 1
        /\ buf' = buf /\ msg' = [msg EXCEPT ![m] = buf[consptr]]
        /\ consptr' = Advance(consptr) /\ sent' = sent /\ fifo' = fifo
        /\ SignalAndMove({Main}, m, "serve")
    BY <1>10 DEF Get, BufferInv, RingInv
  <2>2. /\ pc'[Main] \in InHandPCs <=> pc[Main] \in InHandPCs
        /\ \A n \in Managers \ {m} : pc'[n] = pc[n]
        /\ pc'[m] = "serve"
    BY <1>0, <2>1 DEF SignalAndMove, InHandPCs
  <2>3. InHand' = InHand
    BY <1>0, <2>1, <2>2 DEF InHand, InHandPCs
  <2>4. Buffered # << >> /\ Head(Buffered) = buf[consptr] /\ Buffered' = Tail(Buffered)
    <3>1. Buffered \in Seq(Requests) /\ Len(Buffered) = count
      BY WaitingTyped
    <3>2. Buffered # << >> /\ Buffered[1] = buf[consptr]
      BY <1>0, <2>1, <3>1, RingSlots DEF Buffered
    <3>3. Tail(Buffered) \in Seq(Requests) /\ Len(Tail(Buffered)) = count - 1
          /\ \A i \in 1 .. count - 1 : Tail(Buffered)[i] = Buffered[i + 1]
      BY <3>1, <3>2, HeadTailProperties
    <3>4. \A i \in 1 .. count - 1 : Buffered'[i] = Buffered[i + 1]
      <4> SUFFICES ASSUME NEW i \in 1 .. count - 1
                   PROVE  Buffered'[i] = Buffered[i + 1]
        OBVIOUS
      <4>1. Slot(i - 1)' = Slot(i)
        BY <1>0, <2>1, RingSlots DEF Slot
      <4>2. Buffered'[i] = buf'[Slot(i - 1)']
        BY <1>0, <2>1 DEF Buffered
      <4> QED
        BY <1>0, <2>1, <4>1, <4>2 DEF Buffered
    <3>5. Buffered' \in Seq(Requests) /\ Len(Buffered') = count - 1
      <4>1. Buffered' \in [1 .. count - 1 -> Requests]
        <5>1. \A i \in 1 .. count - 1 : Buffered[i + 1] \in Requests
          BY <1>0, <3>1, ElementOfSeq
        <5>2. Buffered' = [i \in 1 .. count - 1 |-> buf'[Slot(i - 1)']]
          BY <2>1 DEF Buffered
        <5> QED
          BY <3>4, <5>1, <5>2
      <4> QED
        BY <1>0, <2>1, <4>1, IsASeq, LenProperties
    <3>6. Head(Buffered) = buf[consptr]
      BY <3>1, <3>2
    <3> QED
      BY <3>2, <3>3, <3>4, <3>5, <3>6, SeqEqual
  <2>5. Waiting # << >> /\ Head(Waiting) = buf[consptr] /\ Waiting' = Tail(Waiting)
    <3>1. Waiting = Buffered \o (InHand \o fifo) /\ Buffered \in Seq(Requests)
          /\ InHand \in Seq(Requests) /\ fifo \in Seq(Requests)
          /\ InHand \o fifo \in Seq(Requests)
      BY WaitingTyped
    <3>2. Tail(Buffered) \in Seq(Requests)
      BY <2>4, <3>1, HeadTailProperties
    <3>3. Waiting' = (Tail(Buffered) \o InHand) \o fifo
      BY <2>1, <2>3, <2>4 DEF Waiting
    <3>4. Waiting' = Tail(Buffered) \o (InHand \o fifo)
      BY <3>1, <3>2, <3>3, ConcatAssociative
    <3> QED
      BY <2>4, <3>1, <3>4, FirstTaken
  <2>6. serving[m] = NoRequest /\ serving' = [serving EXCEPT ![m] = buf[consptr]]
    BY <1>0, <2>1, <2>2
  <2> QED
    BY <2>1, <2>5, <2>6 DEF Queue!Take
<1>11. ASSUME NEW m \in Managers, EndSession(m)
       PROVE  Queue!End(m)
  <2>1. /\ pc[m] = "serve" /\ pc' = [pc EXCEPT ![m] = "lock"]
        /\ UNCHANGED <<sent, fifo, msg, buf, prodptr, consptr, count>>
    BY <1>11 DEF EndSession, ring
  <2>2. Waiting' = Waiting
    BY <1>0, <2>1 DEF Waiting, Buffered, Slot, InHand
  <2>3. serving[m] # NoRequest /\ serving' = [serving EXCEPT ![m] = NoRequest]
    BY <1>0, <2>1 DEF HandedInv
  <2> QED
    BY <2>1, <2>2, <2>3 DEF Queue!End
<1> QED
  BY <1>3, <1>4, <1>5, <1>6, <1>7, <1>8, <1>9, <1>10, <1>11
     DEF Next, MainStep, Queue!Next

(* The ring buffer and its threads implement the queue: each request is    *)
(* handed to one manager, in the order of arrival, none is lost or made up *)
(* on the way.                                                             *)
THEOREM BufferImplementsQueue == Spec => FirstComeFirstServed
<1>1. Spec => [](BufferInv /\ HandedInv)
  BY BufferInvInit, BufferInvInductive, HandedInit, HandedKept, PTL DEF Spec
<1> QED
  BY <1>1, QueueInit, QueueStep, PTL DEF Spec, FirstComeFirstServed, Queue!Spec
=============================================================================

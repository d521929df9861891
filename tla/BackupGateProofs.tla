-------------------------- MODULE BackupGateProofs --------------------------
(***************************************************************************)
(* Proofs about BackupGate for any finite set of job threads and any       *)
(* positive max_backups.                                                   *)
(***************************************************************************)
EXTENDS BackupGate, FiniteSetTheorems, TLAPS

(* The type invariant of BackupGate holds in every reachable state. *)
THEOREM BackupGateTypeCorrect == Spec => []TypeOK
<1>1. Init => TypeOK
  BY GateAssumption DEF Init, TypeOK, PCs
<1>2. TypeOK /\ [Next]_vars => TypeOK'
  <2> SUFFICES ASSUME TypeOK, [Next]_vars
               PROVE  TypeOK'
    OBVIOUS
  <2> USE GateAssumption DEF TypeOK, PCs
  <2>1. CASE UNCHANGED vars
    BY <2>1 DEF vars
  <2>2. ASSUME NEW j \in Jobs, Backup(j)
        PROVE  TypeOK'
    BY <2>2 DEF Backup
  <2>3. ASSUME NEW j \in Jobs, GateStep(j)
        PROVE  TypeOK'
    BY <2>3 DEF GateStep, Lock, Admit, BeginWait, EndWait
  <2>4. ASSUME NEW j \in Jobs, Fork(j)
        PROVE  TypeOK'
    BY <2>4 DEF Fork
  <2>5. ASSUME NEW j \in Jobs, InterruptWait(j)
        PROVE  TypeOK'
    BY <2>5 DEF InterruptWait
  <2>6. CASE ChildExit
    BY <2>6 DEF ChildExit
  <2> QED
    BY <2>1, <2>2, <2>3, <2>4, <2>5, <2>6 DEF Next
<1> QED
  BY <1>1, <1>2, PTL DEF Spec

(* Only the owner of n_current_backups_lock tests the counter or waits. *)
THEOREM BackupGateMutex == Spec => []GateHeld
<1>1. Init => GateHeld
  BY GateAssumption DEF Init, GateHeld
<1>2. TypeOK /\ GateHeld /\ [Next]_vars => GateHeld'
  BY GateAssumption
     DEF TypeOK, GateHeld, Next, vars, Backup, GateStep, Lock, Admit,
         BeginWait, EndWait, InterruptWait, Fork, ChildExit
<1> QED
  BY <1>1, <1>2, BackupGateTypeCorrect, PTL DEF Spec

-----------------------------------------------------------------------------
(* The threads about to fork are finitely many, and never more than the    *)
(* job threads.                                                            *)
LEMMA PendingFinite ==
  /\ IsFiniteSet(Pending)
  /\ Cardinality(Pending) \in Nat
  /\ Cardinality(Pending) <= Cardinality(Jobs)
  /\ Cardinality(Jobs) \in Nat
BY GateAssumption, FS_Subset, FS_CardinalityType DEF Pending

(* A thread that is let through joins the pending forks. *)
LEMMA PendingGrows ==
  ASSUME NEW j \in Jobs, TypeOK, pc[j] # "fork",
         pc' = [pc EXCEPT ![j] = "fork"]
  PROVE  Cardinality(Pending') = Cardinality(Pending) + 1
<1>1. Pending' = Pending \cup {j} /\ j \notin Pending
  BY DEF Pending, TypeOK
<1> QED
  BY <1>1, PendingFinite, FS_AddElement

(* A thread that forks, or fails to, leaves them. *)
LEMMA PendingShrinks ==
  ASSUME NEW j \in Jobs, TypeOK, pc[j] = "fork",
         pc' = [pc EXCEPT ![j] = "idle"]
  PROVE  Cardinality(Pending') = Cardinality(Pending) - 1
<1>1. Pending' = Pending \ {j} /\ j \in Pending
  BY DEF Pending, TypeOK
<1> QED
  BY <1>1, PendingFinite, FS_RemoveElement

(* A move between two other places leaves them as they are. *)
LEMMA PendingUnchanged ==
  ASSUME NEW j \in Jobs, NEW p, TypeOK, pc[j] # "fork", p # "fork",
         pc' = [pc EXCEPT ![j] = p]
  PROVE  Pending' = Pending
BY DEF Pending, TypeOK

-----------------------------------------------------------------------------
GateInv == TypeOK /\ CounterInv /\ ChildrenBounded

(* The bound is inductive together with the counter's: while the counter   *)
(* is below max_backups it covers every child and every pending fork; once *)
(* it is full, a thread is let through either in exchange for a child that *)
(* is reaped, or when there is no child at all, and then only the pending  *)
(* forks, at most one per thread, are left to count.  A wait cut short      *)
(* pays for the thread it lets through by counting itself.                 *)
LEMMA GateInvInductive == GateInv /\ [Next]_vars => GateInv'
<1> SUFFICES ASSUME TypeOK, CounterInv, ChildrenBounded, [Next]_vars, TypeOK'
             PROVE  CounterInv' /\ ChildrenBounded'
  <2>1. TypeOK /\ [Next]_vars => TypeOK'
    BY GateAssumption
       DEF TypeOK, PCs, Next, vars, Backup, GateStep, Lock, Admit, BeginWait,
           EndWait, InterruptWait, Fork, ChildExit
  <2> QED
    BY <2>1 DEF GateInv
<1>1. /\ Cardinality(Pending) \in Nat
      /\ Cardinality(Pending') \in Nat
      /\ Cardinality(Jobs) \in Nat
      /\ Cardinality(Pending') <= Cardinality(Jobs)
  <2>1. IsFiniteSet(Pending') /\ Cardinality(Pending') \in Nat
        /\ Cardinality(Pending') <= Cardinality(Jobs)
    BY GateAssumption, FS_Subset, FS_CardinalityType DEF Pending
  <2> QED
    BY <2>1, PendingFinite
<1> USE <1>1, GateAssumption
    DEF TypeOK, CounterInv, ChildrenBounded, Larger, children
<1>2. CASE UNCHANGED vars
  <2>1. Cardinality(Pending') = Cardinality(Pending)
    BY <1>2 DEF vars, Pending
  <2> QED
    BY <1>2, <2>1 DEF vars
<1>3. ASSUME NEW j \in Jobs, Backup(j) \/ Lock(j) \/ BeginWait(j)
      PROVE  CounterInv' /\ ChildrenBounded'
  <2>1. Cardinality(Pending') = Cardinality(Pending)
    BY <1>3, PendingUnchanged DEF Backup, Lock, BeginWait
  <2> QED
    BY <1>3, <2>1 DEF Backup, Lock, BeginWait
<1>4. ASSUME NEW j \in Jobs, Admit(j)
      PROVE  CounterInv' /\ ChildrenBounded'
  <2>1. Cardinality(Pending') = Cardinality(Pending) + 1
    BY <1>4, PendingGrows DEF Admit
  <2> QED
    BY <1>4, <2>1 DEF Admit
<1>5. ASSUME NEW j \in Jobs, EndWait(j)
      PROVE  CounterInv' /\ ChildrenBounded'
  <2>1. Cardinality(Pending') = Cardinality(Pending) + 1
    BY <1>5, PendingGrows DEF EndWait
  <2>2. active_backups = max_backups
    BY <1>5 DEF EndWait
  <2>3. CounterInv'
    BY <1>5, <2>2 DEF EndWait
  <2>4. ChildrenBounded'
    BY <1>5, <2>1 DEF EndWait
  <2> QED
    BY <2>3, <2>4
<1>6. ASSUME NEW j \in Jobs, Fork(j)
      PROVE  CounterInv' /\ ChildrenBounded'
  <2>1. Cardinality(Pending') = Cardinality(Pending) - 1
    BY <1>6, PendingShrinks DEF Fork
  <2> QED
    BY <1>6, <2>1 DEF Fork
<1>7. ASSUME NEW j \in Jobs, InterruptWait(j)
      PROVE  CounterInv' /\ ChildrenBounded'
  <2>1. Cardinality(Pending') = Cardinality(Pending) + 1
    BY <1>7, PendingGrows DEF InterruptWait
  <2>2. active_backups = max_backups
    BY <1>7 DEF InterruptWait
  <2> QED
    BY <1>7, <2>1, <2>2 DEF InterruptWait
<1>8. CASE ChildExit
  <2>1. Cardinality(Pending') = Cardinality(Pending)
    BY <1>8 DEF ChildExit, Pending
  <2> QED
    BY <1>8, <2>1 DEF ChildExit
<1> QED
  BY <1>2, <1>3, <1>4, <1>5, <1>6, <1>7, <1>8 DEF Next, GateStep

LEMMA GateInvInit == Init => GateInv
<1> SUFFICES ASSUME Init
             PROVE  GateInv
  OBVIOUS
<1>1. Cardinality(Pending) = 0
  <2>1. Pending = {}
    BY DEF Init, Pending
  <2> QED
    BY <2>1, FS_EmptySet
<1>2. TypeOK
  BY GateAssumption DEF Init, TypeOK, PCs
<1>3. CounterInv
  BY <1>1, GateAssumption DEF Init, CounterInv, children
<1>4. ChildrenBounded
  BY <1>1, PendingFinite, GateAssumption
     DEF Init, ChildrenBounded, Larger, children
<1> QED
  BY <1>2, <1>3, <1>4 DEF GateInv

(* The counter stays within max_backups, covers every child and every fork *)
(* under way until it is full, and only then does a thread wait.           *)
THEOREM BackupCounterCorrect == Spec => []CounterInv
<1>1. GateInv => CounterInv
  BY DEF GateInv
<1> QED
  BY <1>1, GateInvInit, GateInvInductive, PTL DEF Spec

(* Whatever the interleaving of the job threads and of the exits of their  *)
(* children, the children and the forks under way never exceed the larger  *)
(* of max_backups and the number of job threads by more than the number of *)
(* waits cut short.                                                        *)
THEOREM BackupChildrenBounded == Spec => []ChildrenBounded
<1>1. GateInv => ChildrenBounded
  BY DEF GateInv
<1> QED
  BY <1>1, GateInvInit, GateInvInductive, PTL DEF Spec
=============================================================================

----------------------------- MODULE BackupGate -----------------------------
(***************************************************************************)
(* The BACKUP command of the job threads: the counter active_backups that  *)
(* run_job keeps under n_current_backups_lock, the child that kvs_backup   *)
(* forks, and the wait(NULL) that run_job calls when the counter has       *)
(* reached max_backups.                                                    *)
(*                                                                         *)
(* A child is a process: it runs while it writes its .bck file, becomes a  *)
(* zombie at exit(1) and disappears when some thread's wait(NULL) reaps    *)
(* it.  Only the numbers of running and of zombie children matter here;    *)
(* what a child writes is the subject of KVStore.                          *)
(***************************************************************************)
EXTENDS Naturals, FiniteSets

CONSTANTS
  Jobs,         (* the job threads (get_file), max_threads of them         *)
  max_backups,  (* third command-line argument, rejected by main when 0    *)
  MaxCommands,  (* bound: BACKUP commands per thread                       *)
  MaxSignals,   (* bound: signals that interrupt a thread                  *)
  NOBODY        (* no thread: the mutex is free                            *)

ASSUME GateAssumption ==
  /\ IsFiniteSet(Jobs)
  /\ max_backups \in Nat \ {0}
  /\ MaxCommands \in Nat /\ MaxSignals \in Nat
  /\ NOBODY \notin Jobs

VARIABLES
  active_backups,  (* the counter of main.c                                *)
  gate,            (* owner of n_current_backups_lock, or NOBODY           *)
  pc,              (* where each job thread is in the BACKUP command       *)
  commands,        (* BACKUP commands each thread has started              *)
  running,         (* forked children still writing their backup           *)
  zombies,         (* children that called exit(1), not yet reaped         *)
  interrupts       (* waits that a signal has ended                        *)

vars == <<active_backups, gate, pc, commands, running, zombies, interrupts>>

(* A thread is idle between BACKUP commands, is at the mutex (lock), holds *)
(* it and tests the counter (test), holds it inside wait(NULL) (wait), or  *)
(* has released it and is about to fork (fork).                            *)
PCs == {"idle", "lock", "test", "wait", "fork"}

Pending == {j \in Jobs : pc[j] = "fork"}

children == running + zombies

-----------------------------------------------------------------------------
(* Faulty variants of actions defined below.                               *)

(* The limit is tested with <= instead of <. *)
AdmitOneTooMany(j) ==
  /\ pc[j] = "test"
  /\ active_backups <= max_backups
  /\ active_backups' = active_backups + 1
  /\ gate' = NOBODY
  /\ pc' = [pc EXCEPT ![j] = "fork"]
  /\ UNCHANGED <<commands, running, zombies, interrupts>>

(* The increment of active_backups is forgotten. *)
AdmitUncounted(j) ==
  /\ pc[j] = "test"
  /\ active_backups < max_backups
  /\ gate' = NOBODY
  /\ pc' = [pc EXCEPT ![j] = "fork"]
  /\ UNCHANGED <<active_backups, commands, running, zombies, interrupts>>

(* The unlock is moved into the else branch, so that the waiting branch    *)
(* goes on to fork with the mutex.                                         *)
EndWaitLocked(j) ==
  /\ pc[j] = "wait"
  /\ \/ zombies > 0 /\ zombies' = zombies - 1
     \/ children = 0 /\ UNCHANGED zombies
  /\ pc' = [pc EXCEPT ![j] = "fork"]
  /\ UNCHANGED <<active_backups, gate, commands, running, interrupts>>

(* A thread that waits reaps a child that does not exist. *)
EndWaitBlindly(j) ==
  /\ pc[j] = "wait"
  /\ zombies' = zombies - 1
  /\ gate' = NOBODY
  /\ pc' = [pc EXCEPT ![j] = "fork"]
  /\ UNCHANGED <<active_backups, commands, running, interrupts>>

-----------------------------------------------------------------------------
Init ==
  /\ active_backups = 0
  /\ gate = NOBODY
  /\ pc = [j \in Jobs |-> "idle"]
  /\ commands = [j \in Jobs |-> 0]
  /\ running = 0
  /\ zombies = 0
  /\ interrupts = 0

(* run_job reads a BACKUP line. *)
Backup(j) ==
  /\ pc[j] = "idle"
  /\ commands[j] < MaxCommands
  /\ commands' = [commands EXCEPT ![j] = @ + 1]
  /\ pc' = [pc EXCEPT ![j] = "lock"]
  /\ UNCHANGED <<active_backups, gate, running, zombies, interrupts>>

(* pthread_mutex_lock(&n_current_backups_lock) *)
Lock(j) ==
  /\ pc[j] = "lock"
  /\ gate = NOBODY
  /\ gate' = j
  /\ pc' = [pc EXCEPT ![j] = "test"]
  /\ UNCHANGED <<active_backups, commands, running, zombies, interrupts>>

(* active_backups < max_backups: count this backup and release the mutex. *)
Admit(j) ==
  /\ pc[j] = "test"
  /\ active_backups < max_backups
  /\ active_backups' = active_backups + 1
  /\ gate' = NOBODY
  /\ pc' = [pc EXCEPT ![j] = "fork"]
  /\ UNCHANGED <<commands, running, zombies, interrupts>>

(* active_backups >= max_backups: enter wait(NULL), holding the mutex. *)
BeginWait(j) ==
  /\ pc[j] = "test"
  /\ active_backups >= max_backups
  /\ pc' = [pc EXCEPT ![j] = "wait"]
  /\ UNCHANGED <<active_backups, gate, commands, running, zombies, interrupts>>

(* wait(NULL) returns: it reaps a zombie, or fails with ECHILD when there  *)
(* is no child at all.  Either way its result is ignored, the counter is   *)
(* left alone and the mutex is released.                                   *)
EndWait(j) ==
  /\ pc[j] = "wait"
  /\ \/ zombies > 0 /\ zombies' = zombies - 1
     \/ children = 0 /\ UNCHANGED zombies
  /\ gate' = NOBODY
  /\ pc' = [pc EXCEPT ![j] = "fork"]
  /\ UNCHANGED <<active_backups, commands, running, interrupts>>

(* SIGUSR1 comes to the thread (see Signals) and wait(NULL) fails with      *)
(* EINTR, which looks the same to run_job.                                 *)
InterruptWait(j) ==
  /\ pc[j] = "wait"
  /\ interrupts < MaxSignals
  /\ interrupts' = interrupts + 1
  /\ gate' = NOBODY
  /\ pc' = [pc EXCEPT ![j] = "fork"]
  /\ UNCHANGED <<active_backups, commands, running, zombies>>

(* kvs_backup: fork() under the table's read lock, outside the mutex.  It  *)
(* may fail: kvs_backup then returns -1 and no child exists, but the       *)
(* counter is not given back.                                              *)
Fork(j) ==
  /\ pc[j] = "fork"
  /\ running' \in {running, running + 1}
  /\ pc' = [pc EXCEPT ![j] = "idle"]
  /\ UNCHANGED <<active_backups, gate, commands, zombies, interrupts>>

(* A child has written its backup and calls exit(1). *)
ChildExit ==
  /\ running > 0
  /\ running' = running - 1
  /\ zombies' = zombies + 1
  /\ UNCHANGED <<active_backups, gate, pc, commands, interrupts>>

GateStep(j) == Lock(j) \/ Admit(j) \/ BeginWait(j) \/ EndWait(j)

Next ==
  \/ \E j \in Jobs : Backup(j) \/ GateStep(j) \/ InterruptWait(j) \/ Fork(j)
  \/ ChildExit

Spec == Init /\ [][Next]_vars

(* The scheduler runs every thread that is not blocked, and a child, which *)
(* only writes a file, exits.  Fork is not assumed to happen: the table    *)
(* lock it needs may never be released (see KVStore).                      *)
Fairness ==
  /\ \A j \in Jobs : WF_vars(GateStep(j))
  /\ WF_vars(ChildExit)

FairSpec == Spec /\ Fairness

-----------------------------------------------------------------------------
(* Every variable keeps the shape its C counterpart has; no child that     *)
(* does not exist is reaped.                                               *)
TypeOK ==
  /\ active_backups \in Nat
  /\ gate \in Jobs \cup {NOBODY}
  /\ pc \in [Jobs -> PCs]
  /\ commands \in [Jobs -> 0..MaxCommands]
  /\ running \in Nat
  /\ zombies \in Nat
  /\ interrupts \in 0..MaxSignals

(* n_current_backups_lock (main.c:320-326) is held exactly by the one      *)
(* thread that tests the counter or sleeps in wait(NULL) with it.          *)
GateHeld == \A j \in Jobs : pc[j] \in {"test", "wait"} <=> gate = j

(* The counter never exceeds max_backups; until it first reaches it every  *)
(* child and every admitted fork is counted, and only then does a thread   *)
(* wait for a child (main.c:321-325).                                      *)
CounterInv ==
  /\ active_backups <= max_backups
  /\ active_backups < max_backups =>
       children + Cardinality(Pending) <= active_backups
  /\ \A j \in Jobs : pc[j] = "wait" => active_backups = max_backups

Larger(m, n) == IF m > n THEN m ELSE n

(* What the admission code of run_job (main.c:320-327) really guarantees:  *)
(* children of the server, running or not yet reaped, together with the    *)
(* threads already admitted and about to fork, never exceed max_backups or *)
(* the number of job threads, whichever is larger, by more than the number *)
(* of waits that signals have cut short.                                   *)
ChildrenBounded ==
  children + Cardinality(Pending)
    <= Larger(max_backups, Cardinality(Jobs)) + interrupts

(* A thread whose BACKUP command has reached the mutex gets past it, and   *)
(* past a wait(NULL) if need be (main.c:320-326), even if no other thread  *)
(* ever gets to its fork.                                                  *)
BackupPassesGate == \A j \in Jobs : pc[j] = "lock" ~> pc[j] = "fork"
=============================================================================

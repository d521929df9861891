--------------------------- MODULE JobFilesProofs ---------------------------
(***************************************************************************)
(* Proofs about JobFiles, for any number of job threads, any directories   *)
(* that the assumptions allow and any size of the stream's buffer.         *)
(***************************************************************************)
EXTENDS JobFiles, WellFoundedInduction, TLAPS

(* Min chooses an element that no other is below. *)
LEMMA MinimumExists ==
  ASSUME NEW I \in SUBSET Nat, I # {}
  PROVE  Min(I) \in I /\ \A i \in I : Min(I) <= i
<1>1. PICK x \in I : \A y \in I : ~(<<y, x>> \in OpToRel(<, Nat))
  BY NatLessThanWellFounded, WFMin, Zenon
<1>2. ASSUME NEW y \in I
      PROVE  x <= y
  <2>1. y < x => <<y, x>> \in OpToRel(<, Nat)
    BY DEF OpToRel
  <2>2. ~(y < x)
    BY <1>1, <2>1, Zenon
  <2> QED
    BY <2>2
<1> QED
  BY <1>1, <1>2 DEF Min

-----------------------------------------------------------------------------
(* Names.                                                                  *)

(* strtok finds the first part that is not empty.                          *)
LEMMA FirstPartFound ==
  ASSUME NEW name \in Seq(STRING)
  PROVE  /\ FirstPart(name) \in 0 .. Len(name)
         /\ FirstPart(name) # 0 =>
              /\ name[FirstPart(name)] # NoText
              /\ \A i \in 1 .. (FirstPart(name) - 1) : name[i] = NoText
         /\ FirstPart(name) = 0 => \A i \in 1 .. Len(name) : name[i] = NoText
<1> DEFINE I == {i \in 1 .. Len(name) : name[i] # NoText}
<1>1. FirstPart(name) = IF I # {} THEN Min(I) ELSE 0
  BY DEF FirstPart, SelectInSeq
<1>2. I \in SUBSET Nat
  OBVIOUS
<1>3. I # {} => Min(I) \in I /\ \A i \in I : Min(I) <= i
  BY <1>2, MinimumExists
<1>4. Len(name) \in Nat /\ I \subseteq 1 .. Len(name)
  OBVIOUS
<1>5. CASE I = {}
  BY <1>1, <1>5
<1>6. CASE I # {}
  <2> DEFINE m == Min(I)
  <2>1. m = FirstPart(name) /\ m \in 1 .. Len(name) /\ name[m] # NoText
    BY <1>1, <1>3, <1>4, <1>6
  <2>2. ASSUME NEW i \in 1 .. (m - 1)
        PROVE  name[i] = NoText
    <3>1. i \in 1 .. Len(name) /\ ~(m <= i)
      BY <2>1, <1>4
    <3> HIDE DEF m
    <3> QED
      BY <3>1, <1>3, <1>6 DEF m
  <2> QED
    BY <2>1, <2>2
<1> QED
  BY <1>5, <1>6

(* A name that has been cut is not changed by another cut, and still names *)
(* the backup as the whole name does.                                      *)
LEMMA CutIdempotent ==
  ASSUME NEW name \in Seq(STRING)
  PROVE  /\ Cut(name) \in Seq(STRING) /\ Cut(Cut(name)) = Cut(name)
         /\ Stem(Cut(name)) = Stem(name)
<1> DEFINE k == FirstPart(name)
           c == Cut(name)
<1>1. CASE k = 0
  BY <1>1 DEF Cut
<1>2. CASE k # 0
  <2>1. k \in 1 .. Len(name) /\ name[k] # NoText /\ \A i \in 1 .. (k - 1) : name[i] = NoText
    BY <1>2, FirstPartFound
  <2>2. c = SubSeq(name, 1, k)
    BY <1>2 DEF Cut
  <2>3. c \in Seq(STRING) /\ Len(c) = k /\ \A i \in 1 .. k : c[i] = name[i]
    BY <2>1, <2>2
  <2>4. FirstPart(c) = k
    BY <2>1, <2>3, FirstPartFound
  <2>5. Cut(c) = SubSeq(c, 1, k)
    BY <1>2, <2>4 DEF Cut
  <2>6. Stem(c) = Stem(name)
    BY <2>1, <2>3, <2>4 DEF Stem
  <2> QED
    BY <2>1, <2>3, <2>5, <2>6
<1> QED
  BY <1>1, <1>2

(* A name that entry_files' test of the suffix lets pass has something     *)
(* before the suffix.                                                      *)
LEMMA EntryIsJob ==
  ASSUME NEW name \in Seq(STRING), IsJob(name)
  PROVE  Last(name) = "job" /\ Front(name) \notin {<<>>, <<NoText>>}
<1>1. Len(name) \in Nat /\ Len(name) > 1 /\ name[Len(name)] = "job"
      /\ name # <<NoText, "job">>
  BY DEF IsJob, Last
<1>2. Len(Front(name)) = Len(name) - 1
      /\ \A i \in 1 .. (Len(name) - 1) : Front(name)[i] = name[i]
  BY <1>1 DEF Front
<1>3. Front(name) # <<>>
  BY <1>1, <1>2
<1>4. ASSUME Front(name) = <<NoText>>
      PROVE  FALSE
  <2>1. Len(Front(name)) = 1 /\ Front(name)[1] = NoText
    BY <1>4
  <2>2. Len(name) = 2
    <3>1. Len(name) \in Nat
      OBVIOUS
    <3>2. Len(name) - 1 = 1
      BY <1>2, <2>1, Zenon
    <3> QED
      BY <3>1, <3>2
  <2>3. name[1] = NoText /\ name[2] = "job"
    BY <1>1, <1>2, <2>1, <2>2
  <2>4. name = <<NoText, "job">>
    BY <2>2, <2>3
  <2> QED
    BY <1>1, <2>4
<1> QED
  BY <1>1, <1>3, <1>4 DEF Last

-----------------------------------------------------------------------------
(* The inductive invariant: the stream's buffer holds the entries of the   *)
(* directory that were read last, cut or not, and the files taken so far   *)
(* are among those up to the read position.                                *)

Reading == {t \in Threads : pc[t] \in {"check", "copy"}}

(* The entry that the thread in get_file looks at, as the directory has it. *)
Current == directory[got - size + offset]

(* How many entries have been passed over or taken.                        *)
Passed == got - size + offset - (IF Reading = {} THEN 0 ELSE 1)

StreamOK ==
  /\ directory \in Directories
  /\ got \in 0 .. Len(directory)
  /\ size \in 0 .. Slots /\ size <= got
  /\ offset \in 0 .. size
  /\ DOMAIN data = 1 .. Slots
  /\ \A s \in 1 .. size :
       data[s] \in {directory[got - size + s], Cut(directory[got - size + s])}

ThreadsOK ==
  /\ pc \in [Threads -> {"lock", "read", "check", "copy", "open", "run", "done", "crashed"}]
  /\ \A t \in Threads : Holds(t) <=> mutex = t
  /\ entry \in [Threads -> 1 .. Slots]
  /\ \A t \in Threads : pc[t] \in {"check", "copy"} => offset > 0 /\ entry[t] = offset
  /\ DOMAIN in_path = Threads
  /\ \A t \in Threads : pc[t] \in {"open", "run"} => in_path[t] \in JobNames \cup TornNames

CopyOK ==
  \A t \in Threads : pc[t] = "copy" =>
    /\ IsJob(Current)
    /\ data[offset] = Current \/ Current \in cut

FilesOK ==
  /\ executed \in Seq(ToSet(directory))
  /\ \A i \in DOMAIN executed :
       executed[i] \in JobNames => \E k \in 1 .. Passed : executed[i] = directory[k]
  /\ \A t \in Threads : pc[t] \in {"open", "run"} /\ in_path[t] \in JobNames =>
       \E k \in 1 .. Passed : in_path[t] = directory[k]
  /\ \A t \in Threads : pc[t] = "open" /\ in_path[t] \in JobNames =>
       /\ \A i \in DOMAIN executed : executed[i] # in_path[t]
       /\ \A u \in Threads \ {t} : pc[u] = "open" => in_path[u] # in_path[t]
  /\ EachFileOnce

FilesInv == StreamOK /\ ThreadsOK /\ CopyOK /\ FilesOK

LEMMA FilesInit == Init => FilesInv
<1> SUFFICES ASSUME Init
             PROVE  FilesInv
  OBVIOUS
<1> USE FilesAssumption DEF Init
<1>1. StreamOK
  BY DEF StreamOK
<1>2. ThreadsOK
  BY DEF ThreadsOK, Holds
<1>3. CopyOK
  BY DEF CopyOK
<1>4. FilesOK
  BY DEF FilesOK, EachFileOnce
<1> QED
  BY <1>1, <1>2, <1>3, <1>4 DEF FilesInv

(* An entry of the buffer that has a job's suffix is one of the directory, *)
(* under the name it has there.                                            *)
LEMMA EntryInDirectory ==
  ASSUME StreamOK, NEW s \in 1 .. size, IsJob(data[s])
  PROVE  /\ got - size + s \in DOMAIN directory
         /\ data[s] = directory[got - size + s]
         /\ data[s] \notin TooLong => data[s] \in JobNames
<1> DEFINE k == got - size + s
<1>1. directory \in Seq(Seq(STRING)) /\ Slots \in Nat
  BY FilesAssumption DEF StreamOK
<1>2. k \in DOMAIN directory
  BY <1>1 DEF StreamOK
<1>3. data[s] = directory[k]
  BY <1>2, CutAssumption DEF StreamOK
<1>4. directory[k] \in Seq(STRING)
  BY <1>1, <1>2
<1>5. Last(data[s]) = "job" /\ Front(data[s]) \notin {<<>>, <<NoText>>}
  BY <1>3, <1>4, EntryIsJob
<1>6. data[s] \in ToSet(directory)
  BY <1>2, <1>3 DEF ToSet
<1> QED
  BY <1>2, <1>3, <1>5, <1>6 DEF JobNames

(* A job's name passes entry_files' test of the suffix.                    *)
LEMMA JobIsEntry ==
  ASSUME StreamOK, NEW name \in JobNames
  PROVE  name \in Seq(STRING) /\ IsJob(name)
<1>1. /\ name \in Seq(STRING) /\ name \notin TooLong
      /\ Last(name) = "job" /\ Front(name) # <<>> /\ Front(name) # <<NoText>>
  BY FilesAssumption DEF StreamOK, JobNames, ToSet
<1>2. Len(name) > 1
  <2>1. Len(name) \in Nat
    BY <1>1
  <2>2. ASSUME Len(name) \in {0, 1}
        PROVE  Front(name) = <<>>
    <3>1. Front(name) \in Seq(STRING) /\ Len(Front(name)) = 0
      BY <1>1, <2>2 DEF Front
    <3> QED
      BY <3>1
  <2> QED
    BY <1>1, <2>1, <2>2
<1>3. name # <<NoText, "job">>
  <2> SUFFICES ASSUME name = <<NoText, "job">>
               PROVE  Front(name) = <<NoText>>
    BY <1>1
  <2>1. Len(name) = 2 /\ name[1] = NoText
    OBVIOUS
  <2>2. /\ Front(name) \in Seq(STRING) /\ Len(Front(name)) = 1
        /\ Front(name)[1] = NoText
    BY <1>1, <2>1 DEF Front
  <2> QED
    BY <2>2
<1> QED
  BY <1>1, <1>2, <1>3 DEF IsJob

(* The entry that is looked at is the one behind the read position.        *)
LEMMA CurrentIsNext ==
  ASSUME FilesInv, NEW t \in Threads, pc[t] \in {"check", "copy"}
  PROVE  /\ entry[t] = offset /\ offset \in 1 .. size
         /\ got - size + offset = Passed + 1 /\ Passed \in Nat
         /\ got - size + offset \in DOMAIN directory
         /\ data[offset] \in {Current, Cut(Current)}
         /\ Current \in Seq(STRING) /\ Current \in ToSet(directory)
         /\ \A k \in 1 .. Passed : directory[k] # Current
<1> USE DEF FilesInv
<1>1. /\ got \in Nat /\ size \in Nat /\ offset \in Nat /\ Len(directory) \in Nat
      /\ DOMAIN directory = 1 .. Len(directory)
      /\ size <= got /\ got <= Len(directory) /\ offset <= size
      /\ directory \in Seq(Seq(STRING)) /\ IsInjective(directory)
  BY FilesAssumption DEF StreamOK
<1>2. entry[t] = offset /\ offset > 0 /\ Reading # {}
  BY DEF ThreadsOK, Reading
<1>3. offset \in 1 .. size /\ got - size + offset \in DOMAIN directory
  BY <1>1, <1>2
<1>4. got - size + offset = Passed + 1 /\ Passed \in Nat
  BY <1>1, <1>2 DEF Passed
<1>5. data[offset] \in {Current, Cut(Current)}
  BY <1>3 DEF StreamOK, Current
<1>6. Current \in Seq(STRING) /\ Current \in ToSet(directory)
  BY <1>1, <1>3 DEF Current, ToSet
<1>7. \A k \in 1 .. Passed : directory[k] # Current
  <2> SUFFICES ASSUME NEW k \in 1 .. Passed, directory[k] = Current
               PROVE  FALSE
    OBVIOUS
  <2>1. k \in DOMAIN directory /\ k # got - size + offset
    BY <1>1, <1>3, <1>4
  <2> QED
    BY <1>1, <1>3, <2>1 DEF IsInjective, Current
<1> QED
  BY <1>2, <1>3, <1>4, <1>5, <1>6, <1>7

(* Whoever reads the stream is alone there.                                *)
LEMMA AloneInStream ==
  ASSUME ThreadsOK, NEW t \in Threads, Holds(t)
  PROVE  \A u \in Threads \ {t} : ~Holds(u)
BY DEF ThreadsOK

(* The read position is a number of entries of the directory.              *)
LEMMA Position ==
  ASSUME StreamOK, ThreadsOK
  PROVE  /\ Len(directory) \in Nat /\ DOMAIN directory = 1 .. Len(directory)
         /\ Passed \in 0 .. Len(directory)
<1>1. directory \in Seq(Seq(STRING)) /\ Slots \in Nat
  BY FilesAssumption DEF StreamOK
<1>2. Reading # {} => offset > 0
  BY DEF Reading, ThreadsOK
<1> QED
  BY <1>1, <1>2 DEF StreamOK, Passed

(* Only the thread that checks an entry moves the read position on.        *)
LEMMA PassedRests ==
  ASSUME FilesInv, NEW t \in Threads,
         \/ Lock(t) \/ NextSlot(t) \/ Refill(t) \/ EndOfDirectory(t) \/ Check(t)
         \/ Open(t) \/ OpenFails(t) \/ Backup(t) \/ EndJob(t)
  PROVE  Passed' = Passed
<1> USE DEF FilesInv
<1>1. got \in Nat /\ size \in Nat /\ offset \in Nat /\ Len(directory) \in Nat
      /\ Slots \in Nat
  BY FilesAssumption, Position DEF StreamOK
<1>2. CASE NextSlot(t) \/ Refill(t)
  <2>1. Reading = {} /\ Reading' # {}
    BY <1>2, AloneInStream DEF Reading, NextSlot, Refill, Goto, ThreadsOK, Holds
  <2>2. CASE NextSlot(t)
    BY <1>1, <2>1, <2>2 DEF Passed, NextSlot
  <2>3. CASE Refill(t)
    <3> DEFINE n == IF Len(directory) - got < Slots THEN Len(directory) - got ELSE Slots
    <3>1. /\ offset = size /\ offset' = 1 /\ got' = got + n /\ size' = n
          /\ got < Len(directory)
      BY <2>3 DEF Refill
    <3>2. n \in Nat
      BY <1>1, <3>1
    <3> HIDE DEF n
    <3> QED
      BY <1>1, <2>1, <3>1, <3>2 DEF Passed
  <2> QED
    BY <1>2, <2>2, <2>3
<1>3. CASE Lock(t) \/ EndOfDirectory(t) \/ Check(t) \/ Open(t) \/ OpenFails(t) \/ Backup(t) \/ EndJob(t)
  <2>1. Reading' = Reading
    BY <1>3 DEF Reading, Lock, EndOfDirectory, Check, Open, OpenFails, Backup, EndJob, Goto, ThreadsOK
  <2> QED
    BY <1>3, <2>1 DEF Passed, Lock, EndOfDirectory, Check, Open, OpenFails, Backup, EndJob, stream
<1> QED
  BY <1>2, <1>3

-----------------------------------------------------------------------------
(* Each step preserves the invariant.                                      *)

(* Looking at an entry for the last time moves the read position on.       *)
LEMMA PassedMoves ==
  ASSUME FilesInv, NEW t \in Threads, PassOver(t) \/ Copy(t) \/ Crash(t)
  PROVE  Passed' = Passed + 1 /\ Passed \in Nat
<1> USE DEF FilesInv
<1>1. Reading # {} /\ Reading' = {}
  BY AloneInStream DEF Reading, PassOver, Copy, Crash, Goto, ThreadsOK, Holds
<1>2. got \in Nat /\ size \in Nat /\ offset \in Nat
  BY FilesAssumption, Position DEF StreamOK
<1>3. UNCHANGED stream
  BY DEF PassOver, Copy, Crash
<1> QED
  BY <1>1, <1>2, <1>3, Position DEF Passed, stream

(* What the files need when a step neither opens nor takes one, and none is *)
(* read again.                                                             *)
LEMMA FilesKept ==
  ASSUME FilesOK, UNCHANGED <<directory, executed, in_path>>,
         Passed' = Passed \/ (Passed \in Nat /\ Passed' = Passed + 1),
         \A t \in Threads : /\ pc'[t] = "open" => pc[t] = "open"
                            /\ pc'[t] = "run" => pc[t] = "run"
  PROVE  FilesOK'
<1>1. 1 .. Passed \subseteq 1 .. Passed'
  OBVIOUS
<1>2. JobNames' = JobNames
  BY DEF JobNames
<1> QED
  BY <1>1, <1>2 DEF FilesOK, EachFileOnce

(* What is known of the entry that passed the test, when none other does.  *)
LEMMA CopyKept ==
  ASSUME CopyOK, UNCHANGED <<directory, stream, cut>>,
         \A t \in Threads : pc'[t] = "copy" => pc[t] = "copy"
  PROVE  CopyOK'
BY DEF CopyOK, Current, stream

(* Lock, the end of the directory and the end of a job: the stream rests.  *)
LEMMA StreamRests ==
  ASSUME StreamOK, UNCHANGED <<directory, stream>>
  PROVE  StreamOK'
BY DEF StreamOK, stream

LEMMA LockStep ==
  ASSUME FilesInv, NEW t \in Threads, Lock(t)
  PROVE  FilesInv'
<1> USE DEF FilesInv
<1>1. StreamOK'
  BY StreamRests DEF Lock
<1>2. ThreadsOK'
  <2>1. \A u \in Threads : Holds(u)' <=> mutex' = u
    BY FilesAssumption DEF ThreadsOK, Lock, Goto, Holds
  <2> QED
    BY <2>1 DEF ThreadsOK, Lock, Goto, JobNames, TornNames, stream, histories
<1>3. Passed' = Passed
  BY PassedRests
<1>4. FilesOK'
  <2>1. \A u \in Threads : /\ pc'[u] = "open" => pc[u] = "open"
                           /\ pc'[u] = "run" => pc[u] = "run"
    BY DEF Lock, Goto, ThreadsOK
  <2> QED
    BY <1>3, <2>1, FilesKept DEF Lock, histories
<1>9. CopyOK'
  <2>1. \A u \in Threads : pc'[u] = "copy" => pc[u] = "copy"
    BY DEF Lock, Goto, ThreadsOK
  <2> QED
    BY <2>1, CopyKept DEF Lock, histories
<1> QED
  BY <1>1, <1>2, <1>4, <1>9

LEMMA NextSlotStep ==
  ASSUME FilesInv, NEW t \in Threads, NextSlot(t)
  PROVE  FilesInv'
<1> USE DEF FilesInv
<1>1. StreamOK'
  BY FilesAssumption DEF StreamOK, NextSlot
<1>2. ThreadsOK'
  <2>1. offset + 1 \in 1 .. Slots /\ offset \in Nat
    BY FilesAssumption DEF StreamOK, NextSlot
  <2>2. \A u \in Threads : Holds(u)' <=> mutex' = u
    BY DEF ThreadsOK, NextSlot, Goto, Holds
  <2>3. \A u \in Threads : pc'[u] \in {"check", "copy"} => offset' > 0 /\ entry'[u] = offset'
    BY <2>1, AloneInStream DEF ThreadsOK, NextSlot, Goto, Point, Holds
  <2> QED
    BY <2>1, <2>2, <2>3 DEF ThreadsOK, NextSlot, Goto, Point, JobNames, TornNames, histories
<1>3. Passed' = Passed
  BY PassedRests
<1>4. FilesOK'
  <2>1. \A u \in Threads : /\ pc'[u] = "open" => pc[u] = "open"
                           /\ pc'[u] = "run" => pc[u] = "run"
    BY DEF NextSlot, Goto, ThreadsOK
  <2> QED
    BY <1>3, <2>1, FilesKept DEF NextSlot, histories
<1>9. CopyOK'
  BY AloneInStream DEF CopyOK, NextSlot, Goto, ThreadsOK, Holds
<1> QED
  BY <1>1, <1>2, <1>4, <1>9

LEMMA RefillStep ==
  ASSUME FilesInv, NEW t \in Threads, Refill(t)
  PROVE  FilesInv'
<1> USE DEF FilesInv
<1>1. /\ got \in Nat /\ size \in Nat /\ offset \in Nat /\ Slots \in Nat \ {0}
      /\ Len(directory) \in Nat
  BY FilesAssumption, Position DEF StreamOK
<1> DEFINE n == IF Len(directory) - got < Slots THEN Len(directory) - got ELSE Slots
<1>2. n \in 1 .. Slots /\ got + n \in 0 .. Len(directory)
  BY <1>1 DEF Refill
<1>3. /\ data' = [s \in 1 .. Slots |-> IF s <= n THEN directory[got + s] ELSE data[s]]
      /\ size' = n /\ got' = got + n /\ offset' = 1 /\ directory' = directory
  BY DEF Refill
<1> HIDE DEF n
<1>4. StreamOK'
  <2>1. ASSUME NEW s \in 1 .. n
        PROVE  data'[s] = directory'[got' - size' + s]
    <3>1. got' - size' + s = got + s
      BY <1>1, <1>2, <1>3
    <3> QED
      BY <1>1, <1>2, <1>3, <3>1
  <2>2. /\ directory' \in Directories /\ got' \in 0 .. Len(directory')
        /\ size' \in 0 .. Slots /\ size' <= got' /\ offset' \in 0 .. size'
        /\ DOMAIN data' = 1 .. Slots
    BY <1>1, <1>2, <1>3 DEF StreamOK
  <2> QED
    BY <1>3, <2>1, <2>2 DEF StreamOK
<1>5. ThreadsOK'
  <2>1. \A u \in Threads : Holds(u)' <=> mutex' = u
    BY DEF ThreadsOK, Refill, Goto, Holds
  <2>2. \A u \in Threads : pc'[u] \in {"check", "copy"} => offset' > 0 /\ entry'[u] = offset'
    BY <1>3, AloneInStream DEF ThreadsOK, Refill, Goto, Point, Holds
  <2>3. \A u \in Threads : pc'[u] \in {"open", "run"} => pc[u] = pc'[u]
    BY DEF ThreadsOK, Refill, Goto
  <2> QED
    BY <1>1, <2>1, <2>2, <2>3 DEF ThreadsOK, Refill, Goto, Point, JobNames, TornNames, histories
<1>6. Passed' = Passed
  BY PassedRests
<1>7. FilesOK'
  <2>1. \A u \in Threads : /\ pc'[u] = "open" => pc[u] = "open"
                           /\ pc'[u] = "run" => pc[u] = "run"
    BY DEF Refill, Goto, ThreadsOK
  <2> QED
    BY <1>6, <2>1, FilesKept DEF Refill, histories
<1>9. CopyOK'
  BY AloneInStream DEF CopyOK, Refill, Goto, ThreadsOK, Holds
<1> QED
  BY <1>4, <1>5, <1>7, <1>9

LEMMA EndOfDirectoryStep ==
  ASSUME FilesInv, NEW t \in Threads, EndOfDirectory(t)
  PROVE  FilesInv'
<1> USE DEF FilesInv
<1>1. StreamOK'
  BY StreamRests DEF EndOfDirectory
<1>2. ThreadsOK'
  <2>1. \A u \in Threads : Holds(u)' <=> mutex' = u
    BY FilesAssumption, AloneInStream DEF ThreadsOK, EndOfDirectory, Goto, Holds
  <2> QED
    BY <2>1 DEF ThreadsOK, EndOfDirectory, Goto, JobNames, TornNames, stream, histories
<1>3. Passed' = Passed
  BY PassedRests
<1>4. FilesOK'
  <2>1. \A u \in Threads : /\ pc'[u] = "open" => pc[u] = "open"
                           /\ pc'[u] = "run" => pc[u] = "run"
    BY DEF EndOfDirectory, Goto, ThreadsOK
  <2> QED
    BY <1>3, <2>1, FilesKept DEF EndOfDirectory, histories
<1>9. CopyOK'
  <2>1. \A u \in Threads : pc'[u] = "copy" => pc[u] = "copy"
    BY DEF EndOfDirectory, Goto, ThreadsOK
  <2> QED
    BY <2>1, CopyKept DEF EndOfDirectory, histories
<1> QED
  BY <1>1, <1>2, <1>4, <1>9

(* An entry with a job's suffix stands in the buffer as in the directory.  *)
LEMMA CheckStep ==
  ASSUME FilesInv, NEW t \in Threads, Check(t)
  PROVE  FilesInv'
<1> USE DEF FilesInv
<1>1. StreamOK'
  BY StreamRests DEF Check
<1>2. ThreadsOK'
  <2>1. \A u \in Threads : Holds(u)' <=> mutex' = u
    BY DEF ThreadsOK, Check, Goto, Holds
  <2> QED
    BY <2>1 DEF ThreadsOK, Check, Goto, JobNames, TornNames, stream, histories
<1>3. Passed' = Passed
  BY PassedRests
<1>4. FilesOK'
  <2>1. \A u \in Threads : /\ pc'[u] = "open" => pc[u] = "open"
                           /\ pc'[u] = "run" => pc[u] = "run"
    BY DEF Check, Goto, ThreadsOK
  <2> QED
    BY <1>3, <2>1, FilesKept DEF Check, histories
<1>5. CopyOK'
  <2>1. entry[t] = offset /\ offset \in 1 .. size
    BY CurrentIsNext DEF Check
  <2>2. data[offset] = Current /\ IsJob(Current)
    BY <2>1, EntryInDirectory DEF Check, Current
  <2>3. data'[offset'] = Current' /\ IsJob(Current')
    BY <2>2 DEF Current, Check, stream
  <2> QED
    BY <2>3 DEF CopyOK
<1> QED
  BY <1>1, <1>2, <1>4, <1>5

LEMMA PassOverStep ==
  ASSUME FilesInv, NEW t \in Threads, PassOver(t)
  PROVE  FilesInv'
<1> USE DEF FilesInv
<1>1. StreamOK'
  BY StreamRests DEF PassOver
<1>2. ThreadsOK'
  <2>1. \A u \in Threads : Holds(u)' <=> mutex' = u
    BY DEF ThreadsOK, PassOver, Goto, Holds
  <2> QED
    BY <2>1 DEF ThreadsOK, PassOver, Goto, JobNames, TornNames, stream, histories
<1>3. Passed' = Passed + 1 /\ Passed \in Nat
  BY PassedMoves
<1>4. FilesOK'
  <2>1. \A u \in Threads : /\ pc'[u] = "open" => pc[u] = "open"
                           /\ pc'[u] = "run" => pc[u] = "run"
    BY DEF PassOver, Goto, ThreadsOK
  <2> QED
    BY <1>3, <2>1, FilesKept DEF PassOver, histories
<1>5. CopyOK'
  <2>1. \A u \in Threads : pc'[u] = "copy" => pc[u] = "copy"
    BY DEF PassOver, Goto, ThreadsOK
  <2> QED
    BY <2>1, CopyKept DEF PassOver, histories
<1> QED
  BY <1>1, <1>2, <1>4, <1>5

(* What is copied is the name of the entry, or what is left of it.         *)
LEMMA CopiedName ==
  ASSUME FilesInv, NEW t \in Threads, pc[t] = "copy", data[entry[t]] \notin TooLong
  PROVE  /\ data[entry[t]] \in JobNames \cup TornNames
         /\ data[entry[t]] \in JobNames => data[entry[t]] = Current
<1> USE DEF FilesInv
<1>1. /\ entry[t] = offset /\ offset \in 1 .. size
      /\ data[offset] \in {Current, Cut(Current)}
      /\ Current \in Seq(STRING) /\ Current \in ToSet(directory)
  BY CurrentIsNext
<1>2. IsJob(Current) /\ (data[offset] = Current \/ Current \in cut)
  BY DEF CopyOK
<1>3. CASE data[offset] = Current
  BY <1>1, <1>2, <1>3, EntryInDirectory
<1>4. CASE data[offset] # Current
  <2>1. data[offset] = Cut(Current) /\ Current \in cut
    BY <1>1, <1>2, <1>4
  <2>2. data[offset] \in TornNames
    BY <1>1, <1>2, <2>1 DEF TornNames
  <2>3. data[offset] \notin JobNames
    <3> SUFFICES ASSUME data[offset] \in JobNames
                 PROVE  FALSE
      OBVIOUS
    <3>1. IsJob(Cut(Current))
      BY <2>1, JobIsEntry
    <3>2. \E i \in DOMAIN directory : Current = directory[i]
      BY <1>1 DEF ToSet
    <3>3. Cut(Current) = Current
      BY <3>1, <3>2, CutAssumption DEF StreamOK
    <3> QED
      BY <1>4, <2>1, <3>3
  <2> QED
    BY <1>1, <2>2, <2>3
<1> QED
  BY <1>3, <1>4

(* The entry is the first behind the read position: no earlier name is its *)
(* own.                                                                    *)
LEMMA CopyStep ==
  ASSUME FilesInv, NEW t \in Threads, Copy(t)
  PROVE  FilesInv'
<1> USE DEF FilesInv
<1> DEFINE name == data[entry[t]]
<1>1. StreamOK'
  BY StreamRests DEF Copy
<1>2. name \in JobNames \cup TornNames /\ (name \in JobNames => name = Current)
  BY CopiedName DEF Copy
<1>3. JobNames' = JobNames /\ TornNames' = TornNames
  BY DEF JobNames, TornNames, Copy, histories
<1>4. ThreadsOK'
  <2>1. \A u \in Threads : Holds(u)' <=> mutex' = u
    BY FilesAssumption DEF ThreadsOK, Copy, Goto, Holds
  <2>2. \A u \in Threads : pc'[u] \in {"open", "run"} => in_path'[u] \in JobNames \cup TornNames
    BY <1>2 DEF ThreadsOK, Copy, Goto
  <2>3. /\ pc' \in [Threads -> {"lock", "read", "check", "copy", "open", "run", "done", "crashed"}]
        /\ \A u \in Threads : pc'[u] \in {"check", "copy"} => pc'[u] = pc[u]
        /\ DOMAIN in_path' = Threads
    BY DEF ThreadsOK, Copy, Goto
  <2> QED
    BY <1>3, <2>1, <2>2, <2>3 DEF ThreadsOK, Copy, stream
<1>5. CopyOK'
  <2>1. \A u \in Threads : pc'[u] = "copy" => pc[u] = "copy"
    BY DEF Copy, Goto, ThreadsOK
  <2> QED
    BY <2>1, CopyKept DEF Copy, histories
<1>6. Passed' = Passed + 1 /\ Passed \in Nat
  BY PassedMoves
<1>7. /\ Current = directory[Passed + 1]
      /\ \A k \in 1 .. Passed : directory[k] # Current
  BY CurrentIsNext DEF Copy, Current
<1>8. FilesOK'
  <2>1. /\ in_path' = [in_path EXCEPT ![t] = name]
        /\ \A u \in Threads \ {t} : pc'[u] = pc[u]
        /\ pc'[t] = "open"
        /\ executed' = executed /\ directory' = directory
    BY DEF Copy, Goto, ThreadsOK, histories
  <2>2. in_path'[t] = name /\ \A u \in Threads \ {t} : in_path'[u] = in_path[u]
    BY <2>1 DEF ThreadsOK
  <2>3. name \in JobNames => \A i \in DOMAIN executed : executed[i] # name
    BY <1>2, <1>7 DEF FilesOK
  <2>4. name \in JobNames => \A u \in Threads \ {t} : pc[u] = "open" => in_path[u] # name
    BY <1>2, <1>7 DEF FilesOK
  <2>5. 1 .. Passed \subseteq 1 .. Passed' /\ Passed + 1 \in 1 .. Passed'
    BY <1>6
  <2> HIDE DEF name
  <2>6. \A i \in DOMAIN executed' :
          executed'[i] \in JobNames => \E k \in 1 .. Passed' : executed'[i] = directory'[k]
    BY <2>1, <2>5 DEF FilesOK
  <2>7. ASSUME NEW u \in Threads, pc'[u] \in {"open", "run"}, in_path'[u] \in JobNames
        PROVE  \E k \in 1 .. Passed' : in_path'[u] = directory'[k]
    <3>1. CASE u = t
      BY <1>2, <1>7, <2>1, <2>2, <2>5, <2>7, <3>1
    <3>2. CASE u # t
      BY <2>1, <2>2, <2>5, <2>7, <3>2 DEF FilesOK
    <3> QED
      BY <3>1, <3>2
  <2>8. ASSUME NEW u \in Threads, pc'[u] = "open", in_path'[u] \in JobNames
        PROVE  /\ \A i \in DOMAIN executed' : executed'[i] # in_path'[u]
               /\ \A v \in Threads \ {u} : pc'[v] = "open" => in_path'[v] # in_path'[u]
    <3>1. CASE u = t
      BY <2>1, <2>2, <2>3, <2>4, <2>8, <3>1
    <3>2. CASE u # t
      <4>1. \A i \in DOMAIN executed' : executed'[i] # in_path'[u]
        BY <2>1, <2>2, <2>8, <3>2 DEF FilesOK
      <4>2. ASSUME NEW v \in Threads \ {u}, pc'[v] = "open"
            PROVE  in_path'[v] # in_path'[u]
        <5>1. CASE v = t
          BY <2>1, <2>2, <2>4, <2>8, <3>2, <5>1
        <5>2. CASE v # t
          BY <2>1, <2>2, <2>8, <3>2, <4>2, <5>2 DEF FilesOK
        <5> QED
          BY <5>1, <5>2
      <4> QED
        BY <4>1, <4>2
    <3> QED
      BY <3>1, <3>2
  <2> QED
    BY <1>3, <2>1, <2>6, <2>7, <2>8 DEF FilesOK, EachFileOnce
<1> QED
  BY <1>1, <1>4, <1>5, <1>8

LEMMA CrashStep ==
  ASSUME FilesInv, NEW t \in Threads, Crash(t)
  PROVE  FilesInv'
<1> USE DEF FilesInv
<1>1. StreamOK'
  BY StreamRests DEF Crash
<1>2. ThreadsOK'
  <2>1. \A u \in Threads : Holds(u)' <=> mutex' = u
    BY FilesAssumption DEF ThreadsOK, Crash, Holds
  <2> QED
    BY <2>1 DEF ThreadsOK, Crash, stream
<1>3. CopyOK'
  BY DEF CopyOK, Crash
<1>4. FilesOK'
  BY PassedMoves, FilesKept DEF Crash, histories
<1> QED
  BY <1>1, <1>2, <1>3, <1>4

LEMMA OpenStep ==
  ASSUME FilesInv, NEW t \in Threads, Open(t)
  PROVE  FilesInv'
<1> USE DEF FilesInv
<1>1. StreamOK'
  BY StreamRests DEF Open
<1>2. ThreadsOK'
  <2>1. \A u \in Threads : Holds(u)' <=> mutex' = u
    BY DEF ThreadsOK, Open, Goto, Holds
  <2>2. JobNames' = JobNames /\ TornNames' = TornNames
    BY DEF JobNames, TornNames, Open
  <2> QED
    BY <2>1, <2>2 DEF ThreadsOK, Open, Goto, stream
<1>3. Passed' = Passed
  BY PassedRests
<1>4. FilesOK'
  <2> DEFINE name == in_path[t]
             n == Len(executed) + 1
  <2>1. executed \in Seq(ToSet(directory)) /\ name \in ToSet(directory)
    BY DEF FilesOK, Open
  <2>2. executed' = Append(executed, name) /\ directory' = directory /\ in_path' = in_path
    BY DEF Open
  <2>3. name \in JobNames =>
          /\ \E k \in 1 .. Passed : name = directory[k]
          /\ \A i \in DOMAIN executed : executed[i] # name
          /\ \A u \in Threads \ {t} : pc[u] = "open" => in_path[u] # name
    BY DEF FilesOK, Open
  <2>4. \A u \in Threads : /\ pc'[u] = "open" => u # t /\ pc[u] = "open"
                           /\ pc'[u] = "run" => u = t \/ pc[u] = "run"
    BY DEF Open, Goto, ThreadsOK
  <2>5. pc[t] = "open" /\ in_path[t] = name
    BY DEF Open
  <2> HIDE DEF name
  <2>6. /\ DOMAIN executed' = 1 .. n /\ executed'[n] = name
        /\ DOMAIN executed = 1 .. (n - 1) /\ n \in Nat
        /\ \A i \in 1 .. (n - 1) : executed'[i] = executed[i]
    BY <2>1, <2>2
  <2>7. executed' \in Seq(ToSet(directory'))
    BY <2>1, <2>2 DEF ToSet
  <2> HIDE DEF n
  <2>8. JobNames' = JobNames
    BY <2>2 DEF JobNames
  <2>9. \A i \in DOMAIN executed' :
          executed'[i] \in JobNames => \E k \in 1 .. Passed' : executed'[i] = directory'[k]
    <3>1. \A i \in 1 .. n : i = n \/ i \in DOMAIN executed
      BY <2>6
    <3> QED
      BY <1>3, <2>2, <2>3, <2>6, <3>1 DEF FilesOK
  <2>10. ASSUME NEW u \in Threads, pc'[u] = "open", in_path'[u] \in JobNames,
                NEW i \in DOMAIN executed'
         PROVE  executed'[i] # in_path'[u]
    <3>1. u # t /\ pc[u] = "open" /\ in_path'[u] = in_path[u]
      BY <2>2, <2>4, <2>10
    <3>2. CASE i = n
      BY <2>3, <2>6, <2>10, <3>1, <3>2
    <3>3. CASE i # n
      <4>1. i \in DOMAIN executed /\ executed'[i] = executed[i]
        BY <2>6, <2>10, <3>3
      <4> QED
        BY <2>10, <3>1, <4>1 DEF FilesOK
    <3> QED
      BY <3>2, <3>3
  <2>11. EachFileOnce'
    <3>1. ASSUME NEW i \in 1 .. n, NEW j \in 1 .. n,
                 executed'[i] = executed'[j], executed'[i] \in JobNames
          PROVE  i = j
      <4>1. CASE i = n \/ j = n
        <5>1. name \in JobNames /\ \A k \in 1 .. (n - 1) : executed'[k] # name
          BY <2>3, <2>6, <3>1, <4>1
        <5> QED
          BY <2>6, <3>1, <4>1, <5>1
      <4>2. CASE i # n /\ j # n
        <5>1. /\ i \in DOMAIN executed /\ executed'[i] = executed[i]
              /\ j \in DOMAIN executed /\ executed'[j] = executed[j]
          BY <2>6, <3>1, <4>2
        <5> QED
          BY <3>1, <5>1 DEF FilesOK, EachFileOnce
      <4> QED
        BY <4>1, <4>2
    <3> QED
      BY <2>6, <2>8, <3>1 DEF EachFileOnce
  <2>12. ASSUME NEW u \in Threads, pc'[u] \in {"open", "run"}, in_path'[u] \in JobNames
         PROVE  \E k \in 1 .. Passed' : in_path'[u] = directory'[k]
    BY <1>3, <2>2, <2>4, <2>5, <2>12 DEF FilesOK
  <2>13. ASSUME NEW u \in Threads, pc'[u] = "open", in_path'[u] \in JobNames
         PROVE  \A v \in Threads \ {u} : pc'[v] = "open" => in_path'[v] # in_path'[u]
    BY <2>2, <2>4, <2>13 DEF FilesOK
  <2> QED
    BY <2>7, <2>8, <2>9, <2>10, <2>11, <2>12, <2>13 DEF FilesOK
<1>9. CopyOK'
  <2>1. \A u \in Threads : pc'[u] = "copy" => pc[u] = "copy"
    BY DEF Open, Goto, ThreadsOK
  <2> QED
    BY <2>1, CopyKept DEF Open
<1> QED
  BY <1>1, <1>2, <1>4, <1>9

LEMMA OpenFailsStep ==
  ASSUME FilesInv, NEW t \in Threads, OpenFails(t)
  PROVE  FilesInv'
<1> USE DEF FilesInv
<1>1. StreamOK'
  BY StreamRests DEF OpenFails
<1>2. ThreadsOK'
  <2>1. \A u \in Threads : Holds(u)' <=> mutex' = u
    BY DEF ThreadsOK, OpenFails, Goto, Holds
  <2>2. JobNames' = JobNames /\ TornNames' = TornNames
    BY DEF JobNames, TornNames, OpenFails
  <2> QED
    BY <2>1, <2>2 DEF ThreadsOK, OpenFails, Goto, stream
<1>3. Passed' = Passed
  BY PassedRests
<1>4. FilesOK'
  <2>1. \A u \in Threads : /\ pc'[u] = "open" => pc[u] = "open"
                           /\ pc'[u] = "run" => pc[u] = "run"
    BY DEF OpenFails, Goto, ThreadsOK
  <2> QED
    BY <1>3, <2>1, FilesKept DEF OpenFails
<1>9. CopyOK'
  <2>1. \A u \in Threads : pc'[u] = "copy" => pc[u] = "copy"
    BY DEF OpenFails, Goto, ThreadsOK
  <2> QED
    BY <2>1, CopyKept DEF OpenFails
<1> QED
  BY <1>1, <1>2, <1>4, <1>9

(* What strtok does to the buffer: the slot of a thread, in use or not, is *)
(* cut once more.                                                          *)
LEMMA BackupStep ==
  ASSUME FilesInv, NEW t \in Threads, Backup(t)
  PROVE  FilesInv'
<1> USE DEF FilesInv
<1>1. StreamOK'
  <2>1. /\ data' = [data EXCEPT ![entry[t]] = Cut(data[entry[t]])]
        /\ UNCHANGED <<directory, got, size, offset>>
    BY DEF Backup
  <2>2. ASSUME NEW s \in 1 .. size
        PROVE  data'[s] \in {directory[got - size + s], Cut(directory[got - size + s])}
    <3> DEFINE name == directory[got - size + s]
    <3>1. data[s] \in {name, Cut(name)} /\ s \in DOMAIN data
      BY FilesAssumption DEF StreamOK
    <3>2. name \in Seq(STRING)
      <4>1. got - size + s \in 1 .. Len(directory) /\ directory \in Seq(Seq(STRING))
        BY FilesAssumption, Position DEF StreamOK
      <4> QED
        BY <4>1
    <3>3. Cut(Cut(name)) = Cut(name)
      BY <3>2, CutIdempotent
    <3> HIDE DEF name
    <3>4. data'[s] = data[s] \/ data'[s] = Cut(data[s])
      BY <2>1, <3>1
    <3> QED
      BY <3>1, <3>3, <3>4 DEF name
  <2> QED
    BY <2>1, <2>2 DEF StreamOK
<1>2. ThreadsOK'
  <2>1. JobNames' = JobNames /\ TornNames \subseteq TornNames'
    BY DEF JobNames, TornNames, Backup
  <2> QED
    BY <2>1 DEF ThreadsOK, Backup, Holds
<1>3. Passed' = Passed
  BY PassedRests
<1>4. FilesOK'
  BY <1>3, FilesKept DEF Backup
<1>5. CopyOK'
  <2> SUFFICES ASSUME NEW u \in Threads, pc'[u] = "copy"
               PROVE  IsJob(Current)' /\ (data'[offset'] = Current' \/ Current' \in cut')
    BY DEF CopyOK
  <2>1. /\ pc[u] = "copy" /\ pc[t] = "run" /\ Current' = Current /\ offset' = offset
        /\ data' = [data EXCEPT ![entry[t]] = Cut(data[entry[t]])]
        /\ cut' = cut \cup ({data[entry[t]]} \ {in_path[t], Cut(data[entry[t]])})
    BY DEF Current, Backup
  <2>2. IsJob(Current) /\ (data[offset] = Current \/ Current \in cut)
    BY <2>1 DEF CopyOK
  <2>3. ASSUME data[offset] = Current, Current \notin cut, entry[t] = offset,
               Cut(Current) # Current
        PROVE  Current \in cut'
    <3>1. in_path[t] \in JobNames \cup TornNames
      BY <2>1 DEF ThreadsOK
    <3>2. in_path[t] \in JobNames => in_path[t] # Current
      BY <2>1, CurrentIsNext DEF FilesOK
    <3>3. in_path[t] \in TornNames => in_path[t] # Current
      <4> SUFFICES ASSUME NEW m \in cut \cap ToSet(directory), Cut(m) = Current
                   PROVE  FALSE
        BY DEF TornNames
      <4>1. \E i \in DOMAIN directory : m = directory[i]
        BY DEF ToSet
      <4>2. Cut(m) = m
        BY <2>2, <4>1, CutAssumption DEF StreamOK
      <4> QED
        BY <2>3, <4>2
    <3> QED
      BY <2>1, <2>3, <3>1, <3>2, <3>3
  <2>4. offset \in DOMAIN data
    BY <2>1, CurrentIsNext, FilesAssumption DEF StreamOK
  <2> QED
    BY <2>1, <2>2, <2>3, <2>4
<1> QED
  BY <1>1, <1>2, <1>4, <1>5

LEMMA EndJobStep ==
  ASSUME FilesInv, NEW t \in Threads, EndJob(t)
  PROVE  FilesInv'
<1> USE DEF FilesInv
<1>1. StreamOK'
  BY StreamRests DEF EndJob
<1>2. ThreadsOK'
  <2>1. \A u \in Threads : Holds(u)' <=> mutex' = u
    BY DEF ThreadsOK, EndJob, Goto, Holds
  <2>2. JobNames' = JobNames /\ TornNames' = TornNames
    BY DEF JobNames, TornNames, EndJob, histories
  <2> QED
    BY <2>1, <2>2 DEF ThreadsOK, EndJob, Goto, stream
<1>3. Passed' = Passed
  BY PassedRests
<1>4. FilesOK'
  <2>1. \A u \in Threads : /\ pc'[u] = "open" => pc[u] = "open"
                           /\ pc'[u] = "run" => pc[u] = "run"
    BY DEF EndJob, Goto, ThreadsOK
  <2> QED
    BY <1>3, <2>1, FilesKept DEF EndJob, histories
<1>9. CopyOK'
  <2>1. \A u \in Threads : pc'[u] = "copy" => pc[u] = "copy"
    BY DEF EndJob, Goto, ThreadsOK
  <2> QED
    BY <2>1, CopyKept DEF EndJob, histories
<1> QED
  BY <1>1, <1>2, <1>4, <1>9

LEMMA FilesStep == FilesInv /\ [Next]_vars => FilesInv'
<1> SUFFICES ASSUME FilesInv, [Next]_vars
             PROVE  FilesInv'
  OBVIOUS
<1>1. CASE UNCHANGED vars
  <2>1. Passed' = Passed
    BY <1>1 DEF Passed, Reading, vars, stream
  <2> QED
    BY <1>1, <2>1 DEF FilesInv, StreamOK, ThreadsOK, CopyOK, FilesOK, Holds, JobNames,
                      TornNames, Current, vars, stream, histories, EachFileOnce
<1>2. ASSUME NEW t \in Threads, Thread(t)
      PROVE  FilesInv'
  BY <1>2, LockStep, NextSlotStep, RefillStep, EndOfDirectoryStep, CheckStep, PassOverStep,
     CopyStep, CrashStep, OpenStep, OpenFailsStep, BackupStep, EndJobStep DEF Thread
<1> QED
  BY <1>1, <1>2 DEF Next

-----------------------------------------------------------------------------
LEMMA FilesInvariant == Spec => []FilesInv
BY FilesInit, FilesStep, PTL DEF Spec

(* directory_mutex is held by whoever reads the stream and by nobody else, *)
(* the stream stays within its buffer and the directory, and a thread runs *)
(* a job file or what is left of the name of a job that was cut.           *)
THEOREM FilesTypeCorrect == Spec => []TypeOK
<1>1. FilesInv => TypeOK
  <2> SUFFICES ASSUME FilesInv
               PROVE  TypeOK
    OBVIOUS
  <2>1. offset <= size /\ size <= Slots /\ got <= Len(directory)
    BY FilesAssumption, Position DEF FilesInv, StreamOK
  <2> QED
    BY <2>1 DEF FilesInv, ThreadsOK, TypeOK
<1> QED
  BY <1>1, FilesInvariant, PTL

(* No job file is run twice, whatever the pointers that the threads keep   *)
(* into the stream's buffer do to the names there: get_file copies a name  *)
(* before it unlocks directory_mutex, and its read position only moves on. *)
THEOREM FilesRunOnce == Spec => []EachFileOnce
<1>1. FilesInv => EachFileOnce
  BY DEF FilesInv, FilesOK, EachFileOnce
<1> QED
  BY <1>1, FilesInvariant, PTL

-----------------------------------------------------------------------------
(* No job is passed over: every one up to the read position has been run,  *)
(* could not be opened, had its name cut, or has just been taken.  A slot  *)
(* that no longer holds its entry was cut by the job of that name or is in *)
(* cut, and a thread ends before the directory does over a file that it    *)
(* could not open.  None of this matters when the server has crashed.      *)
Taken == {in_path[t] : t \in {u \in Threads : pc[u] = "open"}}

Done == {t \in Threads : pc[t] = "done"}

Unopened == {f[2] : f \in failed}

AllRead == got = Len(directory) /\ offset = size

PassedAreKnown ==
  \A k \in 1 .. Passed :
    directory[k] \in JobNames =>
      directory[k] \in ToSet(executed) \cup Unopened \cup cut \cup Taken

CutsAreKnown ==
  /\ \A t \in Threads : pc[t] = "run" => in_path[t] \in ToSet(executed)
  /\ \A s \in 1 .. size :
       data[s] # directory[got - size + s] =>
         directory[got - size + s] \in ToSet(executed) \cup cut

FailuresAreKnown == AllRead \/ Done \subseteq {f[1] : f \in failed}

KnownInv == PassedAreKnown /\ CutsAreKnown /\ FailuresAreKnown

SkipInv == ServerCrashed \/ KnownInv

LEMMA SkipInit == Init => SkipInv
<1> SUFFICES ASSUME Init
             PROVE  SkipInv
  OBVIOUS
<1>1. Reading = {} /\ Done = {}
  BY DEF Init, Reading, Done
<1>2. Passed = 0
  BY <1>1 DEF Init, Passed
<1> QED
  BY <1>1, <1>2 DEF Init, SkipInv, KnownInv, PassedAreKnown, CutsAreKnown, FailuresAreKnown

(* What is known of the entries stays known when a step neither moves the  *)
(* read position nor ends a job.                                           *)
LEMMA NothingSkipped ==
  ASSUME FilesInv, KnownInv, UNCHANGED <<directory, got, data, size, in_path, histories>>,
         Passed' = Passed,
         \A t \in Threads : /\ pc'[t] = "open" <=> pc[t] = "open"
                            /\ pc'[t] = "run" => pc[t] = "run",
         AllRead' \/ (~AllRead /\ Done' = Done)
  PROVE  KnownInv'
<1>1. JobNames' = JobNames /\ Taken' = Taken
  BY DEF JobNames, Taken
<1>2. PassedAreKnown' /\ CutsAreKnown'
  BY <1>1 DEF KnownInv, PassedAreKnown, CutsAreKnown, Unopened, histories
<1>3. FailuresAreKnown'
  BY DEF KnownInv, FailuresAreKnown, histories
<1> QED
  BY <1>2, <1>3 DEF KnownInv

LEMMA StreamStepsSkipNothing ==
  ASSUME FilesInv, KnownInv, NEW t \in Threads,
         Lock(t) \/ NextSlot(t) \/ EndOfDirectory(t) \/ Check(t) \/ EndJob(t)
  PROVE  KnownInv'
<1>1. UNCHANGED <<directory, got, data, size, in_path, histories>> /\ Passed' = Passed
  BY PassedRests DEF Lock, NextSlot, EndOfDirectory, Check, EndJob, stream
<1>2. \A u \in Threads : /\ pc'[u] = "open" <=> pc[u] = "open"
                         /\ pc'[u] = "run" => pc[u] = "run"
  BY DEF Lock, NextSlot, EndOfDirectory, Check, EndJob, Goto, FilesInv, ThreadsOK
<1>3. AllRead' \/ (~AllRead /\ Done' = Done)
  <2>1. CASE EndOfDirectory(t)
    BY <2>1 DEF EndOfDirectory, AllRead, stream
  <2>2. CASE NextSlot(t)
    BY <2>2, FilesAssumption DEF NextSlot, AllRead, Done, Goto, FilesInv, ThreadsOK, StreamOK
  <2>3. CASE Lock(t) \/ Check(t) \/ EndJob(t)
    BY <2>3 DEF Lock, Check, EndJob, AllRead, Done, Goto, FilesInv, ThreadsOK, stream
  <2> QED
    BY <2>1, <2>2, <2>3
<1> QED
  BY <1>1, <1>2, <1>3, NothingSkipped

LEMMA RefillSkipsNothing ==
  ASSUME FilesInv, KnownInv, NEW t \in Threads, Refill(t)
  PROVE  KnownInv'
<1> DEFINE n == IF Len(directory) - got < Slots THEN Len(directory) - got ELSE Slots
<1>1. /\ got \in Nat /\ size \in Nat /\ Slots \in Nat \ {0} /\ Len(directory) \in Nat
      /\ got < Len(directory)
  BY FilesAssumption, Position DEF FilesInv, StreamOK, Refill
<1>2. n \in 1 .. Slots
  BY <1>1
<1>3. /\ data' = [s \in 1 .. Slots |-> IF s <= n THEN directory[got + s] ELSE data[s]]
      /\ size' = n /\ got' = got + n
      /\ UNCHANGED <<directory, in_path, histories>> /\ Passed' = Passed
  BY PassedRests DEF Refill
<1> HIDE DEF n
<1>4. \A u \in Threads : /\ pc'[u] = "open" <=> pc[u] = "open"
                         /\ pc'[u] = "run" <=> pc[u] = "run"
                         /\ pc'[u] = "done" <=> pc[u] = "done"
  BY DEF Refill, Goto, FilesInv, ThreadsOK
<1>5. JobNames' = JobNames /\ Taken' = Taken /\ Done' = Done /\ ~AllRead
  BY <1>1, <1>3, <1>4 DEF JobNames, Taken, Done, AllRead
<1>6. PassedAreKnown'
  BY <1>3, <1>5 DEF KnownInv, PassedAreKnown, Unopened, histories
<1>7. CutsAreKnown'
  <2>1. ASSUME NEW s \in 1 .. n
        PROVE  data'[s] = directory'[got' - size' + s]
    <3>1. got' - size' + s = got + s
      BY <1>1, <1>2, <1>3
    <3> QED
      BY <1>1, <1>2, <1>3, <3>1
  <2> QED
    BY <1>3, <1>4, <2>1 DEF KnownInv, CutsAreKnown, histories
<1>8. FailuresAreKnown'
  BY <1>3, <1>4, <1>5 DEF KnownInv, FailuresAreKnown, histories
<1> QED
  BY <1>6, <1>7, <1>8 DEF KnownInv

(* An entry is passed over: it is no job's, or its name was cut.           *)
LEMMA PassOverSkipsNothing ==
  ASSUME FilesInv, KnownInv, NEW t \in Threads, PassOver(t)
  PROVE  KnownInv'
<1>1. /\ entry[t] = offset /\ offset \in 1 .. size
      /\ Current = directory[Passed + 1] /\ Current \in Seq(STRING)
      /\ Passed \in Nat /\ Passed' = Passed + 1
  BY CurrentIsNext, PassedMoves DEF PassOver, Current
<1>2. /\ UNCHANGED <<directory, stream, in_path, histories>>
      /\ \A u \in Threads : /\ pc'[u] = "open" <=> pc[u] = "open"
                            /\ pc'[u] = "run" => pc[u] = "run"
                            /\ pc'[u] = "done" <=> pc[u] = "done"
  BY DEF PassOver, Goto, FilesInv, ThreadsOK
<1>3. /\ JobNames' = JobNames /\ Taken' = Taken /\ Done' = Done /\ AllRead' = AllRead
      /\ Unopened' = Unopened
  BY <1>2 DEF JobNames, Taken, Done, AllRead, Unopened, stream, histories
<1>4. Current \in JobNames => Current \in ToSet(executed) \cup cut
  <2>1. CASE data[offset] = Current
    BY <1>1, <2>1, JobIsEntry DEF PassOver, FilesInv, JobNames
  <2>2. CASE data[offset] # Current
    BY <1>1, <2>2 DEF KnownInv, CutsAreKnown, Current
  <2> QED
    BY <2>1, <2>2
<1>5. PassedAreKnown'
  <2> SUFFICES ASSUME NEW i \in 1 .. Passed', directory'[i] \in JobNames'
               PROVE  directory[i] \in ToSet(executed) \cup Unopened \cup cut \cup Taken
    BY <1>2, <1>3 DEF PassedAreKnown, histories
  <2>1. i = Passed + 1 \/ i \in 1 .. Passed
    BY <1>1
  <2> QED
    BY <1>1, <1>2, <1>3, <1>4, <2>1 DEF KnownInv, PassedAreKnown
<1>6. CutsAreKnown'
  BY <1>2 DEF KnownInv, CutsAreKnown, histories, stream
<1>7. FailuresAreKnown'
  BY <1>2, <1>3 DEF KnownInv, FailuresAreKnown, histories
<1> QED
  BY <1>5, <1>6, <1>7 DEF KnownInv

(* The name of an entry is copied: a job is taken, unless its name was cut. *)
LEMMA CopySkipsNothing ==
  ASSUME FilesInv, KnownInv, NEW t \in Threads, Copy(t)
  PROVE  KnownInv'
<1> DEFINE name == data[entry[t]]
<1>1. /\ entry[t] = offset /\ offset \in 1 .. size
      /\ Current = directory[Passed + 1]
      /\ Passed \in Nat /\ Passed' = Passed + 1
  BY CurrentIsNext, PassedMoves DEF Copy, Current
<1>2. /\ pc[t] = "copy" /\ UNCHANGED <<directory, stream, histories>>
      /\ \A u \in Threads \ {t} : pc'[u] = pc[u] /\ in_path'[u] = in_path[u]
      /\ pc'[t] = "open" /\ in_path'[t] = name
  BY DEF Copy, Goto, FilesInv, ThreadsOK
<1>3. /\ JobNames' = JobNames /\ Taken \subseteq Taken' /\ Done' = Done
      /\ AllRead' = AllRead /\ Unopened' = Unopened /\ name \in Taken'
  BY <1>2 DEF JobNames, Taken, Done, AllRead, Unopened, stream, histories
<1>4. Current \in JobNames => Current \in ToSet(executed) \cup cut \cup Taken'
  <2>1. CASE name = Current
    BY <1>3, <2>1
  <2>2. CASE name # Current
    BY <1>1, <2>2 DEF KnownInv, CutsAreKnown, Current
  <2> QED
    BY <2>1, <2>2
<1>5. PassedAreKnown'
  <2> SUFFICES ASSUME NEW i \in 1 .. Passed', directory'[i] \in JobNames'
               PROVE  directory[i] \in ToSet(executed) \cup Unopened \cup cut \cup Taken'
    BY <1>2, <1>3 DEF PassedAreKnown, histories
  <2>1. i = Passed + 1 \/ i \in 1 .. Passed
    BY <1>1
  <2> QED
    BY <1>1, <1>2, <1>3, <1>4, <2>1 DEF KnownInv, PassedAreKnown
<1>6. CutsAreKnown'
  BY <1>2 DEF KnownInv, CutsAreKnown, histories, stream
<1>7. FailuresAreKnown'
  BY <1>2, <1>3 DEF KnownInv, FailuresAreKnown, histories
<1> QED
  BY <1>5, <1>6, <1>7 DEF KnownInv

LEMMA OpenSkipsNothing ==
  ASSUME FilesInv, KnownInv, NEW t \in Threads, Open(t)
  PROVE  KnownInv'
<1> DEFINE name == in_path[t]
<1>1. /\ pc[t] = "open" /\ executed' = Append(executed, name)
      /\ UNCHANGED <<directory, stream, in_path, failed, cut>> /\ Passed' = Passed
      /\ pc'[t] = "run" /\ \A u \in Threads \ {t} : pc'[u] = pc[u]
  BY PassedRests DEF Open, Goto, FilesInv, ThreadsOK
<1>2. ToSet(executed') = ToSet(executed) \cup {name}
  <2>1. executed \in Seq(ToSet(directory)) /\ name \in ToSet(directory)
    BY DEF FilesInv, FilesOK, Open
  <2>2. /\ DOMAIN executed' = DOMAIN executed \cup {Len(executed) + 1}
        /\ executed'[Len(executed) + 1] = name
        /\ \A i \in DOMAIN executed : executed'[i] = executed[i]
    BY <1>1, <2>1
  <2> HIDE DEF name
  <2> QED
    BY <2>2 DEF ToSet
<1>3. /\ JobNames' = JobNames /\ Taken \subseteq Taken' \cup {name}
      /\ Done' = Done /\ AllRead' = AllRead /\ Unopened' = Unopened
  BY <1>1 DEF JobNames, Taken, Done, AllRead, Unopened, stream
<1>4. PassedAreKnown'
  BY <1>1, <1>2, <1>3 DEF KnownInv, PassedAreKnown
<1>5. CutsAreKnown'
  BY <1>1, <1>2 DEF KnownInv, CutsAreKnown, stream
<1>6. FailuresAreKnown'
  BY <1>1, <1>3 DEF KnownInv, FailuresAreKnown
<1> QED
  BY <1>4, <1>5, <1>6 DEF KnownInv

LEMMA FailureSkipsNothing ==
  ASSUME FilesInv, KnownInv, NEW t \in Threads, OpenFails(t)
  PROVE  KnownInv'
<1> DEFINE name == in_path[t]
<1>1. /\ pc[t] = "open" /\ failed' = failed \cup {<<t, name>>}
      /\ UNCHANGED <<directory, stream, in_path, executed, cut>> /\ Passed' = Passed
      /\ pc'[t] = "done" /\ \A u \in Threads \ {t} : pc'[u] = pc[u]
  BY PassedRests DEF OpenFails, Goto, FilesInv, ThreadsOK
<1>2. /\ JobNames' = JobNames /\ Taken \subseteq Taken' \cup {name}
      /\ Done' = Done \cup {t} /\ AllRead' = AllRead
  BY <1>1 DEF JobNames, Taken, Done, AllRead, stream
<1>6. /\ Unopened \subseteq Unopened' /\ name \in Unopened'
      /\ {f[1] : f \in failed} \cup {t} \subseteq {f[1] : f \in failed'}
  <2> HIDE DEF name
  <2>1. <<t, name>>[1] = t /\ <<t, name>>[2] = name /\ <<t, name>> \in failed'
    BY <1>1
  <2>2. failed \subseteq failed'
    BY <1>1
  <2> QED
    BY <2>1, <2>2 DEF Unopened
<1>3. PassedAreKnown'
  BY <1>1, <1>2, <1>6 DEF KnownInv, PassedAreKnown
<1>4. CutsAreKnown'
  BY <1>1 DEF KnownInv, CutsAreKnown, stream
<1>5. FailuresAreKnown'
  BY <1>2, <1>6 DEF KnownInv, FailuresAreKnown
<1> QED
  BY <1>3, <1>4, <1>5 DEF KnownInv

(* The name that strtok cuts is the thread's own, which is being run, or   *)
(* it is one of cut from now on.                                           *)
LEMMA BackupSkipsNothing ==
  ASSUME FilesInv, KnownInv, NEW t \in Threads, Backup(t)
  PROVE  KnownInv'
<1> DEFINE name == data[entry[t]]
<1>1. /\ pc[t] = "run" /\ data' = [data EXCEPT ![entry[t]] = Cut(name)]
      /\ cut' = cut \cup ({name} \ {in_path[t], Cut(name)})
      /\ UNCHANGED <<directory, got, size, offset, pc, in_path, executed, failed>>
      /\ Passed' = Passed
  BY PassedRests DEF Backup
<1>2. JobNames' = JobNames /\ Taken' = Taken /\ Done' = Done /\ AllRead' = AllRead
      /\ Unopened' = Unopened
  BY <1>1 DEF JobNames, Taken, Done, AllRead, Unopened
<1>3. PassedAreKnown'
  BY <1>1, <1>2 DEF KnownInv, PassedAreKnown
<1>4. CutsAreKnown'
  <2>1. ASSUME NEW s \in 1 .. size, data'[s] # directory[got - size + s]
        PROVE  directory[got - size + s] \in ToSet(executed) \cup cut'
    <3>1. CASE data[s] # directory[got - size + s]
      BY <1>1, <3>1 DEF KnownInv, CutsAreKnown
    <3>2. CASE data[s] = directory[got - size + s]
      <4>1. s = entry[t] /\ Cut(name) # name
        BY <1>1, <2>1, <3>2 DEF FilesInv, StreamOK
      <4> QED
        BY <1>1, <3>2, <4>1 DEF KnownInv, CutsAreKnown
    <3> QED
      BY <3>1, <3>2
  <2> QED
    BY <1>1, <2>1 DEF KnownInv, CutsAreKnown
<1>5. FailuresAreKnown'
  BY <1>1, <1>2 DEF KnownInv, FailuresAreKnown
<1> QED
  BY <1>3, <1>4, <1>5 DEF KnownInv

(* A server that has crashed stays so.                                     *)
LEMMA CrashedStays ==
  ASSUME FilesInv, ServerCrashed, [Next]_vars
  PROVE  ServerCrashed'
<1> PICK u \in Threads : pc[u] = "crashed"
  BY DEF ServerCrashed
<1>1. ASSUME NEW t \in Threads, Thread(t)
      PROVE  pc'[u] = "crashed"
  <2>1. CASE Crash(t)
    BY <2>1 DEF Crash
  <2>2. CASE \/ Lock(t) \/ NextSlot(t) \/ Refill(t) \/ EndOfDirectory(t) \/ Check(t)
             \/ PassOver(t) \/ Copy(t)
    BY <2>2 DEF Lock, NextSlot, Refill, EndOfDirectory, Check, PassOver, Copy, Goto, FilesInv,
                ThreadsOK
  <2>3. CASE Open(t) \/ OpenFails(t) \/ Backup(t) \/ EndJob(t)
    BY <2>3 DEF Open, OpenFails, Backup, EndJob, Goto, FilesInv, ThreadsOK
  <2> QED
    BY <1>1, <2>1, <2>2, <2>3 DEF Thread
<1> QED
  BY <1>1 DEF Next, ServerCrashed, vars

LEMMA SkipStep == FilesInv /\ SkipInv /\ [Next]_vars => SkipInv'
<1> SUFFICES ASSUME FilesInv, SkipInv, [Next]_vars, ~ServerCrashed
             PROVE  SkipInv'
  BY CrashedStays DEF SkipInv
<1>0. KnownInv
  BY DEF SkipInv
<1>1. CASE UNCHANGED vars
  <2>1. Passed' = Passed /\ JobNames' = JobNames /\ Taken' = Taken /\ Done' = Done
        /\ AllRead' = AllRead /\ Unopened' = Unopened
    BY <1>1 DEF Passed, Reading, JobNames, Taken, Done, AllRead, Unopened, vars, stream,
                histories
  <2> QED
    BY <1>0, <1>1, <2>1 DEF SkipInv, KnownInv, PassedAreKnown, CutsAreKnown,
                            FailuresAreKnown, vars, stream, histories
<1>2. ASSUME NEW t \in Threads, Thread(t)
      PROVE  SkipInv'
  <2>1. CASE Crash(t)
    BY <2>1 DEF Crash, SkipInv, ServerCrashed
  <2>2. CASE ~Crash(t)
    BY <1>0, <1>2, <2>2, StreamStepsSkipNothing, RefillSkipsNothing, PassOverSkipsNothing,
       CopySkipsNothing, OpenSkipsNothing, FailureSkipsNothing, BackupSkipsNothing
       DEF Thread, SkipInv
  <2> QED
    BY <2>1, <2>2
<1> QED
  BY <1>1, <1>2 DEF Next

(* When all threads have ended, every job of the directory has been run,   *)
(* could not be opened, or lost its name to a thread whose pointer was out *)
(* of date; or every thread ended over a file that could not be opened.    *)
THEOREM FilesNotSkipped == Spec => []NoFileSkipped
<1>1. FilesInv /\ SkipInv => NoFileSkipped
  <2> SUFFICES ASSUME FilesInv, SkipInv, AllDone, NEW n \in JobNames,
                      n \notin ToSet(executed) \cup Unopened \cup cut
               PROVE  Threads \subseteq {f[1] : f \in failed}
    BY DEF NoFileSkipped, Unopened
  <2>1. Taken = {} /\ Reading = {} /\ Done = Threads /\ ~ServerCrashed
    BY DEF AllDone, Taken, Reading, Done, ServerCrashed
  <2>2. ~AllRead
    <3> SUFFICES ASSUME AllRead
                 PROVE  FALSE
      OBVIOUS
    <3>1. Passed = Len(directory)
      BY <2>1, FilesAssumption, Position DEF FilesInv, StreamOK, AllRead, Passed
    <3>2. PICK k \in 1 .. Passed : directory[k] = n
      BY <3>1, Position DEF FilesInv, JobNames, ToSet
    <3> QED
      BY <2>1, <3>2 DEF SkipInv, KnownInv, PassedAreKnown
  <2> QED
    BY <2>1, <2>2 DEF SkipInv, KnownInv, FailuresAreKnown
<1> QED
  BY <1>1, FilesInit, FilesStep, SkipInit, SkipStep, PTL DEF Spec

-----------------------------------------------------------------------------
(* Backups keep apart: as long as the buffer has not been filled anew, the *)
(* slot of a thread that runs a file has the file's name, whole or cut.    *)
NamesInv ==
  /\ refilled \in [Threads -> BOOLEAN]
  /\ \A t \in Threads : pc[t] \in {"open", "run"} /\ ~refilled[t] =>
       data[entry[t]] \in {in_path[t], Cut(in_path[t])}
  /\ \A b \in backups : b.stale = TRUE \/ b.path = bck_name(Stem(b.job), b.number)

LEMMA NamesStep == FilesInv /\ NamesInv /\ [Next]_vars => NamesInv'
<1> SUFFICES ASSUME FilesInv, NamesInv, [Next]_vars
             PROVE  NamesInv'
  OBVIOUS
<1>0. /\ pc \in [Threads -> {"lock", "read", "check", "copy", "open", "run", "done", "crashed"}]
      /\ entry \in [Threads -> 1 .. Slots] /\ DOMAIN data = 1 .. Slots
      /\ DOMAIN in_path = Threads
  BY DEF FilesInv, ThreadsOK, StreamOK
<1>1. CASE UNCHANGED vars
  BY <1>1 DEF NamesInv, vars, stream, histories
<1>2. ASSUME NEW t \in Threads,
             \/ Lock(t) \/ NextSlot(t) \/ EndOfDirectory(t) \/ Check(t) \/ PassOver(t)
             \/ Crash(t) \/ Open(t) \/ OpenFails(t) \/ EndJob(t)
      PROVE  NamesInv'
  <2>1. UNCHANGED <<data, in_path, refilled, backups>>
    BY <1>2 DEF Lock, NextSlot, EndOfDirectory, Check, PassOver, Crash, Open, OpenFails, EndJob, stream, histories
  <2>2. \A u \in Threads : pc'[u] \in {"open", "run"} =>
          pc[u] \in {"open", "run"} /\ entry'[u] = entry[u]
    BY <1>0, <1>2 DEF Lock, NextSlot, EndOfDirectory, Check, PassOver, Crash, Open, OpenFails, EndJob, Goto, Point
  <2> QED
    BY <2>1, <2>2 DEF NamesInv
<1>3. ASSUME NEW t \in Threads, Refill(t)
      PROVE  NamesInv'
  BY <1>3 DEF Refill, NamesInv, histories
<1>4. ASSUME NEW t \in Threads, Copy(t)
      PROVE  NamesInv'
  <2>1. UNCHANGED <<data, entry, backups>>
    BY <1>4 DEF Copy, stream, histories
  <2>2. \A u \in Threads \ {t} :
          pc'[u] = pc[u] /\ in_path'[u] = in_path[u] /\ refilled'[u] = refilled[u]
    BY <1>0, <1>4 DEF Copy, Goto, NamesInv
  <2>3. pc'[t] \in {"open", "run"} => in_path'[t] = data[entry[t]]
    BY <1>0, <1>4 DEF Copy, Goto
  <2>4. refilled' \in [Threads -> BOOLEAN]
    BY <1>4 DEF Copy, NamesInv
  <2> QED
    BY <2>1, <2>2, <2>3, <2>4 DEF NamesInv
<1>5. ASSUME NEW t \in Threads, Backup(t)
      PROVE  NamesInv'
  <2> DEFINE name == data[entry[t]]
             own == in_path[t]
             number == file_backups'[t]
             backup == [job |-> own, number |-> number,
                        path |-> bck_name(Stem(name), number), stale |-> refilled[t]]
  <2>1. /\ pc[t] = "run" /\ UNCHANGED <<pc, entry, in_path, refilled>>
        /\ data' = [data EXCEPT ![entry[t]] = Cut(name)]
        /\ backups' = backups \cup {backup}
    BY <1>5 DEF Backup
  <2>2. ASSUME NEW u \in Threads, pc[u] = "open" \/ pc[u] = "run"
        PROVE  in_path[u] \in Seq(STRING)
    <3>1. in_path[u] \in JobNames \/ \E m \in ToSet(directory) : in_path[u] = Cut(m)
      BY <2>2 DEF FilesInv, ThreadsOK, TornNames
    <3>2. ToSet(directory) \subseteq Seq(STRING)
      BY FilesAssumption DEF FilesInv, StreamOK, ToSet
    <3> QED
      BY <3>1, <3>2, JobIsEntry, CutIdempotent DEF FilesInv
  <2>3. ASSUME NEW u \in Threads, pc[u] = "open" \/ pc[u] = "run", ~refilled[u]
        PROVE  data'[entry[u]] \in {in_path[u], Cut(in_path[u])}
    <3>1. data[entry[u]] \in {in_path[u], Cut(in_path[u])}
      BY <2>3 DEF NamesInv
    <3>2. Cut(Cut(in_path[u])) = Cut(in_path[u])
      BY <2>2, <2>3, CutIdempotent
    <3>3. data'[entry[u]] \in {data[entry[u]], Cut(data[entry[u]])}
      BY <1>0, <2>1
    <3> QED
      BY <3>1, <3>2, <3>3
  <2>4. backup.stale = TRUE \/ backup.path = bck_name(Stem(backup.job), backup.number)
    <3>1. CASE refilled[t]
      BY <3>1 DEF NamesInv
    <3>2. CASE ~refilled[t]
      <4>1. name \in {own, Cut(own)}
        BY <2>1, <3>2 DEF NamesInv
      <4>2. Stem(Cut(own)) = Stem(own)
        BY <2>1, <2>2, CutIdempotent
      <4>3. Stem(name) = Stem(own)
        BY <4>1, <4>2
      <4> HIDE DEF name, own, number
      <4> QED
        BY <4>3
    <3> QED
      BY <3>1, <3>2
  <2> HIDE DEF backup
  <2> QED
    BY <2>1, <2>3, <2>4 DEF NamesInv
<1> QED
  BY <1>1, <1>2, <1>3, <1>4, <1>5 DEF Next, Thread

(* Two backups overwrite each other only where the names of their files    *)
(* agree in the first part that is not empty, where the number did not fit *)
(* or where a thread's pointer was out of date.                            *)
THEOREM FilesBackupsApart == Spec => []BackupsApart
<1>1. Init => NamesInv
  BY DEF Init, NamesInv
<1>2. NamesInv => BackupsApart
  <2> SUFFICES ASSUME NamesInv, NEW b \in backups, NEW c \in backups,
                      b.path = c.path, <<b.job, b.number>> # <<c.job, c.number>>,
                      ~(b.stale = TRUE), ~(c.stale = TRUE), Len(b.path) # 1
               PROVE  b.job # c.job /\ Stem(b.job) = Stem(c.job)
    BY DEF BackupsApart
  <2> DEFINE s1 == Stem(b.job)
             s2 == Stem(c.job)
  <2>1. b.path = bck_name(s1, b.number) /\ c.path = bck_name(s2, c.number)
    BY DEF NamesInv
  <2> HIDE DEF s1, s2
  <2>2. s1 \notin DOMAIN Shortened /\ s2 \notin DOMAIN Shortened
    <3>1. s1 \in DOMAIN Shortened => b.path = <<Shortened[s1]>>
      BY <2>1 DEF bck_name
    <3>2. s2 \in DOMAIN Shortened => b.path = <<Shortened[s2]>>
      BY <2>1 DEF bck_name
    <3>3. Len(<<Shortened[s1]>>) = 1 /\ Len(<<Shortened[s2]>>) = 1
      OBVIOUS
    <3> QED
      BY <3>1, <3>2, <3>3, Zenon
  <2>3. <<s1, b.number>> = <<s2, c.number>>
    BY <2>1, <2>2 DEF bck_name
  <2> QED
    BY <2>3 DEF s1, s2
<1> QED
  BY <1>1, <1>2, FilesInit, FilesStep, NamesStep, PTL DEF Spec
=============================================================================

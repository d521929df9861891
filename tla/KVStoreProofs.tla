--------------------------- MODULE KVStoreProofs ---------------------------
(***************************************************************************)
(* Proofs about KVTable and KVStore, for any jobs, managers, commands,     *)
(* keys, values, pipes and table size.                                     *)
(***************************************************************************)
EXTENDS KVStore, SequenceTheorems, WellFoundedInduction, TLAPS

(* Min chooses an element that no other is below. *)
LEMMA MinimumExists ==
  ASSUME NEW I \in SUBSET Nat, I # {}
  PROVE  Min(I) \in I /\ \A i \in I : Min(I) <= i
<1>1. PICK x \in I : \A y \in I : ~(<<y, x>> \in OpToRel(<, Nat))
  BY NatLessThanWellFounded, WFMin, Zenon
<1>2. ASSUME NEW y \in I
      PROVE  x <= y
  <2>1. y < x => <<y, x>> \in OpToRel(<, Nat)
    BY DEF OpToRel
  <2>2. ~(y < x)
    BY <1>1, <2>1, Zenon
  <2> QED
    BY <2>2
<1> QED
  BY <1>1, <1>2 DEF Min

-----------------------------------------------------------------------------
(* What the operations of the hash table return, and that they keep it     *)
(* well-formed.                                                            *)

LEMMA HashInBuckets == \A k \in Keys : hash(k) \in Buckets
BY TableAssumption

(* Find returns the first place of the key in its bucket, or 0. *)
LEMMA FindFirst ==
  ASSUME NEW ht \in HashTable, NEW key \in Keys
  PROVE  /\ Find(ht, key) \in 0 .. Len(ht[hash(key)])
         /\ Has(ht, key) => Node(ht, key).key = key
         /\ ~Has(ht, key) => \A i \in DOMAIN ht[hash(key)] :
                               ht[hash(key)][i].key # key
<1> DEFINE I == {i \in 1 .. Len(ht[hash(key)]) : ht[hash(key)][i].key = key}
<1>1. ht[hash(key)] \in Seq(KeyNode)
  BY HashInBuckets DEF HashTable
<1>2. Find(ht, key) = IF I # {} THEN Min(I) ELSE 0
  BY DEF Find, SelectInSeq
<1>3. I \in SUBSET Nat
  OBVIOUS
<1>4. I # {} => Min(I) \in I
  BY <1>3, MinimumExists
<1> QED
  BY <1>1, <1>2, <1>4 DEF Has, Node

-----------------------------------------------------------------------------
(* Three ways in which a bucket changes: a node is updated in place, a     *)
(* node is put in front, a node is taken out.                              *)
BucketOK(b, chain) ==
  \A i \in 1 .. Len(chain) :
    /\ hash(chain[i].key) = b
    /\ \A j \in 1 .. Len(chain) : chain[j].key = chain[i].key => i = j

LEMMA WellFormedByBucket ==
  ASSUME NEW ht \in HashTable
  PROVE  WellFormed(ht) <=> \A b \in Buckets : BucketOK(b, ht[b])
<1>1. \A b \in Buckets : DOMAIN ht[b] = 1 .. Len(ht[b])
  BY DEF HashTable
<1> QED
  BY <1>1 DEF WellFormed, BucketOK

LEMMA UpdateBucket ==
  ASSUME NEW ht \in HashTable, NEW b \in Buckets, NEW chain \in Seq(KeyNode)
  PROVE  /\ [ht EXCEPT ![b] = chain] \in HashTable
         /\ WellFormed(ht) /\ BucketOK(b, chain)
              => WellFormed([ht EXCEPT ![b] = chain])
<1>1. [ht EXCEPT ![b] = chain] \in HashTable
  BY DEF HashTable
<1>2. \A c \in Buckets :
        [ht EXCEPT ![b] = chain][c] = IF c = b THEN chain ELSE ht[c]
  BY DEF HashTable
<1> QED
  BY <1>1, <1>2, WellFormedByBucket, Zenon

LEMMA ReplaceNode ==
  ASSUME NEW chain \in Seq(KeyNode), NEW i \in 1 .. Len(chain),
         NEW node \in KeyNode, node.key = chain[i].key, NEW b
  PROVE  /\ [chain EXCEPT ![i] = node] \in Seq(KeyNode)
         /\ BucketOK(b, chain) => BucketOK(b, [chain EXCEPT ![i] = node])
<1>1. /\ [chain EXCEPT ![i] = node] \in Seq(KeyNode)
      /\ Len([chain EXCEPT ![i] = node]) = Len(chain)
  BY ExceptSeq
<1>2. \A j \in 1 .. Len(chain) :
        [chain EXCEPT ![i] = node][j].key = chain[j].key
  OBVIOUS
<1> QED
  BY <1>1, <1>2 DEF BucketOK

LEMMA ConsNode ==
  ASSUME NEW chain \in Seq(KeyNode), NEW node \in KeyNode,
         \A i \in 1 .. Len(chain) : chain[i].key # node.key
  PROVE  /\ Cons(node, chain) \in Seq(KeyNode)
         /\ BucketOK(hash(node.key), chain)
              => BucketOK(hash(node.key), Cons(node, chain))
<1>1. Cons(node, chain) \in Seq(KeyNode)
  BY DEF Cons
<1>2. /\ Len(Cons(node, chain)) = Len(chain) + 1
      /\ \A i \in 1 .. Len(chain) + 1 :
           Cons(node, chain)[i] = IF i = 1 THEN node ELSE chain[i - 1]
  BY DEF Cons
<1>3. ASSUME BucketOK(hash(node.key), chain),
             NEW i \in 1 .. Len(chain) + 1, NEW j \in 1 .. Len(chain) + 1
      PROVE  /\ hash(Cons(node, chain)[i].key) = hash(node.key)
             /\ Cons(node, chain)[j].key = Cons(node, chain)[i].key => i = j
  <2>1. CASE i = 1 /\ j = 1
    BY <2>1, <1>2
  <2>2. CASE i = 1 /\ j # 1
    BY <2>2, <1>2
  <2>3. CASE i # 1 /\ j = 1
    BY <2>3, <1>2, <1>3 DEF BucketOK
  <2>4. CASE i # 1 /\ j # 1
    <3>1. i - 1 \in 1 .. Len(chain) /\ j - 1 \in 1 .. Len(chain)
      BY <2>4
    <3>2. /\ Cons(node, chain)[i] = chain[i - 1]
          /\ Cons(node, chain)[j] = chain[j - 1]
      BY <2>4, <1>2
    <3>3. /\ hash(chain[i - 1].key) = hash(node.key)
          /\ chain[j - 1].key = chain[i - 1].key => i - 1 = j - 1
      BY <3>1, <1>3 DEF BucketOK
    <3> QED
      BY <3>2, <3>3
  <2> QED
    BY <2>1, <2>2, <2>3, <2>4
<1> QED
  BY <1>1, <1>2, <1>3 DEF BucketOK

LEMMA RemoveItem ==
  ASSUME NEW S, NEW s \in Seq(S), NEW i \in 1 .. Len(s)
  PROVE  /\ RemoveAt(s, i) \in Seq(S)
         /\ Len(RemoveAt(s, i)) = Len(s) - 1
         /\ \A j \in 1 .. Len(s) - 1 :
              RemoveAt(s, i)[j] = IF j < i THEN s[j] ELSE s[j + 1]
<1> DEFINE A == SubSeq(s, 1, i - 1)
           B == SubSeq(s, i + 1, Len(s))
<1>1. \A k \in 1 .. Len(s) : s[k] \in S
  OBVIOUS
<1>2. /\ A \in Seq(S)
      /\ Len(A) = i - 1
      /\ \A k \in 1 .. i - 1 : A[k] = s[k]
  BY <1>1, SubSeqProperties
<1>3. /\ B \in Seq(S)
      /\ Len(B) = Len(s) - i
      /\ \A k \in 1 .. Len(s) - i : B[k] = s[i + k]
  BY <1>1, SubSeqProperties
<1> HIDE DEF A, B
<1>4. /\ A \o B \in Seq(S)
      /\ Len(A \o B) = Len(s) - 1
      /\ \A k \in 1 .. Len(s) - 1 :
           (A \o B)[k] = IF k < i THEN s[k] ELSE s[k + 1]
  <2>1. /\ A \o B \in Seq(S)
        /\ Len(A \o B) = Len(A) + Len(B)
        /\ \A k \in 1 .. Len(A) + Len(B) :
             (A \o B)[k] = IF k <= Len(A) THEN A[k] ELSE B[k - Len(A)]
    BY <1>2, <1>3, ConcatProperties
  <2>2. Len(A) + Len(B) = Len(s) - 1
    BY <1>2, <1>3
  <2>3. ASSUME NEW k \in 1 .. Len(s) - 1
        PROVE  (A \o B)[k] = IF k < i THEN s[k] ELSE s[k + 1]
    <3>1. CASE k < i
      BY <3>1, <2>1, <2>2, <1>2
    <3>2. CASE ~(k < i)
      <4>1. k - Len(A) \in 1 .. Len(s) - i /\ i + (k - Len(A)) = k + 1
        BY <3>2, <1>2
      <4>2. (A \o B)[k] = B[k - Len(A)]
        BY <3>2, <2>1, <2>2, <1>2
      <4>3. B[k - Len(A)] = s[i + (k - Len(A))]
        BY <4>1, <1>3
      <4> QED
        BY <4>1, <4>2, <4>3, <3>2
    <3> QED
      BY <3>1, <3>2
  <2> QED
    BY <2>1, <2>2, <2>3
<1> QED
  BY <1>4 DEF RemoveAt, A, B

LEMMA RemoveNode ==
  ASSUME NEW chain \in Seq(KeyNode), NEW i \in 1 .. Len(chain), NEW b
  PROVE  /\ RemoveAt(chain, i) \in Seq(KeyNode)
         /\ BucketOK(b, chain) => BucketOK(b, RemoveAt(chain, i))
<1>1. /\ RemoveAt(chain, i) \in Seq(KeyNode)
      /\ Len(RemoveAt(chain, i)) = Len(chain) - 1
      /\ \A j \in 1 .. Len(chain) - 1 :
           RemoveAt(chain, i)[j] = IF j < i THEN chain[j] ELSE chain[j + 1]
  BY RemoveItem
<1>2. ASSUME BucketOK(b, chain),
             NEW j \in 1 .. Len(chain) - 1, NEW k \in 1 .. Len(chain) - 1
      PROVE  /\ hash(RemoveAt(chain, i)[j].key) = b
             /\ RemoveAt(chain, i)[k].key = RemoveAt(chain, i)[j].key => j = k
  <2> DEFINE was(n) == IF n < i THEN n ELSE n + 1
  <2>1. was(j) \in 1 .. Len(chain) /\ was(k) \in 1 .. Len(chain)
        /\ (was(j) = was(k) => j = k)
    OBVIOUS
  <2>2. /\ RemoveAt(chain, i)[j] = chain[was(j)]
        /\ RemoveAt(chain, i)[k] = chain[was(k)]
    BY <1>1
  <2> HIDE DEF was
  <2> QED
    BY <1>2, <2>1, <2>2 DEF BucketOK
<1> QED
  BY <1>1, <1>2 DEF BucketOK

-----------------------------------------------------------------------------
(* The functions of kvs.c keep the table typed and well-formed.            *)
LEMMA ChainOfKey ==
  ASSUME NEW ht \in HashTable, NEW key \in Keys
  PROVE  /\ hash(key) \in Buckets
         /\ ht[hash(key)] \in Seq(KeyNode)
         /\ Has(ht, key) => /\ Find(ht, key) \in 1 .. Len(ht[hash(key)])
                            /\ Node(ht, key) \in KeyNode
                            /\ Node(ht, key).key = key
<1>1. hash(key) \in Buckets /\ ht[hash(key)] \in Seq(KeyNode)
  BY HashInBuckets DEF HashTable
<1>2. Has(ht, key) => Find(ht, key) \in 1 .. Len(ht[hash(key)])
  BY <1>1, FindFirst DEF Has
<1> QED
  BY <1>1, <1>2, FindFirst DEF Node

LEMMA NotifPipesTyped ==
  ASSUME NEW ht \in HashTable, NEW key \in Keys
  PROVE  NotifPipes(ht, key) \in Seq(Pipes)
BY ChainOfKey DEF NotifPipes, KeyNode

LEMMA ReadPairTyped ==
  ASSUME NEW ht \in HashTable, NEW key \in Keys
  PROVE  read_pair(ht, key) \in Values \cup {NoValue}
BY ChainOfKey DEF read_pair, KeyNode

LEMMA WritePairTyped ==
  ASSUME NEW ht \in HashTable, NEW key \in Keys, NEW val \in Values
  PROVE  /\ write_pair(ht, key, val) \in HashTable
         /\ WellFormed(ht) => WellFormed(write_pair(ht, key, val))
<1> DEFINE b == hash(key)
           i == Find(ht, key)
<1>1. b \in Buckets /\ ht[b] \in Seq(KeyNode)
  BY ChainOfKey
<1>2. WellFormed(ht) => BucketOK(b, ht[b])
  BY <1>1, WellFormedByBucket
<1>3. CASE Has(ht, key)
  <2> DEFINE node == [ht[b][i] EXCEPT !.value = val]
  <2>1. i \in 1 .. Len(ht[b]) /\ ht[b][i] \in KeyNode
    BY <1>3, ChainOfKey DEF Node
  <2>2. node \in KeyNode /\ node.key = ht[b][i].key
    BY <2>1 DEF KeyNode
  <2>3. write_pair(ht, key, val) = [ht EXCEPT ![b] = [ht[b] EXCEPT ![i] = node]]
    BY <1>3 DEF write_pair
  <2> DEFINE chain == [ht[b] EXCEPT ![i] = node]
  <2> HIDE DEF node, b, i
  <2>4. chain \in Seq(KeyNode) /\ (BucketOK(b, ht[b]) => BucketOK(b, chain))
    BY <1>1, <2>1, <2>2, ReplaceNode
  <2> HIDE DEF chain
  <2>5. /\ [ht EXCEPT ![b] = chain] \in HashTable
        /\ WellFormed(ht) /\ BucketOK(b, chain)
             => WellFormed([ht EXCEPT ![b] = chain])
    BY <1>1, <2>4, UpdateBucket
  <2> QED
    BY <1>2, <2>3, <2>4, <2>5 DEF chain
<1>4. CASE ~Has(ht, key)
  <2> DEFINE node == NewNode(key, val)
  <2>1. node \in KeyNode /\ node.key = key
    BY DEF NewNode, KeyNode
  <2>2. \A n \in 1 .. Len(ht[b]) : ht[b][n].key # key
    BY <1>1, <1>4, FindFirst
  <2>3. write_pair(ht, key, val) = [ht EXCEPT ![b] = Cons(node, ht[b])]
    BY <1>4 DEF write_pair
  <2>4. b = hash(node.key)
    BY <2>1
  <2> DEFINE chain == Cons(node, ht[b])
  <2> HIDE DEF node, b, i
  <2>5. chain \in Seq(KeyNode) /\ (BucketOK(b, ht[b]) => BucketOK(b, chain))
    BY <1>1, <2>1, <2>2, <2>4, ConsNode
  <2> HIDE DEF chain
  <2>6. /\ [ht EXCEPT ![b] = chain] \in HashTable
        /\ WellFormed(ht) /\ BucketOK(b, chain)
             => WellFormed([ht EXCEPT ![b] = chain])
    BY <1>1, <2>5, UpdateBucket
  <2> QED
    BY <1>2, <2>3, <2>5, <2>6 DEF chain
<1> QED
  BY <1>3, <1>4

LEMMA DeletePairTyped ==
  ASSUME NEW ht \in HashTable, NEW key \in Keys
  PROVE  /\ delete_pair(ht, key) \in HashTable
         /\ WellFormed(ht) => WellFormed(delete_pair(ht, key))
<1>1. CASE Has(ht, key)
  <2> DEFINE b == hash(key)
             i == Find(ht, key)
  <2>1. /\ b \in Buckets /\ ht[b] \in Seq(KeyNode)
        /\ i \in 1 .. Len(ht[b])
    BY <1>1, ChainOfKey
  <2>2. WellFormed(ht) => BucketOK(b, ht[b])
    BY <2>1, WellFormedByBucket
  <2>3. delete_pair(ht, key) = [ht EXCEPT ![b] = RemoveAt(ht[b], i)]
    BY <1>1 DEF delete_pair
  <2> HIDE DEF b, i
  <2> QED
    BY <2>1, <2>2, <2>3, RemoveNode, UpdateBucket
<1>2. CASE ~Has(ht, key)
  BY <1>2 DEF delete_pair
<1> QED
  BY <1>1, <1>2

LEMMA RemoveNotifPipeTyped ==
  ASSUME NEW list \in Seq(Pipes), NEW p
  PROVE  remove_notif_pipe(list, p) \in Seq(Pipes)
<1> DEFINE I == {i \in 1 .. Len(list) : list[i] = p}
<1>1. CASE \E i \in 1 .. Len(list) : list[i] = p
  <2>1. I # {} /\ I \in SUBSET Nat
    BY <1>1
  <2>2. Min(I) \in I
    BY <2>1, MinimumExists
  <2>3. RemoveFirst(list, p) = RemoveAt(list, Min(I))
    BY <1>1, <2>1 DEF RemoveFirst, SelectInSeq
  <2>4. Min(I) \in 1 .. Len(list)
    BY <2>2
  <2> HIDE DEF I
  <2> QED
    BY <2>3, <2>4, RemoveItem DEF remove_notif_pipe
<1>2. CASE ~\E i \in 1 .. Len(list) : list[i] = p
  BY <1>2 DEF remove_notif_pipe, RemoveFirst
<1> QED
  BY <1>1, <1>2

LEMMA ReplaceList ==
  ASSUME NEW chain \in Seq(KeyNode), NEW i \in 1 .. Len(chain),
         NEW list \in Seq(Pipes), NEW b
  PROVE  /\ [chain EXCEPT ![i].notif_pipes = list] \in Seq(KeyNode)
         /\ BucketOK(b, chain)
              => BucketOK(b, [chain EXCEPT ![i].notif_pipes = list])
<1> DEFINE node == [chain[i] EXCEPT !.notif_pipes = list]
<1>0. chain[i] \in KeyNode
  OBVIOUS
<1>1. node \in KeyNode /\ node.key = chain[i].key
  BY <1>0 DEF KeyNode
<1>2. [chain EXCEPT ![i].notif_pipes = list] = [chain EXCEPT ![i] = node]
  OBVIOUS
<1> HIDE DEF node
<1> QED
  BY <1>1, <1>2, ReplaceNode

(* The table after a change of the list of a key that is in it. *)
LEMMA ReplaceListOfKey ==
  ASSUME NEW ht \in HashTable, NEW key \in Keys, Has(ht, key),
         NEW list \in Seq(Pipes)
  PROVE  LET new == [ht EXCEPT ![hash(key)][Find(ht, key)].notif_pipes = list]
         IN  new \in HashTable /\ (WellFormed(ht) => WellFormed(new))
<1> DEFINE b == hash(key)
           i == Find(ht, key)
           chain == [ht[b] EXCEPT ![i].notif_pipes = list]
<1>1. /\ b \in Buckets /\ ht[b] \in Seq(KeyNode)
      /\ i \in 1 .. Len(ht[b])
  BY ChainOfKey
<1>2. WellFormed(ht) => BucketOK(b, ht[b])
  BY <1>1, WellFormedByBucket
<1>3. [ht EXCEPT ![b][i].notif_pipes = list] = [ht EXCEPT ![b] = chain]
  OBVIOUS
<1> HIDE DEF b, i
<1>4. chain \in Seq(KeyNode) /\ (BucketOK(b, ht[b]) => BucketOK(b, chain))
  BY <1>1, ReplaceList
<1> HIDE DEF chain
<1>5. /\ [ht EXCEPT ![b] = chain] \in HashTable
      /\ WellFormed(ht) /\ BucketOK(b, chain)
           => WellFormed([ht EXCEPT ![b] = chain])
  BY <1>1, <1>4, UpdateBucket
<1> QED
  BY <1>2, <1>3, <1>4, <1>5 DEF b, i

LEMMA SubscribeTyped ==
  ASSUME NEW ht \in HashTable, NEW key \in Keys, NEW p \in Pipes
  PROVE  /\ execute_subscribe(ht, key, p).ht \in HashTable
         /\ WellFormed(ht) => WellFormed(execute_subscribe(ht, key, p).ht)
<1>1. CASE Has(ht, key)
  <2> DEFINE list == Cons(p, Node(ht, key).notif_pipes)
  <2>1. Node(ht, key).notif_pipes \in Seq(Pipes)
    BY <1>1, ChainOfKey DEF KeyNode
  <2>2. list \in Seq(Pipes)
    BY <2>1 DEF Cons
  <2>3. execute_subscribe(ht, key, p).ht
          = [ht EXCEPT ![hash(key)][Find(ht, key)].notif_pipes = list]
    BY <1>1 DEF execute_subscribe, Returns, Node
  <2> HIDE DEF list
  <2> QED
    BY <1>1, <2>2, <2>3, ReplaceListOfKey
<1>2. CASE ~Has(ht, key)
  BY <1>2 DEF execute_subscribe, Returns
<1> QED
  BY <1>1, <1>2

LEMMA UnsubscribeTyped ==
  ASSUME NEW ht \in HashTable, NEW key \in Keys, NEW p \in Pipes
  PROVE  /\ execute_unsubscribe(ht, key, p).ht \in HashTable
         /\ WellFormed(ht) => WellFormed(execute_unsubscribe(ht, key, p).ht)
<1>1. CASE Has(ht, key) /\ Contains(Node(ht, key).notif_pipes, p)
  <2> DEFINE list == remove_notif_pipe(Node(ht, key).notif_pipes, p)
  <2>1. Node(ht, key).notif_pipes \in Seq(Pipes)
    BY <1>1, ChainOfKey DEF KeyNode
  <2>2. list \in Seq(Pipes)
    BY <2>1, RemoveNotifPipeTyped
  <2>3. execute_unsubscribe(ht, key, p).ht
          = [ht EXCEPT ![hash(key)][Find(ht, key)].notif_pipes = list]
    BY <1>1 DEF execute_unsubscribe, Returns, Node
  <2> HIDE DEF list
  <2> QED
    BY <1>1, <2>2, <2>3, ReplaceListOfKey
<1>2. CASE ~(Has(ht, key) /\ Contains(Node(ht, key).notif_pipes, p))
  BY <1>2 DEF execute_unsubscribe, Returns
<1> QED
  BY <1>1, <1>2

LEMMA DisconnectTyped ==
  ASSUME NEW ht \in HashTable, NEW p \in Pipes
  PROVE  /\ execute_disconnect(ht, p).ht \in HashTable
         /\ WellFormed(ht) => WellFormed(execute_disconnect(ht, p).ht)
<1> DEFINE new == execute_disconnect(ht, p).ht
           cut(b) == [ht[b] EXCEPT ![1].notif_pipes = remove_notif_pipe(@, p)]
<1>1. new = [b \in Buckets |-> new[b]]
      /\ \A b \in Buckets : new[b] = ht[b] \/ new[b] = cut(b)
  BY DEF execute_disconnect, Returns
<1>2. ASSUME NEW b \in Buckets
      PROVE  /\ cut(b) \in Seq(KeyNode)
             /\ BucketOK(b, ht[b]) => BucketOK(b, cut(b))
  <2>1. ht[b] \in Seq(KeyNode)
    BY DEF HashTable
  <2>2. CASE ht[b] = << >>
    <3>1. cut(b) = << >>
      BY <2>2
    <3> HIDE DEF cut
    <3> QED
      BY <3>1 DEF BucketOK
  <2>3. CASE ht[b] # << >>
    <3>0. 1 \in 1 .. Len(ht[b]) /\ ht[b][1] \in KeyNode
      BY <2>1, <2>3
    <3>1. 1 \in 1 .. Len(ht[b]) /\ ht[b][1].notif_pipes \in Seq(Pipes)
      BY <3>0 DEF KeyNode
    <3>2. remove_notif_pipe(ht[b][1].notif_pipes, p) \in Seq(Pipes)
      BY <3>1, RemoveNotifPipeTyped
    <3>3. cut(b) = [ht[b] EXCEPT ![1].notif_pipes =
                      remove_notif_pipe(ht[b][1].notif_pipes, p)]
      OBVIOUS
    <3> QED
      BY <2>1, <3>1, <3>2, <3>3, ReplaceList
  <2> QED
    BY <2>2, <2>3
<1>3. \A b \in Buckets : ht[b] \in Seq(KeyNode)
  BY DEF HashTable
<1> HIDE DEF new, cut
<1>4. new \in HashTable
  BY <1>1, <1>2, <1>3 DEF HashTable
<1>5. WellFormed(ht) => WellFormed(new)
  BY <1>1, <1>2, <1>4, WellFormedByBucket
<1> QED
  BY <1>4, <1>5 DEF new

-----------------------------------------------------------------------------
(* What the functions do to the pairs and to the lists, key by key.        *)

(* In a well-formed table, a place that has the key is the one found.      *)
LEMMA FoundThere ==
  ASSUME NEW ht \in HashTable, WellFormed(ht), NEW key \in Keys,
         NEW i \in 1 .. Len(ht[hash(key)]), ht[hash(key)][i].key = key
  PROVE  Has(ht, key) /\ Find(ht, key) = i /\ Node(ht, key) = ht[hash(key)][i]
<1>1. /\ hash(key) \in Buckets /\ DOMAIN ht[hash(key)] = 1 .. Len(ht[hash(key)])
  BY ChainOfKey
<1>2. Has(ht, key)
  BY <1>1, FindFirst
<1>3. Find(ht, key) \in 1 .. Len(ht[hash(key)]) /\ ht[hash(key)][Find(ht, key)].key = key
  BY <1>2, ChainOfKey DEF Node
<1>4. Find(ht, key) = i
  BY <1>1, <1>3 DEF WellFormed
<1> QED
  BY <1>2, <1>4 DEF Node

LEMMA NotFound ==
  ASSUME NEW ht \in HashTable, NEW key \in Keys,
         \A i \in 1 .. Len(ht[hash(key)]) : ht[hash(key)][i].key # key
  PROVE  ~Has(ht, key)
BY ChainOfKey DEF Node

LEMMA NowhereElse ==
  ASSUME NEW ht \in HashTable, NEW key \in Keys, ~Has(ht, key)
  PROVE  \A i \in 1 .. Len(ht[hash(key)]) : ht[hash(key)][i].key # key
BY FindFirst, ChainOfKey

(* A change that leaves every place its key changes no place found.        *)
LEMMA SamePlaces ==
  ASSUME NEW ht \in HashTable, WellFormed(ht), NEW new \in HashTable, WellFormed(new),
         \A b \in Buckets :
           /\ Len(new[b]) = Len(ht[b])
           /\ \A i \in 1 .. Len(ht[b]) : new[b][i].key = ht[b][i].key,
         NEW key \in Keys
  PROVE  /\ Has(new, key) <=> Has(ht, key)
         /\ Has(ht, key) => Node(new, key) = new[hash(key)][Find(ht, key)]
<1> DEFINE b == hash(key)
<1>1. b \in Buckets
  BY HashInBuckets
<1>2. CASE Has(ht, key)
  <2>1. Find(ht, key) \in 1 .. Len(ht[b]) /\ ht[b][Find(ht, key)].key = key
    BY <1>2, ChainOfKey DEF Node
  <2>2. Find(ht, key) \in 1 .. Len(new[b]) /\ new[b][Find(ht, key)].key = key
    BY <1>1, <2>1
  <2> QED
    BY <1>2, <2>2, FoundThere
<1>3. CASE ~Has(ht, key)
  <2>1. \A i \in 1 .. Len(ht[b]) : ht[b][i].key # key
    BY <1>3, NowhereElse
  <2>2. \A i \in 1 .. Len(new[b]) : new[b][i].key # key
    BY <1>1, <2>1
  <2> QED
    BY <1>3, <2>2, NotFound
<1> QED
  BY <1>2, <1>3

LEMMA OtherBucket ==
  ASSUME NEW ht \in HashTable, WellFormed(ht), NEW new \in HashTable, WellFormed(new),
         NEW key \in Keys, new[hash(key)] = ht[hash(key)]
  PROVE  (Has(new, key) <=> Has(ht, key)) /\ (Has(ht, key) => Node(new, key) = Node(ht, key))
BY DEF Has, Node, Find

(* A node updated in place is what is found for its key.                   *)
LEMMA NodeReplaced ==
  ASSUME NEW ht \in HashTable, WellFormed(ht), NEW new \in HashTable, WellFormed(new),
         NEW k \in Keys, Has(ht, k), NEW node \in KeyNode, node.key = k,
         \A c \in Buckets :
           new[c] = IF c = hash(k) THEN [ht[hash(k)] EXCEPT ![Find(ht, k)] = node] ELSE ht[c],
         NEW key \in Keys
  PROVE  /\ Has(new, key) <=> Has(ht, key)
         /\ Has(ht, key) => Node(new, key) = IF key = k THEN node ELSE Node(ht, key)
<1> DEFINE b == hash(k)
           i == Find(ht, k)
<1>1. /\ b \in Buckets /\ ht[b] \in Seq(KeyNode) /\ i \in 1 .. Len(ht[b])
      /\ ht[b][i].key = k
  BY ChainOfKey DEF Node
<1> HIDE DEF b, i
<1>2. /\ \A c \in Buckets : c # b => new[c] = ht[c]
      /\ new[b] = [ht[b] EXCEPT ![i] = node]
  BY <1>1 DEF HashTable, b, i
<1>3. /\ Len(new[b]) = Len(ht[b])
      /\ \A j \in 1 .. Len(ht[b]) : new[b][j] = IF j = i THEN node ELSE ht[b][j]
  BY <1>1, <1>2
<1>4. \A c \in Buckets :
        Len(new[c]) = Len(ht[c]) /\ \A j \in 1 .. Len(ht[c]) : new[c][j].key = ht[c][j].key
  BY <1>1, <1>2, <1>3
<1>5. /\ Has(new, key) <=> Has(ht, key)
      /\ Has(ht, key) => Node(new, key) = new[hash(key)][Find(ht, key)]
  BY <1>4, SamePlaces
<1>6. ASSUME Has(ht, key)
      PROVE  Node(new, key) = IF key = k THEN node ELSE Node(ht, key)
  <2>1. /\ hash(key) \in Buckets /\ Find(ht, key) \in 1 .. Len(ht[hash(key)])
        /\ ht[hash(key)][Find(ht, key)].key = key
    BY <1>6, ChainOfKey DEF Node
  <2>2. CASE key = k
    BY <1>3, <1>5, <1>6, <2>1, <2>2 DEF b, i
  <2>3. CASE key # k
    <3>1. new[hash(key)][Find(ht, key)] = ht[hash(key)][Find(ht, key)]
      BY <1>1, <1>2, <1>3, <2>1, <2>3
    <3> QED
      BY <1>5, <1>6, <2>3, <3>1 DEF Node
  <2> QED
    BY <2>2, <2>3
<1> QED
  BY <1>5, <1>6

(* A node put in front is what is found for its key, which was not there.  *)
LEMMA NodeAdded ==
  ASSUME NEW ht \in HashTable, WellFormed(ht), NEW new \in HashTable, WellFormed(new),
         NEW k \in Keys, ~Has(ht, k), NEW node \in KeyNode, node.key = k,
         \A c \in Buckets :
           new[c] = IF c = hash(k) THEN Cons(node, ht[hash(k)]) ELSE ht[c],
         NEW key \in Keys
  PROVE  /\ Has(new, key) <=> key = k \/ Has(ht, key)
         /\ Has(new, key) => Node(new, key) = IF key = k THEN node ELSE Node(ht, key)
<1> DEFINE b == hash(k)
           chain == Cons(node, ht[b])
<1>1. b \in Buckets /\ ht[b] \in Seq(KeyNode)
  BY ChainOfKey
<1>2. /\ Len(chain) = Len(ht[b]) + 1 /\ chain[1] = node
      /\ \A i \in 1 .. Len(ht[b]) : chain[i + 1] = ht[b][i]
  BY <1>1 DEF Cons
<1> HIDE DEF chain, b
<1>3. (\A c \in Buckets : c # b => new[c] = ht[c]) /\ new[b] = chain
  BY <1>1 DEF HashTable, b, chain
<1>4. CASE hash(key) # b
  <2>1. hash(key) \in Buckets /\ new[hash(key)] = ht[hash(key)] /\ key # k
    BY <1>3, <1>4, HashInBuckets DEF b
  <2> QED
    BY <2>1, OtherBucket
<1>5. CASE key = k
  <2>1. 1 \in 1 .. Len(new[hash(key)]) /\ new[hash(key)][1] = node
        /\ new[hash(key)][1].key = key
    BY <1>1, <1>2, <1>3, <1>5 DEF b
  <2>2. /\ Has(new, key)
        /\ Node(new, key) = new[hash(key)][1]
    BY <2>1, FoundThere
  <2>3. Node(new, key) = node
    BY <2>1, <2>2
  <2> QED
    BY <1>5, <2>2, <2>3
<1>6. CASE hash(key) = b /\ key # k /\ Has(ht, key)
  <2> DEFINE i == Find(ht, key)
  <2>1. i \in 1 .. Len(ht[b]) /\ ht[b][i].key = key /\ Node(ht, key) = ht[b][i]
    BY <1>6, ChainOfKey DEF Node
  <2> HIDE DEF i
  <2>2. i + 1 \in 1 .. Len(new[b]) /\ new[b][i + 1] = ht[b][i]
    BY <1>1, <1>2, <1>3, <2>1
  <2> DEFINE n == i + 1
  <2>3. n \in 1 .. Len(new[hash(key)]) /\ new[hash(key)][n].key = key
        /\ new[hash(key)][n] = Node(ht, key)
    BY <1>6, <2>1, <2>2
  <2> HIDE DEF n
  <2>4. Has(new, key) /\ Node(new, key) = new[hash(key)][n]
    BY <2>3, FoundThere
  <2> QED
    BY <1>6, <2>3, <2>4
<1>7. CASE hash(key) = b /\ key # k /\ ~Has(ht, key)
  <2>1. \A i \in 1 .. Len(ht[b]) : ht[b][i].key # key
    BY <1>7, NowhereElse
  <2>2. ASSUME NEW n \in 1 .. Len(new[b])
        PROVE  new[b][n].key # key
    <3>1. CASE n = 1
      BY <1>2, <1>3, <1>7, <3>1
    <3>2. CASE n # 1
      <4>1. n - 1 \in 1 .. Len(ht[b]) /\ (n - 1) + 1 = n
        BY <1>1, <1>2, <1>3, <3>2
      <4>2. new[b][n] = ht[b][n - 1]
        BY <1>2, <1>3, <4>1
      <4> QED
        BY <2>1, <4>1, <4>2
    <3> QED
      BY <3>1, <3>2
  <2>3. ~Has(new, key)
    BY <1>7, <2>2, NotFound
  <2> QED
    BY <1>7, <2>3
<1> QED
  BY <1>4, <1>5, <1>6, <1>7

(* A node taken out is not found any more.                                 *)
LEMMA NodeTaken ==
  ASSUME NEW ht \in HashTable, WellFormed(ht), NEW new \in HashTable, WellFormed(new),
         NEW k \in Keys, Has(ht, k),
         \A c \in Buckets :
           new[c] = IF c = hash(k) THEN RemoveAt(ht[hash(k)], Find(ht, k)) ELSE ht[c],
         NEW key \in Keys
  PROVE  /\ Has(new, key) <=> key # k /\ Has(ht, key)
         /\ Has(new, key) => Node(new, key) = Node(ht, key)
<1> DEFINE b == hash(k)
           i == Find(ht, k)
           chain == RemoveAt(ht[b], i)
<1>1. /\ b \in Buckets /\ ht[b] \in Seq(KeyNode) /\ i \in 1 .. Len(ht[b])
      /\ ht[b][i].key = k
  BY ChainOfKey DEF Node
<1> HIDE DEF i
<1>2. /\ Len(chain) = Len(ht[b]) - 1
      /\ \A j \in 1 .. Len(ht[b]) - 1 :
           chain[j] = IF j < i THEN ht[b][j] ELSE ht[b][j + 1]
  BY <1>1, RemoveItem
<1> HIDE DEF chain, b
<1>3. (\A c \in Buckets : c # b => new[c] = ht[c]) /\ new[b] = chain
  BY <1>1 DEF HashTable, b, i, chain
<1>4. CASE hash(key) # b
  <2>1. hash(key) \in Buckets /\ new[hash(key)] = ht[hash(key)] /\ key # k
    BY <1>3, <1>4, HashInBuckets DEF b
  <2> QED
    BY <2>1, OtherBucket
<1>5. CASE hash(key) = b /\ key # k /\ Has(ht, key)
  <2> DEFINE j == Find(ht, key)
             n == IF j < i THEN j ELSE j - 1
  <2>1. j \in 1 .. Len(ht[b]) /\ ht[b][j].key = key /\ Node(ht, key) = ht[b][j]
    BY <1>5, ChainOfKey DEF Node
  <2> HIDE DEF j
  <2>2. j # i
    BY <1>1, <1>5, <2>1
  <2>3. n \in 1 .. Len(ht[b]) - 1 /\ (j < i => n = j /\ n < i) /\ (~(j < i) => ~(n < i) /\ n + 1 = j)
    BY <1>1, <2>1, <2>2
  <2> HIDE DEF n
  <2>4. n \in 1 .. Len(new[hash(key)]) /\ new[hash(key)][n] = Node(ht, key)
        /\ new[hash(key)][n].key = key
    BY <1>2, <1>3, <1>5, <2>1, <2>3
  <2>5. Has(new, key) /\ Node(new, key) = new[hash(key)][n]
    BY <2>4, FoundThere
  <2> QED
    BY <1>5, <2>4, <2>5
<1>6. CASE hash(key) = b /\ (key = k \/ ~Has(ht, key))
  <2>1. ASSUME NEW n \in 1 .. Len(new[b])
        PROVE  new[b][n].key # key
    <3> DEFINE j == IF n < i THEN n ELSE n + 1
    <3>1. j \in 1 .. Len(ht[b]) /\ j # i /\ new[b][n] = ht[b][j]
      BY <1>1, <1>2, <1>3
    <3> HIDE DEF j
    <3>2. CASE key = k
      <4>1. i \in DOMAIN ht[b] /\ j \in DOMAIN ht[b]
        BY <1>1, <3>1
      <4>2. ht[b][j].key = ht[b][i].key => i = j
        BY <1>1, <4>1 DEF WellFormed
      <4> QED
        BY <1>1, <3>1, <3>2, <4>2
    <3>3. CASE ~Has(ht, key)
      BY <1>6, <3>1, <3>3, NowhereElse
    <3> QED
      BY <1>6, <3>2, <3>3
  <2>2. ~Has(new, key)
    BY <1>6, <2>1, NotFound
  <2> QED
    BY <1>6, <2>2
<1>7. key = k => hash(key) = b
  BY DEF b
<1> QED
  BY <1>4, <1>5, <1>6, <1>7

LEMMA WritePairEffect ==
  ASSUME NEW ht \in HashTable, WellFormed(ht), NEW k \in Keys, NEW val \in Values,
         NEW key \in Keys
  PROVE  LET new == write_pair(ht, k, val)
         IN  /\ Has(new, key) <=> key = k \/ Has(ht, key)
             /\ read_pair(new, key) = IF key = k THEN val ELSE read_pair(ht, key)
             /\ NotifPipes(new, key) = NotifPipes(ht, key)
<1> DEFINE new == write_pair(ht, k, val)
           b == hash(k)
           i == Find(ht, k)
<1>0. b \in Buckets /\ ht[b] \in Seq(KeyNode)
  BY ChainOfKey
<1>1. new \in HashTable /\ WellFormed(new)
  BY WritePairTyped
<1>2. CASE Has(ht, k)
  <2> DEFINE node == [Node(ht, k) EXCEPT !.value = val]
  <2>1. Node(ht, k) \in KeyNode /\ Node(ht, k).key = k
    BY <1>2, ChainOfKey
  <2>2. /\ node \in KeyNode /\ node.key = k
        /\ node.value = val /\ node.notif_pipes = Node(ht, k).notif_pipes
    BY <2>1 DEF KeyNode
  <2>3. new = [ht EXCEPT ![b] = [ht[b] EXCEPT ![i] = node]]
    BY <1>2 DEF write_pair, Node
  <2> HIDE DEF node, new
  <2>4. \A c \in Buckets : new[c] = IF c = b THEN [ht[b] EXCEPT ![i] = node] ELSE ht[c]
    BY <1>0, <2>3 DEF HashTable
  <2>5. /\ Has(new, key) <=> Has(ht, key)
        /\ Has(ht, key) => Node(new, key) = IF key = k THEN node ELSE Node(ht, key)
    BY <1>1, <1>2, <2>2, <2>4, NodeReplaced
  <2>6. /\ Has(new, key) <=> key = k \/ Has(ht, key)
        /\ read_pair(new, key) = IF key = k THEN val ELSE read_pair(ht, key)
        /\ NotifPipes(new, key) = NotifPipes(ht, key)
    BY <1>2, <2>2, <2>5 DEF read_pair, NotifPipes
  <2> QED
    BY <2>6 DEF new
<1>3. CASE ~Has(ht, k)
  <2> DEFINE node == NewNode(k, val)
  <2>1. /\ node \in KeyNode /\ node.key = k
        /\ node.value = val /\ node.notif_pipes = << >>
    BY DEF NewNode, KeyNode
  <2>2. new = [ht EXCEPT ![b] = Cons(node, ht[b])]
    BY <1>3 DEF write_pair
  <2> HIDE DEF node, new
  <2>3. \A c \in Buckets : new[c] = IF c = b THEN Cons(node, ht[b]) ELSE ht[c]
    BY <1>0, <2>2 DEF HashTable
  <2>4. /\ Has(new, key) <=> key = k \/ Has(ht, key)
        /\ Has(new, key) => Node(new, key) = IF key = k THEN node ELSE Node(ht, key)
    BY <1>1, <1>3, <2>1, <2>3, NodeAdded
  <2>5. /\ read_pair(new, key) = IF key = k THEN val ELSE read_pair(ht, key)
        /\ NotifPipes(new, key) = NotifPipes(ht, key)
    BY <1>3, <2>1, <2>4 DEF read_pair, NotifPipes
  <2> QED
    BY <2>4, <2>5 DEF new
<1> QED
  BY <1>2, <1>3

LEMMA DeletePairEffect ==
  ASSUME NEW ht \in HashTable, WellFormed(ht), NEW k \in Keys, NEW key \in Keys
  PROVE  LET new == delete_pair(ht, k)
         IN  /\ Has(new, key) <=> key # k /\ Has(ht, key)
             /\ read_pair(new, key) = IF key = k THEN NoValue ELSE read_pair(ht, key)
             /\ key # k => NotifPipes(new, key) = NotifPipes(ht, key)
<1> DEFINE new == delete_pair(ht, k)
           b == hash(k)
<1>0. b \in Buckets /\ ht[b] \in Seq(KeyNode)
  BY ChainOfKey
<1>1. new \in HashTable /\ WellFormed(new)
  BY DeletePairTyped
<1>2. CASE Has(ht, k)
  <2>1. new = [ht EXCEPT ![b] = RemoveAt(ht[b], Find(ht, k))]
    BY <1>2 DEF delete_pair
  <2> HIDE DEF new
  <2>2. \A c \in Buckets : new[c] = IF c = b THEN RemoveAt(ht[b], Find(ht, k)) ELSE ht[c]
    BY <1>0, <2>1 DEF HashTable
  <2>3. /\ Has(new, key) <=> key # k /\ Has(ht, key)
        /\ Has(new, key) => Node(new, key) = Node(ht, key)
    BY <1>1, <1>2, <2>2, NodeTaken
  <2>4. /\ read_pair(new, key) = IF key = k THEN NoValue ELSE read_pair(ht, key)
        /\ key # k => NotifPipes(new, key) = NotifPipes(ht, key)
    BY <2>3 DEF read_pair, NotifPipes
  <2> QED
    BY <2>3, <2>4 DEF new
<1>3. CASE ~Has(ht, k)
  BY <1>3 DEF delete_pair, read_pair
<1> QED
  BY <1>2, <1>3

(* Another pipe's place in a list does not change when a pipe is removed.  *)
LEMMA OthersStayListed ==
  ASSUME NEW list \in Seq(Pipes), NEW p, NEW q, q # p, Contains(list, q)
  PROVE  Contains(remove_notif_pipe(list, p), q)
<1> DEFINE I == {i \in 1 .. Len(list) : list[i] = p}
<1>1. CASE \E i \in 1 .. Len(list) : list[i] = p
  <2>1. I # {} /\ I \in SUBSET Nat
    BY <1>1
  <2>2. Min(I) \in I
    BY <2>1, MinimumExists
  <2>3. remove_notif_pipe(list, p) = RemoveAt(list, Min(I))
    BY <1>1, <2>1 DEF RemoveFirst, SelectInSeq, remove_notif_pipe
  <2>4. PICK j \in 1 .. Len(list) : list[j] = q
    BY DEF Contains
  <2> DEFINE m == Min(I)
             rest == RemoveAt(list, m)
  <2>5. m \in 1 .. Len(list) /\ list[m] = p
    BY <2>2
  <2>6. rest = remove_notif_pipe(list, p)
    BY <2>3
  <2> HIDE DEF I, m
  <2>7. /\ Len(rest) = Len(list) - 1
        /\ \A i \in 1 .. Len(list) - 1 : rest[i] = IF i < m THEN list[i] ELSE list[i + 1]
    BY <2>5, RemoveItem
  <2> HIDE DEF rest
  <2>8. Contains(rest, q)
    <3>1. CASE j < m
      <4>1. j \in 1 .. Len(list) - 1
        BY <2>4, <2>5, <3>1
      <4>2. rest[j] = q /\ j \in 1 .. Len(rest)
        BY <2>4, <2>7, <3>1, <4>1
      <4> QED
        BY <4>2 DEF Contains
    <3>2. CASE ~(j < m)
      <4>1. j - 1 \in 1 .. Len(list) - 1 /\ ~(j - 1 < m) /\ (j - 1) + 1 = j
        BY <2>4, <2>5, <3>2
      <4>2. rest[j - 1] = q /\ j - 1 \in 1 .. Len(rest)
        BY <2>4, <2>7, <4>1
      <4> QED
        BY <4>2 DEF Contains
    <3> QED
      BY <3>1, <3>2
  <2> QED
    BY <2>6, <2>8
<1>2. CASE ~\E i \in 1 .. Len(list) : list[i] = p
  BY <1>2 DEF remove_notif_pipe, RemoveFirst
<1> QED
  BY <1>1, <1>2

(* A request changes the list of one key, and no pair.                     *)
WithList(ht, k, list) == [ht[hash(k)] EXCEPT ![Find(ht, k)].notif_pipes = list]

LEMMA ListReplaced ==
  ASSUME NEW ht \in HashTable, WellFormed(ht), NEW new \in HashTable, WellFormed(new),
         NEW k \in Keys, Has(ht, k), NEW list \in Seq(Pipes),
         \A c \in Buckets :
           new[c] = IF c = hash(k) THEN WithList(ht, k, list) ELSE ht[c],
         NEW key \in Keys
  PROVE  /\ Has(new, key) <=> Has(ht, key)
         /\ read_pair(new, key) = read_pair(ht, key)
         /\ NotifPipes(new, key) = IF key = k THEN list ELSE NotifPipes(ht, key)
<1> DEFINE b == hash(k)
           i == Find(ht, k)
           node == [Node(ht, k) EXCEPT !.notif_pipes = list]
<1>1. b \in Buckets /\ ht[b] \in Seq(KeyNode) /\ Node(ht, k) \in KeyNode /\ Node(ht, k).key = k
  BY ChainOfKey
<1>2. /\ node \in KeyNode /\ node.key = k
      /\ node.value = Node(ht, k).value /\ node.notif_pipes = list
  BY <1>1 DEF KeyNode
<1>3. WithList(ht, k, list) = [ht[b] EXCEPT ![i] = node]
  BY DEF Node, WithList
<1> HIDE DEF node
<1>4. \A c \in Buckets : new[c] = IF c = b THEN [ht[b] EXCEPT ![i] = node] ELSE ht[c]
  BY <1>3
<1>5. /\ Has(new, key) <=> Has(ht, key)
      /\ Has(ht, key) => Node(new, key) = IF key = k THEN node ELSE Node(ht, key)
  BY <1>2, <1>4, NodeReplaced
<1> QED
  BY <1>2, <1>5 DEF read_pair, NotifPipes

LEMMA SubscribeEffect ==
  ASSUME NEW ht \in HashTable, WellFormed(ht), NEW k \in Keys, NEW p \in Pipes
  PROVE  LET o == execute_subscribe(ht, k, p)
         IN  /\ o.code = 0 => Has(ht, k) /\ Contains(NotifPipes(o.ht, k), p)
             /\ \A key \in Keys :
                  /\ Has(o.ht, key) <=> Has(ht, key)
                  /\ read_pair(o.ht, key) = read_pair(ht, key)
                  /\ \A q : Contains(NotifPipes(ht, key), q) => Contains(NotifPipes(o.ht, key), q)
<1> DEFINE old == Node(ht, k).notif_pipes
           list == Cons(p, old)
           new == execute_subscribe(ht, k, p).ht
<1>1. CASE Has(ht, k)
  <2>1. old \in Seq(Pipes) /\ NotifPipes(ht, k) = old
    BY <1>1, ChainOfKey DEF KeyNode, NotifPipes
  <2> HIDE DEF old
  <2>2. /\ list \in Seq(Pipes) /\ Len(list) = Len(old) + 1 /\ Len(old) \in Nat
        /\ list[1] = p /\ \A i \in 1 .. Len(old) : list[i + 1] = old[i]
    BY <2>1 DEF Cons
  <2> HIDE DEF list
  <2>3. Contains(list, p) /\ \A q : Contains(old, q) => Contains(list, q)
    <3>1. 1 \in 1 .. Len(list)
      BY <2>2
    <3>2. \A i \in 1 .. Len(old) : i + 1 \in 1 .. Len(list)
      BY <2>2
    <3> QED
      BY <2>2, <3>1, <3>2 DEF Contains
  <2>4. new = [ht EXCEPT ![hash(k)][Find(ht, k)].notif_pipes = list]
    BY <1>1 DEF execute_subscribe, Returns, Node, list, old
  <2>5. new \in HashTable /\ WellFormed(new)
    BY SubscribeTyped
  <2> HIDE DEF new
  <2>6. \A c \in Buckets :
           new[c] = IF c = hash(k) THEN WithList(ht, k, list) ELSE ht[c]
    BY <2>4, ChainOfKey DEF HashTable, WithList
  <2>7. ASSUME NEW key \in Keys
        PROVE  /\ Has(new, key) <=> Has(ht, key)
               /\ read_pair(new, key) = read_pair(ht, key)
               /\ NotifPipes(new, key) = IF key = k THEN list ELSE NotifPipes(ht, key)
    BY <1>1, <2>2, <2>5, <2>6, ListReplaced
  <2>8. /\ Contains(NotifPipes(new, k), p)
        /\ \A key \in Keys : /\ Has(new, key) <=> Has(ht, key)
                             /\ read_pair(new, key) = read_pair(ht, key)
                             /\ \A q : Contains(NotifPipes(ht, key), q) => Contains(NotifPipes(new, key), q)
    BY <2>1, <2>3, <2>7
  <2> QED
    BY <1>1, <2>8 DEF new
<1>2. CASE ~Has(ht, k)
  BY <1>2 DEF execute_subscribe, Returns
<1> QED
  BY <1>1, <1>2

LEMMA UnsubscribeEffect ==
  ASSUME NEW ht \in HashTable, WellFormed(ht), NEW k \in Keys, NEW p \in Pipes
  PROVE  LET new == execute_unsubscribe(ht, k, p).ht
         IN  \A key \in Keys :
               /\ Has(new, key) <=> Has(ht, key)
               /\ read_pair(new, key) = read_pair(ht, key)
               /\ key # k => NotifPipes(new, key) = NotifPipes(ht, key)
               /\ \A q : q # p /\ Contains(NotifPipes(ht, key), q) => Contains(NotifPipes(new, key), q)
<1> DEFINE old == Node(ht, k).notif_pipes
           list == remove_notif_pipe(old, p)
           new == execute_unsubscribe(ht, k, p).ht
<1>1. CASE Has(ht, k) /\ Contains(old, p)
  <2>1. old \in Seq(Pipes) /\ NotifPipes(ht, k) = old
    BY <1>1, ChainOfKey DEF KeyNode, NotifPipes
  <2>2. list \in Seq(Pipes) /\ \A q : q # p /\ Contains(old, q) => Contains(list, q)
    BY <2>1, RemoveNotifPipeTyped, OthersStayListed
  <2>3. new = [ht EXCEPT ![hash(k)][Find(ht, k)].notif_pipes = list]
    BY <1>1 DEF execute_unsubscribe, Returns, Node
  <2>4. new \in HashTable /\ WellFormed(new)
    BY UnsubscribeTyped
  <2> HIDE DEF old, list, new
  <2>5. \A c \in Buckets :
           new[c] = IF c = hash(k) THEN WithList(ht, k, list) ELSE ht[c]
    BY <2>3, ChainOfKey DEF HashTable, WithList
  <2>6. ASSUME NEW key \in Keys
        PROVE  /\ Has(new, key) <=> Has(ht, key)
               /\ read_pair(new, key) = read_pair(ht, key)
               /\ NotifPipes(new, key) = IF key = k THEN list ELSE NotifPipes(ht, key)
    BY <1>1, <2>2, <2>4, <2>5, ListReplaced
  <2>7. \A key \in Keys :
          /\ Has(new, key) <=> Has(ht, key)
          /\ read_pair(new, key) = read_pair(ht, key)
          /\ key # k => NotifPipes(new, key) = NotifPipes(ht, key)
          /\ \A q : q # p /\ Contains(NotifPipes(ht, key), q) => Contains(NotifPipes(new, key), q)
    BY <2>1, <2>2, <2>6
  <2> QED
    BY <2>7 DEF new
<1>2. CASE ~(Has(ht, k) /\ Contains(old, p))
  BY <1>2 DEF execute_unsubscribe, Returns
<1> QED
  BY <1>1, <1>2

LEMMA DisconnectEffect ==
  ASSUME NEW ht \in HashTable, WellFormed(ht), NEW p \in Pipes
  PROVE  LET new == execute_disconnect(ht, p).ht
         IN  \A key \in Keys :
               /\ Has(new, key) <=> Has(ht, key)
               /\ read_pair(new, key) = read_pair(ht, key)
               /\ \A q : q # p /\ Contains(NotifPipes(ht, key), q) => Contains(NotifPipes(new, key), q)
<1> DEFINE new == execute_disconnect(ht, p).ht
           cut(b) == [ht[b] EXCEPT ![1].notif_pipes = remove_notif_pipe(@, p)]
<1>1. \A b \in Buckets : new[b] = ht[b] \/ new[b] = cut(b)
  BY DEF execute_disconnect, Returns
<1>2. new \in HashTable /\ WellFormed(new)
  BY DisconnectTyped
<1> HIDE DEF new
<1>3. ASSUME NEW b \in Buckets
      PROVE  /\ Len(new[b]) = Len(ht[b])
             /\ \A i \in 1 .. Len(ht[b]) :
                  /\ new[b][i].key = ht[b][i].key
                  /\ new[b][i].value = ht[b][i].value
                  /\ \A q : q # p /\ Contains(ht[b][i].notif_pipes, q)
                              => Contains(new[b][i].notif_pipes, q)
  <2>1. ht[b] \in Seq(KeyNode) /\ new[b] \in Seq(KeyNode)
    BY <1>2 DEF HashTable
  <2>2. CASE new[b] = ht[b]
    BY <2>2
  <2>3. CASE new[b] = cut(b)
    <3>1. Len(new[b]) = Len(ht[b])
      BY <2>1, <2>3
    <3>2. ASSUME NEW i \in 1 .. Len(ht[b])
          PROVE  /\ new[b][i].key = ht[b][i].key
                 /\ new[b][i].value = ht[b][i].value
                 /\ \A q : q # p /\ Contains(ht[b][i].notif_pipes, q)
                             => Contains(new[b][i].notif_pipes, q)
      <4>1. CASE i = 1
        <5>1. new[b][1] = [ht[b][1] EXCEPT !.notif_pipes = remove_notif_pipe(@, p)]
          BY <2>1, <2>3, <4>1
        <5>2. ht[b][1] \in KeyNode
          BY <2>1, <4>1
        <5>3. /\ new[b][1].key = ht[b][1].key /\ new[b][1].value = ht[b][1].value
              /\ new[b][1].notif_pipes = remove_notif_pipe(ht[b][1].notif_pipes, p)
              /\ ht[b][1].notif_pipes \in Seq(Pipes)
          BY <5>1, <5>2 DEF KeyNode
        <5> QED
          BY <4>1, <5>3, OthersStayListed
      <4>2. CASE i # 1
        <5>1. new[b][i] = ht[b][i]
          BY <2>1, <2>3, <4>2
        <5> QED
          BY <5>1
      <4> QED
        BY <4>1, <4>2
    <3> QED
      BY <3>1, <3>2
  <2> QED
    BY <1>1, <2>2, <2>3
<1>4. ASSUME NEW key \in Keys
      PROVE  /\ Has(new, key) <=> Has(ht, key)
             /\ read_pair(new, key) = read_pair(ht, key)
             /\ \A q : q # p /\ Contains(NotifPipes(ht, key), q) => Contains(NotifPipes(new, key), q)
  <2>1. /\ Has(new, key) <=> Has(ht, key)
        /\ Has(ht, key) => Node(new, key) = new[hash(key)][Find(ht, key)]
    BY <1>2, <1>3, SamePlaces
  <2>2. CASE Has(ht, key)
    <3> DEFINE b == hash(key)
               i == Find(ht, key)
    <3>1. b \in Buckets /\ i \in 1 .. Len(ht[b]) /\ Node(ht, key) = ht[b][i]
          /\ Node(new, key) = new[b][i]
      BY <2>1, <2>2, ChainOfKey DEF Node
    <3> HIDE DEF b, i
    <3>2. /\ Node(new, key).value = Node(ht, key).value
          /\ \A q : q # p /\ Contains(Node(ht, key).notif_pipes, q)
                      => Contains(Node(new, key).notif_pipes, q)
      BY <1>3, <3>1
    <3> QED
      BY <2>1, <2>2, <3>2 DEF read_pair, NotifPipes
  <2>3. CASE ~Has(ht, key)
    BY <2>1, <2>3 DEF read_pair, NotifPipes, Contains
  <2> QED
    BY <2>2, <2>3
<1> QED
  BY <1>4 DEF new

(* A bucket lists the pairs of its keys, the buckets together all pairs.   *)
LEMMA ListingOfBucket ==
  ASSUME NEW ht \in HashTable, WellFormed(ht), NEW b \in Buckets
  PROVE  Listing(ht, b) =
           {<<k, read_pair(ht, k)>> : k \in {k \in Keys : hash(k) = b /\ Has(ht, k)}}
<1> DEFINE K == {k \in Keys : hash(k) = b /\ Has(ht, k)}
<1>1. ht[b] \in Seq(KeyNode) /\ DOMAIN ht[b] = 1 .. Len(ht[b])
  BY DEF HashTable
<1>2. ASSUME NEW i \in DOMAIN ht[b]
      PROVE  /\ ht[b][i].key \in K
             /\ ht[b][i].value = read_pair(ht, ht[b][i].key)
  <2> DEFINE k == ht[b][i].key
  <2>1. k \in Keys /\ hash(k) = b
    <3>1. ht[b][i] \in KeyNode
      BY <1>1
    <3> QED
      BY <3>1 DEF KeyNode, WellFormed
  <2>2. i \in 1 .. Len(ht[hash(k)]) /\ ht[hash(k)][i].key = k
    BY <1>1, <2>1
  <2> HIDE DEF k
  <2>3. Has(ht, k) /\ Node(ht, k) = ht[hash(k)][i]
    BY <2>1, <2>2, FoundThere
  <2>4. k \in K /\ ht[b][i].value = read_pair(ht, k)
    BY <2>1, <2>3 DEF read_pair
  <2> QED
    BY <2>4 DEF k
<1>3. ASSUME NEW k \in K
      PROVE  \E i \in DOMAIN ht[b] : ht[b][i].key = k
  BY <1>1, ChainOfKey DEF Node
<1>4. Listing(ht, b) \subseteq {<<k, read_pair(ht, k)>> : k \in K}
  BY <1>2 DEF Listing
<1>5. ASSUME NEW k \in K
      PROVE  <<k, read_pair(ht, k)>> \in Listing(ht, b)
  BY <1>2, <1>3 DEF Listing
<1> QED
  BY <1>4, <1>5

LEMMA HasValue ==
  ASSUME NEW ht \in HashTable, NEW key \in Keys
  PROVE  Has(ht, key) <=> read_pair(ht, key) # NoValue
BY TableAssumption, ChainOfKey DEF read_pair, KeyNode

-----------------------------------------------------------------------------
(* The store.                                                              *)

(* Type correctness needs no strengthening.  Exclusion does: that a job    *)
(* works on a command that writes exactly while it is the writer is stable *)
(* only because its command does not change meanwhile, which TypeOK says.  *)
StoreInv == TypeOK /\ LockDiscipline /\ ChainsWellFormed

LEMMA CommandTyped ==
  ASSUME NEW c \in Commands
  PROVE  /\ Items(c) \in Nat
         /\ c.op \in {"write", "read", "delete", "show", "backup"}
         /\ c.op = "write" => c.args \in Seq(Keys \X Values)
         /\ c.op \in {"read", "delete"} => c.args \in Seq(Keys)
         /\ c.op \in {"write", "read", "delete"} => Items(c) = Len(c.args)
<1>1. CASE c \in CommandOf("write", Seq(Keys \X Values))
  BY <1>1 DEF CommandOf, Items
<1>2. CASE c \in CommandOf("read", Seq(Keys)) \cup CommandOf("delete", Seq(Keys))
  BY <1>2 DEF CommandOf, Items
<1>3. CASE c \in CommandOf("show", {<< >>}) \cup CommandOf("backup", {<< >>})
  BY <1>3, TableAssumption DEF CommandOf, Items
<1> QED
  BY <1>1, <1>2, <1>3, StoreAssumption

LEMMA EmptyTable == create_hash_table \in HashTable /\ WellFormed(create_hash_table)
BY DEF create_hash_table, HashTable, WellFormed

LEMMA StoreInvInit == Init => StoreInv
<1> SUFFICES ASSUME Init PROVE StoreInv
  OBVIOUS
<1>1. table \in HashTable /\ ChainsWellFormed
  BY EmptyTable DEF Init, ChainsWellFormed
<1>2. /\ \A j \in Jobs : pc[j] = "idle" /\ cmd[j] = NoCommand
      /\ \A m \in Managers : pc[m] = "free" /\ cmd[m] = NoCommand
  BY StoreAssumption DEF Init, Threads
<1>3. \A j \in Jobs : JobOK(j)
  BY <1>2 DEF Init, JobOK
<1>4. \A m \in Managers : ManagerOK(m)
  BY <1>2 DEF Init, ManagerOK
<1>5. LockDiscipline
  BY <1>2, StoreAssumption DEF Init, LockDiscipline, Threads
<1>6. TypeOK
  BY <1>1, <1>3, <1>4, StoreAssumption DEF Init, TypeOK, Threads, Sessions
<1> QED
  BY <1>1, <1>5, <1>6 DEF StoreInv

-----------------------------------------------------------------------------
(* The job steps. *)
LEMMA StartKeeps ==
  ASSUME StoreInv, NEW j \in Jobs, NEW c \in Commands, Start(j, c)
  PROVE  StoreInv'
<1>0. /\ StoreInv /\ j \in Threads /\ pc[j] = "idle"
      /\ \A m \in Managers : m # j /\ m \in Threads
      /\ \A k \in Jobs : k \in Threads
  BY StoreAssumption DEF Start, Threads
<1>1. /\ pc' = [pc EXCEPT ![j] = "lock"] /\ cmd' = [cmd EXCEPT ![j] = c]
      /\ inputs' \in 0 .. MaxInputs
      /\ UNCHANGED <<table, writer, readers, idx, out, notify>>
      /\ UNCHANGED <<pipe, reading, pending, result, told>>
  BY StoreAssumption DEF Start, Input, locks, sessionVars, StoreInv, TypeOK
<1>2. \A k \in Jobs : JobOK(k)'
  BY <1>0, <1>1 DEF StoreInv, TypeOK, JobOK
<1>3. \A m \in Managers : ManagerOK(m)'
  BY <1>0, <1>1 DEF StoreInv, TypeOK, ManagerOK
<1>4. TypeOK'
  BY <1>0, <1>1, <1>2, <1>3 DEF StoreInv, TypeOK, Sessions
<1>5. LockDiscipline'
  BY <1>0, <1>1, StoreAssumption DEF StoreInv, TypeOK, LockDiscipline
<1> QED
  BY <1>0, <1>1, <1>4, <1>5 DEF StoreInv, ChainsWellFormed

LEMMA LockTableKeeps ==
  ASSUME StoreInv, NEW j \in Jobs, LockTable(j)
  PROVE  StoreInv'
<1>0. /\ StoreInv /\ j \in Threads /\ pc[j] = "lock"
      /\ cmd[j] \in Commands /\ idx[j] = 0 /\ notify[j] = << >>
      /\ \A m \in Managers : m # j /\ m \in Threads
      /\ \A k \in Jobs : k \in Threads
  BY StoreAssumption DEF LockTable, Threads, StoreInv, TypeOK, JobOK
<1>1. /\ writer = NOBODY
      /\ \/ /\ Writes(cmd[j]) /\ readers = {} /\ writer' = j
            /\ UNCHANGED readers
         \/ /\ ~Writes(cmd[j]) /\ readers' = readers \cup {j}
            /\ UNCHANGED writer
      /\ pc' = [pc EXCEPT ![j] = "work"]
      /\ UNCHANGED <<table, cmd, idx, out, notify>>
      /\ UNCHANGED <<pipe, reading, pending, result, told, inputs>>
  BY DEF LockTable, jobVars, sessionVars
<1>2. \A k \in Jobs : JobOK(k)'
  <2>1. idx[j] \in 0 .. Items(cmd[j])
    BY <1>0, CommandTyped
  <2> QED
    BY <1>0, <1>1, <2>1 DEF StoreInv, TypeOK, JobOK
<1>3. \A m \in Managers : ManagerOK(m)'
  BY <1>0, <1>1 DEF StoreInv, TypeOK, ManagerOK
<1>4. TypeOK'
  BY <1>0, <1>1, <1>2, <1>3 DEF StoreInv, TypeOK, Sessions
<1>5. LockDiscipline'
  BY <1>0, <1>1, StoreAssumption DEF StoreInv, TypeOK, LockDiscipline
<1> QED
  BY <1>0, <1>1, <1>4, <1>5 DEF StoreInv, ChainsWellFormed

(* A round of a command's loop leaves the lock alone; what it does to the  *)
(* table and to the pipes to notify has to be typed.                       *)
LEMMA RoundKeeps ==
  ASSUME StoreInv, NEW j \in Jobs, NEW op, Working(j, op),
         table' \in HashTable, ChainsWellFormed',
         NEW list \in Seq(Pipes), notify' = [notify EXCEPT ![j] = list],
         list # << >> => Writes(cmd[j])
  PROVE  StoreInv'
<1>0. /\ StoreInv /\ j \in Threads /\ pc[j] = "work"
      /\ cmd[j] \in Commands /\ idx[j] \in Nat /\ idx[j] < Items(cmd[j])
      /\ \A m \in Managers : m # j /\ m \in Threads
      /\ \A k \in Jobs : k \in Threads
  BY StoreAssumption DEF Working, Threads, StoreInv, TypeOK, JobOK
<1>1. /\ idx' = [idx EXCEPT ![j] = @ + 1]
      /\ UNCHANGED <<writer, readers, pc, cmd>>
      /\ UNCHANGED <<pipe, reading, pending, result, told, inputs>>
  BY DEF Working, locks, sessionVars
<1>2. \A k \in Jobs : JobOK(k)'
  <2>1. idx'[j] \in 0 .. Items(cmd[j]) /\ idx'[j] > 0
    BY <1>0, <1>1, CommandTyped DEF StoreInv, TypeOK
  <2>2. notify'[j] = list /\ \A k \in Jobs \ {j} : notify'[k] = notify[k]
                                                /\ idx'[k] = idx[k]
    BY <1>0, <1>1 DEF StoreInv, TypeOK
  <2> QED
    BY <1>0, <1>1, <2>1, <2>2 DEF StoreInv, TypeOK, JobOK
<1>3. \A m \in Managers : ManagerOK(m)'
  BY <1>0, <1>1 DEF StoreInv, TypeOK, ManagerOK
<1>4. TypeOK'
  BY <1>0, <1>1, <1>2, <1>3 DEF StoreInv, TypeOK, Sessions
<1>5. LockDiscipline'
  BY <1>0, <1>1 DEF StoreInv, LockDiscipline
<1> QED
  BY <1>4, <1>5 DEF StoreInv

LEMMA ItemTyped ==
  ASSUME StoreInv, NEW j \in Jobs, NEW op, Working(j, op)
  PROVE  /\ table \in HashTable /\ ChainsWellFormed
         /\ cmd[j] \in Commands /\ cmd[j].op = op
         /\ op = "write" => cmd[j].args[idx[j] + 1] \in Keys \X Values
         /\ op \in {"read", "delete"} => cmd[j].args[idx[j] + 1] \in Keys
<1>1. /\ cmd[j] \in Commands /\ idx[j] \in Nat /\ idx[j] < Items(cmd[j])
      /\ cmd[j].op = op
  BY DEF Working, StoreInv, TypeOK, JobOK
<1>2. op = "write" => cmd[j].args[idx[j] + 1] \in Keys \X Values
  <2> SUFFICES ASSUME op = "write" PROVE cmd[j].args[idx[j] + 1] \in Keys \X Values
    OBVIOUS
  <2>1. /\ cmd[j].args \in Seq(Keys \X Values)
        /\ idx[j] + 1 \in 1 .. Len(cmd[j].args)
    BY <1>1, CommandTyped
  <2> QED
    BY <2>1
<1>3. op \in {"read", "delete"} => cmd[j].args[idx[j] + 1] \in Keys
  <2> SUFFICES ASSUME op \in {"read", "delete"}
               PROVE  cmd[j].args[idx[j] + 1] \in Keys
    OBVIOUS
  <2>1. /\ cmd[j].args \in Seq(Keys)
        /\ idx[j] + 1 \in 1 .. Len(cmd[j].args)
    BY <1>1, CommandTyped
  <2> QED
    BY <2>1
<1> QED
  BY <1>1, <1>2, <1>3 DEF StoreInv, TypeOK

LEMMA WritePairKeeps ==
  ASSUME StoreInv, NEW j \in Jobs, WritePair(j)
  PROVE  StoreInv'
<1> DEFINE pair == cmd[j].args[idx[j] + 1]
<1>1. Working(j, "write")
  BY DEF WritePair
<1>2. /\ table \in HashTable /\ WellFormed(table)
      /\ pair[1] \in Keys /\ pair[2] \in Values
      /\ Writes(cmd[j])
  BY <1>1, ItemTyped DEF ChainsWellFormed, Writes
<1>3. /\ table' = write_pair(table, pair[1], pair[2])
      /\ notify' = [notify EXCEPT ![j] = NotifPipes(table, pair[1])]
  BY DEF WritePair
<1> HIDE DEF pair
<1>4. table' \in HashTable /\ ChainsWellFormed'
  BY <1>2, <1>3, WritePairTyped DEF ChainsWellFormed
<1>5. NotifPipes(table, pair[1]) \in Seq(Pipes)
  BY <1>2, NotifPipesTyped
<1> QED
  BY <1>1, <1>2, <1>3, <1>4, <1>5, RoundKeeps

LEMMA DeletePairKeeps ==
  ASSUME StoreInv, NEW j \in Jobs, DeletePair(j)
  PROVE  StoreInv'
<1> DEFINE key == cmd[j].args[idx[j] + 1]
<1>1. Working(j, "delete")
  BY DEF DeletePair
<1>2. /\ table \in HashTable /\ WellFormed(table)
      /\ key \in Keys
      /\ Writes(cmd[j])
  BY <1>1, ItemTyped DEF ChainsWellFormed, Writes
<1>3. /\ table' = delete_pair(table, key)
      /\ notify' = [notify EXCEPT ![j] = NotifPipes(table, key)]
  BY DEF DeletePair
<1> HIDE DEF key
<1>4. table' \in HashTable /\ ChainsWellFormed'
  BY <1>2, <1>3, DeletePairTyped DEF ChainsWellFormed
<1>5. NotifPipes(table, key) \in Seq(Pipes)
  BY <1>2, NotifPipesTyped
<1> QED
  BY <1>1, <1>2, <1>3, <1>4, <1>5, RoundKeeps

LEMMA ReadingKeeps ==
  ASSUME StoreInv, NEW j \in Jobs, ReadPair(j) \/ ShowBucket(j) \/ Fork(j)
  PROVE  StoreInv'
<1>1. PICK op : Working(j, op)
  BY DEF ReadPair, ShowBucket, Fork
<1>2. UNCHANGED <<table, notify>>
  BY DEF ReadPair, ShowBucket, Fork
<1>3. /\ notify[j] \in Seq(Pipes) /\ notify[j] = << >>
      /\ notify' = [notify EXCEPT ![j] = << >>]
  BY <1>1, <1>2 DEF Working, StoreInv, TypeOK
<1>4. table' \in HashTable /\ ChainsWellFormed'
  BY <1>2 DEF StoreInv, TypeOK, ChainsWellFormed
<1> QED
  BY <1>1, <1>3, <1>4, RoundKeeps

LEMMA NotifyKeeps ==
  ASSUME StoreInv, NEW j \in Jobs, Notify(j)
  PROVE  StoreInv'
<1> DEFINE heard == Audience(Head(notify[j]))
           key == KeyOf(cmd[j], idx[j])
<1>0. /\ StoreInv /\ pc[j] = "work" /\ Writes(cmd[j])
      /\ cmd[j] \in Commands
      /\ notify[j] \in Seq(Pipes) /\ notify[j] # << >>
      /\ idx[j] \in 1 .. Items(cmd[j])
  <2>1. /\ notify[j] \in Seq(Pipes) /\ notify[j] # << >>
        /\ pc[j] = "work" /\ Writes(cmd[j]) /\ idx[j] > 0
        /\ cmd[j] \in Commands /\ idx[j] \in 0 .. Items(cmd[j])
    BY DEF Notify, StoreInv, TypeOK, JobOK
  <2> QED
    BY <2>1, CommandTyped
<1>1. /\ \A m \in heard : pending[m] < PipeCapacity
      /\ pending' = [m \in Managers |->
                       pending[m] + IF m \in heard THEN 1 ELSE 0]
      /\ told' = [m \in Managers |->
                    IF m \in heard /\ told[m][key] \notin {NoSub, Gone}
                    THEN [told[m] EXCEPT ![key] = News(j)]
                    ELSE told[m]]
      /\ notify' = [notify EXCEPT ![j] = Tail(@)]
      /\ UNCHANGED <<table, writer, readers, pc, cmd, idx, out>>
      /\ UNCHANGED <<pipe, reading, result, inputs>>
  BY DEF Notify, locks
<1>2. key \in Keys /\ News(j) \in Values \cup {Gone}
  <2>1. CASE cmd[j].op = "write"
    <3>1. cmd[j].args[idx[j]] \in Keys \X Values
      BY <1>0, <2>1, CommandTyped
    <3> QED
      BY <2>1, <3>1 DEF KeyOf, News
  <2>2. CASE cmd[j].op = "delete"
    <3>1. cmd[j].args[idx[j]] \in Keys
      BY <1>0, <2>2, CommandTyped
    <3> QED
      BY <2>2, <3>1 DEF KeyOf, News
  <2> QED
    BY <1>0, <2>1, <2>2 DEF Writes
<1> HIDE DEF heard, key
<1>3. pending' \in [Managers -> 0 .. PipeCapacity]
  BY <1>0, <1>1, StoreAssumption DEF StoreInv, TypeOK
<1>4. told' \in [Managers -> [Keys -> Values \cup {NoSub, NoNews, Gone}]]
  BY <1>0, <1>1, <1>2 DEF StoreInv, TypeOK
<1>5. notify' \in [Jobs -> Seq(Pipes)]
  BY <1>0, <1>1, HeadTailProperties DEF StoreInv, TypeOK
<1>6. \A k \in Jobs : JobOK(k)'
  BY <1>0, <1>1 DEF StoreInv, TypeOK, JobOK
<1>7. \A m \in Managers : ManagerOK(m)'
  BY <1>0, <1>1 DEF StoreInv, TypeOK, ManagerOK
<1>8. TypeOK'
  BY <1>0, <1>1, <1>3, <1>4, <1>5, <1>6, <1>7 DEF StoreInv, TypeOK, Sessions
<1> QED
  BY <1>0, <1>1, <1>8 DEF StoreInv, LockDiscipline, ChainsWellFormed

LEMMA FinishKeeps ==
  ASSUME StoreInv, NEW j \in Jobs, Finish(j)
  PROVE  StoreInv'
<1>0. /\ StoreInv /\ j \in Threads /\ pc[j] = "work" /\ notify[j] = << >>
      /\ \A m \in Managers : m # j /\ m \in Threads
      /\ \A k \in Jobs : k \in Threads
  BY StoreAssumption DEF Finish, Threads
<1>1. /\ writer' = IF writer = j THEN NOBODY ELSE writer
      /\ readers' = readers \ {j}
      /\ pc' = [pc EXCEPT ![j] = "idle"]
      /\ cmd' = [cmd EXCEPT ![j] = NoCommand]
      /\ idx' = [idx EXCEPT ![j] = 0]
      /\ UNCHANGED <<table, notify, pipe, reading, pending, result, told, inputs>>
  BY DEF Finish, Unlock, sessionVars
<1>2. \A k \in Jobs : JobOK(k)'
  BY <1>0, <1>1 DEF StoreInv, TypeOK, JobOK
<1>3. \A m \in Managers : ManagerOK(m)'
  BY <1>0, <1>1 DEF StoreInv, TypeOK, ManagerOK
<1>4. TypeOK'
  BY <1>0, <1>1, <1>2, <1>3 DEF StoreInv, TypeOK, Sessions
<1>5. LockDiscipline'
  BY <1>0, <1>1, StoreAssumption DEF StoreInv, TypeOK, LockDiscipline, Threads
<1> QED
  BY <1>0, <1>1, <1>4, <1>5 DEF StoreInv, ChainsWellFormed

-----------------------------------------------------------------------------
(* The manager steps. *)
LEMMA OpenSessionKeeps ==
  ASSUME StoreInv, NEW m \in Managers, NEW p \in Pipes, OpenSession(m, p)
  PROVE  StoreInv'
<1>0. /\ StoreInv /\ m \in Threads /\ pc[m] = "free" /\ p # NoPipe
      /\ \A j \in Jobs : m # j /\ j \in Threads
      /\ \A n \in Managers : n \in Threads
  BY StoreAssumption DEF OpenSession, Threads
<1>1. /\ pc' = [pc EXCEPT ![m] = "ready"]
      /\ pipe' = [pipe EXCEPT ![m] = p]
      /\ reading' = reading \cup {m}
      /\ inputs' \in 0 .. MaxInputs
      /\ UNCHANGED <<table, writer, readers, cmd, idx, out, notify>>
      /\ UNCHANGED <<pending, result, told>>
  BY StoreAssumption DEF OpenSession, Input, locks, jobVars, StoreInv, TypeOK
<1>2. \A j \in Jobs : JobOK(j)'
  BY <1>0, <1>1 DEF StoreInv, TypeOK, JobOK
<1>3. \A n \in Managers : ManagerOK(n)'
  BY <1>0, <1>1 DEF StoreInv, TypeOK, ManagerOK
<1>4. reading' \subseteq Sessions'
  BY <1>0, <1>1 DEF StoreInv, TypeOK, Sessions
<1>5. TypeOK'
  BY <1>0, <1>1, <1>2, <1>3, <1>4 DEF StoreInv, TypeOK
<1>6. LockDiscipline'
  BY <1>0, <1>1 DEF StoreInv, TypeOK, LockDiscipline
<1> QED
  BY <1>0, <1>1, <1>5, <1>6 DEF StoreInv, ChainsWellFormed

LEMMA RequestKeeps ==
  ASSUME StoreInv, NEW m \in Managers, NEW r \in Requests,
         Receive(m, r) \/ (HangUp(m) /\ r = [op |-> "disconnect"])
  PROVE  StoreInv'
<1>0. /\ StoreInv /\ m \in Threads /\ pc[m] = "ready"
      /\ \A j \in Jobs : m # j /\ j \in Threads
      /\ \A n \in Managers : n \in Threads
  BY StoreAssumption DEF Receive, HangUp, Threads
<1>1. /\ pc' = [pc EXCEPT ![m] = "lock"]
      /\ cmd' = [cmd EXCEPT ![m] = r]
      /\ inputs' \in 0 .. MaxInputs
      /\ UNCHANGED <<table, writer, readers, idx, out, notify>>
      /\ UNCHANGED <<pipe, reading, pending, result, told>>
  BY StoreAssumption
     DEF Receive, HangUp, Input, locks, sessionVars, StoreInv, TypeOK
<1>2. \A j \in Jobs : JobOK(j)'
  BY <1>0, <1>1 DEF StoreInv, TypeOK, JobOK
<1>3. \A n \in Managers : ManagerOK(n)'
  BY <1>0, <1>1 DEF StoreInv, TypeOK, ManagerOK
<1>4. TypeOK'
  BY <1>0, <1>1, <1>2, <1>3 DEF StoreInv, TypeOK, Sessions
<1>5. LockDiscipline'
  BY <1>0, <1>1 DEF StoreInv, TypeOK, LockDiscipline
<1> QED
  BY <1>0, <1>1, <1>4, <1>5 DEF StoreInv, ChainsWellFormed

LEMMA LockForRequestKeeps ==
  ASSUME StoreInv, NEW m \in Managers, LockForRequest(m)
  PROVE  StoreInv'
<1>0. /\ StoreInv /\ m \in Threads /\ pc[m] = "lock"
      /\ \A j \in Jobs : m # j /\ j \in Threads
      /\ \A n \in Managers : n \in Threads
  BY StoreAssumption DEF LockForRequest, Threads
<1>1. /\ \/ writer = NOBODY /\ readers = {}
         \/ writer = m
      /\ writer' = m
      /\ pc' = [pc EXCEPT ![m] = "exec"]
      /\ UNCHANGED <<table, readers, cmd, idx, out, notify>>
      /\ UNCHANGED <<pipe, reading, pending, result, told, inputs>>
  BY DEF LockForRequest, jobVars, sessionVars
<1>2. \A j \in Jobs : JobOK(j)'
  BY <1>0, <1>1 DEF StoreInv, TypeOK, JobOK
<1>3. \A n \in Managers : ManagerOK(n)'
  BY <1>0, <1>1 DEF StoreInv, TypeOK, ManagerOK
<1>4. TypeOK'
  BY <1>0, <1>1, <1>2, <1>3 DEF StoreInv, TypeOK, Sessions
<1>5. LockDiscipline'
  BY <1>0, <1>1, StoreAssumption DEF StoreInv, TypeOK, LockDiscipline
<1> QED
  BY <1>0, <1>1, <1>4, <1>5 DEF StoreInv, ChainsWellFormed

LEMMA OutcomeTyped ==
  ASSUME StoreInv, NEW m \in Managers, pc[m] = "exec"
  PROVE  /\ Outcome(m).ht \in HashTable
         /\ WellFormed(Outcome(m).ht)
         /\ ToldAfter(m) \in [Keys -> Values \cup {NoSub, NoNews, Gone}]
<1>1. /\ cmd[m] \in Requests /\ pipe[m] \in Pipes
      /\ table \in HashTable /\ WellFormed(table)
      /\ told[m] \in [Keys -> Values \cup {NoSub, NoNews, Gone}]
  BY DEF StoreInv, TypeOK, ManagerOK, ChainsWellFormed
<1>2. CASE cmd[m].op = "subscribe" /\ cmd[m].key \in Keys
  BY <1>1, <1>2, SubscribeTyped DEF Outcome, ToldAfter
<1>3. CASE cmd[m].op = "unsubscribe" /\ cmd[m].key \in Keys
  BY <1>1, <1>3, UnsubscribeTyped DEF Outcome, ToldAfter
<1>4. CASE cmd[m].op = "disconnect"
  BY <1>1, <1>4, DisconnectTyped DEF Outcome, ToldAfter
<1> QED
  BY <1>1, <1>2, <1>3, <1>4 DEF Requests

LEMMA ExecuteKeeps ==
  ASSUME StoreInv, NEW m \in Managers, Execute(m)
  PROVE  StoreInv'
<1> DEFINE next == IF cmd[m].op = "disconnect" THEN "closing" ELSE "ready"
<1>0. /\ StoreInv /\ m \in Threads /\ pc[m] = "exec" /\ writer = m
      /\ \A j \in Jobs : m # j /\ j \in Threads
      /\ \A n \in Managers : n \in Threads
  BY StoreAssumption DEF Execute, Threads, StoreInv, LockDiscipline
<1>1. /\ table' = Outcome(m).ht
      /\ writer' \in {NOBODY, m}
      /\ \E ok \in BOOLEAN : result' = [result EXCEPT ![m] = ok]
      /\ told' \in {told, [told EXCEPT ![m] = ToldAfter(m)]}
      /\ pc' = [pc EXCEPT ![m] = next]
      /\ cmd' = [cmd EXCEPT ![m] = NoCommand]
      /\ UNCHANGED <<readers, idx, out, notify, pipe, reading, pending, inputs>>
  BY <1>0 DEF Execute, Release
<1>2. next \in {"closing", "ready"}
  OBVIOUS
<1> HIDE DEF next
<1>3. \A j \in Jobs : JobOK(j)'
  BY <1>0, <1>1 DEF StoreInv, TypeOK, JobOK
<1>4. \A n \in Managers : ManagerOK(n)'
  BY <1>0, <1>1, <1>2 DEF StoreInv, TypeOK, ManagerOK
<1>5. table' \in HashTable /\ ChainsWellFormed'
  BY <1>0, <1>1, OutcomeTyped DEF ChainsWellFormed
<1>6. told' \in [Managers -> [Keys -> Values \cup {NoSub, NoNews, Gone}]]
  BY <1>0, <1>1, OutcomeTyped DEF StoreInv, TypeOK
<1>7. TypeOK'
  BY <1>0, <1>1, <1>2, <1>3, <1>4, <1>5, <1>6 DEF StoreInv, TypeOK, Sessions
<1>8. LockDiscipline'
  BY <1>0, <1>1, <1>2, StoreAssumption
     DEF StoreInv, TypeOK, LockDiscipline, Threads
<1> QED
  BY <1>5, <1>7, <1>8 DEF StoreInv

LEMMA SessionEndKeeps ==
  ASSUME StoreInv, NEW m \in Managers,
         CloseSession(m) \/ Drain(m) \/ ClientGone(m)
  PROVE  StoreInv'
<1>0. /\ StoreInv /\ m \in Threads
      /\ \A j \in Jobs : m # j /\ j \in Threads
      /\ \A n \in Managers : n \in Threads
  BY StoreAssumption DEF Threads
<1>1. UNCHANGED <<table, writer, readers, cmd, idx, out, notify, result, told, inputs>>
  BY DEF CloseSession, Drain, ClientGone, locks, jobVars
<1>2. CASE CloseSession(m)
  <2>1. /\ pc[m] = "closing" /\ pc' = [pc EXCEPT ![m] = "free"]
        /\ pipe' = [pipe EXCEPT ![m] = NoPipe]
        /\ reading' = reading \ {m}
        /\ pending' = [pending EXCEPT ![m] = 0]
    BY <1>2 DEF CloseSession
  <2>2. \A j \in Jobs : JobOK(j)'
    BY <1>0, <1>1, <2>1 DEF StoreInv, TypeOK, JobOK
  <2>3. \A n \in Managers : ManagerOK(n)'
    BY <1>0, <1>1, <2>1 DEF StoreInv, TypeOK, ManagerOK
  <2>4. pending' \in [Managers -> 0 .. PipeCapacity]
    BY <1>0, <2>1, StoreAssumption DEF StoreInv, TypeOK
  <2>5. reading' \subseteq Sessions'
    BY <1>0, <2>1 DEF StoreInv, TypeOK, Sessions
  <2>6. TypeOK'
    BY <1>0, <1>1, <2>1, <2>2, <2>3, <2>4, <2>5 DEF StoreInv, TypeOK
  <2>7. LockDiscipline'
    BY <1>0, <1>1, <2>1 DEF StoreInv, TypeOK, LockDiscipline
  <2> QED
    BY <1>0, <1>1, <2>6, <2>7 DEF StoreInv, ChainsWellFormed
<1>3. CASE Drain(m) \/ ClientGone(m)
  <2>0. /\ UNCHANGED <<pc, pipe>> /\ reading' \subseteq reading
        /\ m \in Managers /\ pending \in [Managers -> 0 .. PipeCapacity]
        /\ \/ pending[m] > 0 /\ pending' = [pending EXCEPT ![m] = pending[m] - 1]
           \/ pending' = [pending EXCEPT ![m] = 0]
    BY <1>0, <1>3 DEF Drain, ClientGone, StoreInv, TypeOK
  <2>1. pending' \in [Managers -> 0 .. PipeCapacity]
    <3>1. /\ PipeCapacity \in Nat /\ pending[m] \in 0 .. PipeCapacity
      BY <2>0, StoreAssumption
    <3>2. 0 \in 0 .. PipeCapacity
          /\ (pending[m] > 0 => pending[m] - 1 \in 0 .. PipeCapacity)
      BY <3>1
    <3> QED
      BY <2>0, <3>2
  <2> QED
    BY <1>0, <1>1, <2>0, <2>1
       DEF StoreInv, TypeOK, JobOK, ManagerOK, LockDiscipline,
           ChainsWellFormed, Sessions
<1> QED
  BY <1>2, <1>3

LEMMA StoreInvInductive == StoreInv /\ [Next]_vars => StoreInv'
<1> SUFFICES ASSUME StoreInv, [Next]_vars
             PROVE  StoreInv'
  OBVIOUS
<1>1. CASE UNCHANGED vars
  BY <1>1
     DEF vars, locks, jobVars, sessionVars, StoreInv, TypeOK, JobOK, ManagerOK,
         LockDiscipline, ChainsWellFormed, Sessions
<1>2. ASSUME NEW j \in Jobs, NEW c \in Commands, Start(j, c)
      PROVE  StoreInv'
  BY <1>2, StartKeeps
<1>3. ASSUME NEW j \in Jobs, JobStep(j)
      PROVE  StoreInv'
  BY <1>3, LockTableKeeps, WritePairKeeps, DeletePairKeeps, ReadingKeeps,
     NotifyKeeps, FinishKeeps DEF JobStep
<1>4. ASSUME NEW m \in Managers, NEW p \in Pipes, OpenSession(m, p)
      PROVE  StoreInv'
  BY <1>4, OpenSessionKeeps
<1>5. ASSUME NEW m \in Managers, NEW r \in Requests, Receive(m, r)
      PROVE  StoreInv'
  BY <1>5, RequestKeeps
<1>6. ASSUME NEW m \in Managers, ManagerStep(m)
      PROVE  StoreInv'
  <2>1. [op |-> "disconnect"] \in Requests
    BY DEF Requests
  <2> QED
    BY <1>6, <2>1, RequestKeeps, LockForRequestKeeps, ExecuteKeeps,
       SessionEndKeeps DEF ManagerStep
<1>7. ASSUME NEW m \in Managers, Drain(m) \/ ClientGone(m)
      PROVE  StoreInv'
  BY <1>7, SessionEndKeeps
<1> QED
  BY <1>1, <1>2, <1>3, <1>4, <1>5, <1>6, <1>7 DEF Next

-----------------------------------------------------------------------------
(* Every variable of the store keeps its shape, however many threads,      *)
(* keys and buckets there are and whatever the commands are.               *)
THEOREM StoreTypeCorrect == Spec => []TypeOK
<1>1. StoreInv => TypeOK
  BY DEF StoreInv
<1> QED
  BY <1>1, StoreInvInit, StoreInvInductive, PTL DEF Spec

(* The read-write lock excludes, also when requests fail and their manager *)
(* keeps the lock and goes on under it.                                    *)
THEOREM StoreLockDiscipline == Spec => []LockDiscipline
<1>1. StoreInv => LockDiscipline
  BY DEF StoreInv
<1> QED
  BY <1>1, StoreInvInit, StoreInvInductive, PTL DEF Spec

(* No sequence of commands and requests puts a node in a wrong bucket or a *)
(* key in two nodes.                                                       *)
THEOREM StoreChainsWellFormed == Spec => []ChainsWellFormed
<1>1. StoreInv => ChainsWellFormed
  BY DEF StoreInv
<1> QED
  BY <1>1, StoreInvInit, StoreInvInductive, PTL DEF Spec

-----------------------------------------------------------------------------
(* Who holds the lock outside a request has it from a request that failed: *)
(* only a failed Execute leaves the lock with a manager, and nothing but   *)
(* another Execute of the same manager changes its result or lets it move. *)
LEMMA LeakMeansFailureKept ==
  StoreInv /\ LeakMeansFailure /\ [Next]_vars => LeakMeansFailure'
<1> SUFFICES ASSUME StoreInv, LeakMeansFailure, [Next]_vars
             PROVE  LeakMeansFailure'
  OBVIOUS
<1>0. /\ TypeOK /\ LockDiscipline
      /\ Jobs \cap Managers = {} /\ NOBODY \notin Managers
      /\ pc \in [Threads -> {"idle", "free", "ready", "lock", "work", "exec",
                             "closing"}]
      /\ result \in [Managers -> BOOLEAN]
      /\ Managers \subseteq Threads /\ Jobs \subseteq Threads
  BY StoreAssumption DEF StoreInv, TypeOK, Threads
<1> USE <1>0 DEF LeakMeansFailure, Leaked
<1>1. CASE UNCHANGED vars
  BY <1>1 DEF vars, locks, sessionVars
<1>2. ASSUME NEW j \in Jobs, NEW c \in Commands, Start(j, c)
      PROVE  LeakMeansFailure'
  BY <1>2 DEF Start, locks, sessionVars
<1>3. ASSUME NEW j \in Jobs, JobStep(j)
      PROVE  LeakMeansFailure'
  <2>1. CASE LockTable(j)
    BY <2>1 DEF LockTable, sessionVars
  <2>2. CASE WritePair(j) \/ DeletePair(j) \/ ReadPair(j) \/ ShowBucket(j) \/ Fork(j)
    BY <2>2 DEF WritePair, DeletePair, ReadPair, ShowBucket, Fork, Working,
                locks, sessionVars
  <2>3. CASE Notify(j)
    BY <2>3 DEF Notify, locks
  <2>4. CASE Finish(j)
    BY <2>4 DEF Finish, Unlock, sessionVars
  <2> QED
    BY <1>3, <2>1, <2>2, <2>3, <2>4 DEF JobStep
<1>4. ASSUME NEW m \in Managers, NEW p \in Pipes, OpenSession(m, p)
      PROVE  LeakMeansFailure'
  BY <1>4 DEF OpenSession, locks
<1>5. ASSUME NEW m \in Managers, NEW r \in Requests, Receive(m, r)
      PROVE  LeakMeansFailure'
  BY <1>5 DEF Receive, locks, sessionVars
<1>6. ASSUME NEW m \in Managers, ManagerStep(m)
      PROVE  LeakMeansFailure'
  <2>1. CASE HangUp(m)
    BY <2>1 DEF HangUp, locks, sessionVars
  <2>2. CASE LockForRequest(m)
    BY <2>2 DEF LockForRequest, sessionVars
  <2>3. CASE Execute(m)
    <3> DEFINE ok == Outcome(m).code = 0
    <3>1. writer = m
      BY <2>3 DEF Execute, LockDiscipline
    <3>2. /\ writer' = IF ok THEN NOBODY ELSE writer
          /\ result' = [result EXCEPT ![m] = ok]
      BY <2>3 DEF Execute, Release
    <3> QED
      BY <3>1, <3>2
  <2>4. CASE CloseSession(m)
    BY <2>4 DEF CloseSession, locks
  <2> QED
    BY <1>6, <2>1, <2>2, <2>3, <2>4 DEF ManagerStep
<1>7. ASSUME NEW m \in Managers, Drain(m) \/ ClientGone(m)
      PROVE  LeakMeansFailure'
  BY <1>7 DEF Drain, ClientGone, locks
<1> QED
  BY <1>1, <1>2, <1>3, <1>4, <1>5, <1>6, <1>7 DEF Next

(* A lock kept outside a request goes back to a request that failed.       *)
THEOREM StoreLeakMeansFailure == Spec => []LeakMeansFailure
<1>1. Init => LeakMeansFailure
  BY StoreAssumption DEF Init, LeakMeansFailure, Leaked, Threads
<1> QED
  BY <1>1, StoreInvInit, StoreInvInductive, LeakMeansFailureKept, PTL DEF Spec

-----------------------------------------------------------------------------
(* The jobs' commands are atomic.  What a command is going to do to the    *)
(* store and to print is known when it gets the lock, and every round of   *)
(* its loop moves one item from what is to come to what is done.           *)

Latest(S) == CHOOSE i \in S : \A h \in S : h <= i

(* A set of numbers below a bound has a greatest.                          *)
LEMMA LatestExists ==
  ASSUME NEW n \in Nat, NEW S \in SUBSET (0 .. n), S # {}
  PROVE  Latest(S) \in S /\ \A h \in S : h <= Latest(S)
<1> DEFINE I == {n - i : i \in S}
<1>1. I \in SUBSET Nat /\ I # {}
  <2>1. \A i \in S : n - i \in Nat
    OBVIOUS
  <2> QED
    BY <2>1
<1>2. Min(I) \in I /\ \A i \in I : Min(I) <= i
  BY <1>1, MinimumExists
<1>3. PICK x \in S : Min(I) = n - x
  BY <1>2
<1>4. ASSUME NEW h \in S
      PROVE  h <= x
  <2>1. n - h \in I
    OBVIOUS
  <2>2. n - x <= n - h
    BY <1>2, <1>3, <2>1
  <2> QED
    BY <2>2
<1> QED
  BY <1>4 DEF Latest

(* An item that is done is not the latest while others are to come.        *)
LEMMA LatestKept ==
  ASSUME NEW n \in Nat, NEW S \in SUBSET (0 .. n), NEW T \in SUBSET S, NEW x,
         S \subseteq T \cup {x}, T # {}, \A i \in T : x <= i
  PROVE  Latest(S) = Latest(T)
<1>1. Latest(S) \in S /\ \A h \in S : h <= Latest(S)
  BY LatestExists
<1>2. Latest(T) \in T /\ \A h \in T : h <= Latest(T)
  <2>1. T \in SUBSET (0 .. n)
    OBVIOUS
  <2> QED
    BY <2>1, LatestExists
<1>3. Latest(T) <= Latest(S)
  BY <1>1, <1>2
<1>4. Latest(S) <= Latest(T)
  BY <1>1, <1>2
<1>5. Latest(S) \in 0 .. n /\ Latest(T) \in 0 .. n
  BY <1>1, <1>2
<1> QED
  BY <1>3, <1>4, <1>5

(* What a command gives to a key, when n of its items are done.            *)
Coming(c, n, k, before) ==
  IF StillToCome(c, n, k) = {} THEN before
  ELSE IF c.op = "write" THEN c.args[Latest(StillToCome(c, n, k))][2] ELSE NoValue

LEMMA StoreAfterIs ==
  /\ StoreAfter = [k \in Keys |->
       IF writer \in Jobs THEN Coming(cmd[writer], idx[writer], k, read_pair(table, k))
                          ELSE read_pair(table, k)]
  /\ StoreAfter' = [k \in Keys |->
       IF writer' \in Jobs THEN Coming(cmd'[writer'], idx'[writer'], k, read_pair(table', k))
                           ELSE read_pair(table', k)]
<1> DEFINE value(k) ==
             IF writer \in Jobs /\ StillToCome(cmd[writer], idx[writer], k) # {}
             THEN IF cmd[writer].op = "write"
                  THEN cmd[writer].args[Latest(StillToCome(cmd[writer], idx[writer], k))][2]
                  ELSE NoValue
             ELSE read_pair(table, k)
<1>1. StoreAfter = [k \in Keys |-> value(k)] /\ StoreAfter' = [k \in Keys |-> value(k)']
  BY Zenon DEF StoreAfter, Latest
<1> QED
  BY <1>1 DEF Coming

(* At the start of a command that writes: all its items are to come.       *)
LEMMA AllToCome ==
  ASSUME NEW c \in Commands, NEW store, NEW k \in Keys, Writes(c)
  PROVE  Coming(c, 0, k, store[k]) = Atomic!Effect(store, c)[k]
<1>1. CASE c.op = "write"
  <2>1. c.args \in Seq(Keys \X Values) /\ Items(c) = Len(c.args)
    BY <1>1, CommandTyped
  <2> DEFINE at == {i \in DOMAIN c.args : c.args[i][1] = k}
  <2>2. StillToCome(c, 0, k) = at
    BY <1>1, <2>1 DEF StillToCome, KeyOf
  <2>3. Atomic!Effect(store, c) = Atomic!Written(store, c.args)
    BY <1>1 DEF Atomic!Effect
  <2>4. Atomic!Written(store, c.args)[k] = IF at = {} THEN store[k] ELSE c.args[Latest(at)][2]
    BY Zenon DEF Atomic!Written, Latest
  <2> HIDE DEF at
  <2> QED
    BY <1>1, <2>2, <2>3, <2>4 DEF Coming
<1>2. CASE c.op = "delete"
  <2>1. c.args \in Seq(Keys) /\ Items(c) = Len(c.args)
    BY <1>2, CommandTyped
  <2>2. StillToCome(c, 0, k) = {i \in DOMAIN c.args : c.args[i] = k}
    BY <1>2, <2>1 DEF StillToCome, KeyOf
  <2> QED
    BY <1>2, <2>2 DEF Coming, Atomic!Effect, Atomic!Deleted
<1> QED
  BY <1>1, <1>2 DEF Writes

(* A round: the item is not to come any more, but the pair is in the table *)
(* or out of it.                                                           *)
LEMMA RoundDone ==
  ASSUME NEW c \in Commands, NEW n \in Nat, n < Items(c), Writes(c), NEW k \in Keys,
         NEW old, NEW new,
         new = IF KeyOf(c, n + 1) # k THEN old
               ELSE IF c.op = "write" THEN c.args[n + 1][2] ELSE NoValue
  PROVE  Coming(c, n + 1, k, new) = Coming(c, n, k, old)
<1> DEFINE S == StillToCome(c, n, k)
           T == StillToCome(c, n + 1, k)
<1>1. Items(c) \in Nat
  BY CommandTyped
<1>2. /\ S \in SUBSET (0 .. Items(c)) /\ T \in SUBSET S
      /\ S = T \cup (IF KeyOf(c, n + 1) = k THEN {n + 1} ELSE {})
      /\ n + 1 \notin T /\ \A i \in T : n + 1 <= i
  BY <1>1 DEF StillToCome
<1> HIDE DEF S, T
<1>3. CASE T # {}
  <2> DEFINE x == n + 1
             last == Items(c)
  <2>1. last \in Nat /\ S \in SUBSET (0 .. last) /\ T \in SUBSET S
        /\ S \subseteq T \cup {x} /\ \A i \in T : x <= i
    BY <1>1, <1>2
  <2> HIDE DEF x, last
  <2>2. Latest(S) = Latest(T)
    BY <1>3, <2>1, LatestKept
  <2> QED
    BY <1>2, <1>3, <2>2 DEF Coming, S, T
<1>4. CASE T = {} /\ KeyOf(c, n + 1) = k
  <2>1. S = {n + 1}
    BY <1>2, <1>4
  <2>2. Latest(S) = n + 1
    BY <1>1, <1>2, <2>1, LatestExists
  <2> QED
    BY <1>4, <2>1, <2>2 DEF Coming, S, T
<1>5. CASE T = {} /\ KeyOf(c, n + 1) # k
  BY <1>2, <1>5 DEF Coming, S, T
<1> QED
  BY <1>3, <1>4, <1>5

(* All that a command prints is to come when it gets the lock.             *)
LEMMA AllToPrint ==
  ASSUME NEW ht \in HashTable, WellFormed(ht), NEW c \in Commands, NEW store,
         store = [k \in Keys |-> read_pair(ht, k)]
  PROVE  StillToPrint(ht, c, 0) = Atomic!Answer(store, c)
<1> DEFINE items == 0 + 1 .. Items(c)
<1>0. /\ Items(c) \in Nat
      /\ c.op \in {"read", "delete"} => /\ items = DOMAIN c.args
                                        /\ \A i \in items : c.args[i] \in Keys
      /\ c.op = "show" => items = 1 .. TABLE_SIZE
      /\ c.op = "backup" => items = {1}
  <2>1. CASE c.op \in {"read", "delete"}
    <3>1. c.args \in Seq(Keys) /\ Items(c) = Len(c.args)
      BY <2>1, CommandTyped
    <3> QED
      BY <2>1, <3>1
  <2>2. CASE c.op \notin {"read", "delete"}
    BY <2>2, CommandTyped DEF Items
  <2> QED
    BY <2>1, <2>2
<1> HIDE DEF items
<1>1. CASE c.op = "write"
  BY <1>1 DEF StillToPrint, Atomic!Answer
<1>2. CASE c.op = "read"
  <2>1. StillToPrint(ht, c, 0) = {<<i, read_pair(ht, c.args[i])>> : i \in items}
    BY <1>2 DEF StillToPrint, items
  <2>2. Atomic!Answer(store, c) = {<<i, store[c.args[i]]>> : i \in DOMAIN c.args}
    BY <1>2 DEF Atomic!Answer
  <2>3. \A i \in items : store[c.args[i]] = read_pair(ht, c.args[i])
    BY <1>0, <1>2
  <2> QED
    BY <1>0, <1>2, <2>1, <2>2, <2>3
<1>3. CASE c.op = "delete"
  <2> DEFINE found(i) == /\ Has(ht, c.args[i])
                         /\ \A h \in 0 + 1 .. i - 1 : c.args[h] # c.args[i]
  <2>1. StillToPrint(ht, c, 0) = {<<i, found(i)>> : i \in items}
    BY <1>3 DEF StillToPrint, items
  <2>2. Atomic!Answer(store, c) = {<<i, ~Atomic!Missing(store, c.args, i)>> : i \in DOMAIN c.args}
    BY <1>3 DEF Atomic!Answer
  <2>3. ASSUME NEW i \in items
        PROVE  found(i) = ~Atomic!Missing(store, c.args, i)
    <3>1. store[c.args[i]] = read_pair(ht, c.args[i]) /\ c.args[i] \in Keys
      BY <1>0, <1>3
    <3>2. Has(ht, c.args[i]) <=> store[c.args[i]] # NoValue
      BY <3>1, HasValue
    <3>3. 0 + 1 .. i - 1 = 1 .. i - 1
      OBVIOUS
    <3>4. found(i) <=> ~(store[c.args[i]] = NoValue \/ \E h \in 1 .. i - 1 : c.args[h] = c.args[i])
      BY <3>2, <3>3
    <3> QED
      BY <3>4, Zenon DEF Atomic!Missing
  <2> HIDE DEF found
  <2> QED
    BY <1>0, <1>3, <2>1, <2>2, <2>3
<1>4. CASE c.op \in {"show", "backup"}
  <2> DEFINE all == UNION {Listing(ht, b) : b \in Buckets}
  <2>1. StillToPrint(ht, c, 0) = all
    <3>1. CASE c.op = "show"
      <4>1. StillToPrint(ht, c, 0) = UNION {Listing(ht, b - 1) : b \in items}
        BY <3>1 DEF StillToPrint, items
      <4>2. \A b \in Buckets : b + 1 \in items /\ (b + 1) - 1 = b
        BY <1>0, <3>1, TableAssumption DEF Buckets
      <4>3. \A b \in items : b - 1 \in Buckets
        BY <1>0, <3>1, TableAssumption DEF Buckets
      <4>4. {Listing(ht, b - 1) : b \in items} = {Listing(ht, b) : b \in Buckets}
        BY <4>2, <4>3
      <4> QED
        BY <4>1, <4>4
    <3>2. CASE c.op = "backup"
      BY <1>0, <3>2 DEF StillToPrint, items
    <3> QED
      BY <1>4, <3>1, <3>2
  <2> DEFINE K == {k \in Keys : store[k] # NoValue}
  <2>2. Atomic!Answer(store, c) = {<<k, store[k]>> : k \in K}
    BY <1>4 DEF Atomic!Answer
  <2>3. \A b \in Buckets :
          Listing(ht, b) = {<<k, store[k]>> : k \in {k \in Keys : hash(k) = b /\ Has(ht, k)}}
    BY ListingOfBucket
  <2>4. \A k \in Keys : (k \in K <=> Has(ht, k)) /\ hash(k) \in Buckets
    BY HasValue, HashInBuckets
  <2>5. all = {<<k, store[k]>> : k \in K}
    BY <2>3, <2>4
  <2> QED
    BY <2>1, <2>2, <2>5
<1> QED
  BY <1>1, <1>2, <1>3, <1>4, CommandTyped

(* A round of a command's loop prints what was to come of its item.        *)
LEMMA ItemRead ==
  ASSUME NEW ht, NEW c \in Commands, c.op = "read", NEW n \in Nat, n < Items(c)
  PROVE  StillToPrint(ht, c, n)
           = {<<n + 1, read_pair(ht, c.args[n + 1])>>} \cup StillToPrint(ht, c, n + 1)
<1>1. n + 1 .. Items(c) = {n + 1} \cup (n + 1 + 1 .. Items(c))
  BY CommandTyped
<1> QED
  BY <1>1 DEF StillToPrint

LEMMA ItemShown ==
  ASSUME NEW ht, NEW c \in Commands, c.op = "show", NEW n \in Nat, n < Items(c)
  PROVE  StillToPrint(ht, c, n) = Listing(ht, n) \cup StillToPrint(ht, c, n + 1)
<1>1. n + 1 .. Items(c) = {n + 1} \cup (n + 1 + 1 .. Items(c)) /\ (n + 1) - 1 = n
  BY CommandTyped
<1> DEFINE rest == n + 1 + 1 .. Items(c)
<1>2. /\ StillToPrint(ht, c, n) = UNION {Listing(ht, b - 1) : b \in {n + 1} \cup rest}
      /\ StillToPrint(ht, c, n + 1) = UNION {Listing(ht, b - 1) : b \in rest}
  BY <1>1 DEF StillToPrint
<1> HIDE DEF rest
<1> QED
  BY <1>1, <1>2

LEMMA CopyPrinted ==
  ASSUME NEW ht, NEW c \in Commands, c.op = "backup"
  PROVE  /\ Items(c) = 1
         /\ StillToPrint(ht, c, 0) = UNION {Listing(ht, b) : b \in Buckets}
         /\ StillToPrint(ht, c, 1) = {}
<1>1. Items(c) = 1 /\ 0 + 1 .. 1 # {} /\ 1 + 1 .. 1 = {}
  BY DEF Items
<1> QED
  BY <1>1 DEF StillToPrint

LEMMA ItemDeleted ==
  ASSUME NEW ht \in HashTable, WellFormed(ht), NEW c \in Commands, c.op = "delete",
         NEW n \in Nat, n < Items(c)
  PROVE  StillToPrint(ht, c, n)
           = {<<n + 1, Has(ht, c.args[n + 1])>>}
               \cup StillToPrint(delete_pair(ht, c.args[n + 1]), c, n + 1)
<1> DEFINE items == n + 1 .. Items(c)
           rest == n + 1 + 1 .. Items(c)
           key == c.args[n + 1]
           new == delete_pair(ht, key)
           found(i) == Has(ht, c.args[i]) /\ \A h \in n + 1 .. i - 1 : c.args[h] # c.args[i]
           after(i) == Has(new, c.args[i]) /\ \A h \in n + 1 + 1 .. i - 1 : c.args[h] # c.args[i]
<1>1. /\ Items(c) \in Nat /\ items = {n + 1} \cup rest /\ n + 1 \notin rest
      /\ \A i \in items : c.args[i] \in Keys
  <2>1. c.args \in Seq(Keys) /\ Items(c) = Len(c.args)
    BY CommandTyped
  <2> QED
    BY <2>1
<1>2. /\ StillToPrint(ht, c, n) = {<<i, found(i)>> : i \in items}
      /\ StillToPrint(new, c, n + 1) = {<<i, after(i)>> : i \in rest}
  BY DEF StillToPrint
<1>3. found(n + 1) = Has(ht, key)
  <2>1. n + 1 .. (n + 1) - 1 = {}
    OBVIOUS
  <2> QED
    BY <2>1 DEF Has
<1>4. ASSUME NEW i \in rest
      PROVE  after(i) = found(i)
  <2>1. key \in Keys /\ c.args[i] \in Keys
    BY <1>1
  <2>2. Has(new, c.args[i]) <=> c.args[i] # key /\ Has(ht, c.args[i])
    BY <2>1, DeletePairEffect
  <2>3. n + 1 .. i - 1 = {n + 1} \cup (n + 1 + 1 .. i - 1)
    BY <1>1
  <2> HIDE DEF new
  <2> QED
    BY <2>2, <2>3
<1> HIDE DEF found, after, items, rest
<1>5. {<<i, found(i)>> : i \in items} = {<<n + 1, found(n + 1)>>} \cup {<<i, after(i)>> : i \in rest}
  BY <1>1, <1>4
<1> QED
  BY <1>2, <1>3, <1>5

(* Nothing has been printed of a command of which nothing is done.         *)
OutOK ==
  /\ DOMAIN out = Jobs
  /\ \A j \in Jobs : idx[j] = 0 => out[j] = {}

AtomicInv == StoreInv /\ OutOK

LEMMA OutKept == AtomicInv /\ [Next]_vars => OutOK'
<1> SUFFICES ASSUME AtomicInv, [Next]_vars
             PROVE  OutOK'
  OBVIOUS
<1> USE DEF AtomicInv, OutOK
<1>0. idx \in [Jobs -> Nat]
  BY DEF StoreInv, TypeOK
<1>1. CASE UNCHANGED <<idx, out>>
  BY <1>1
<1>2. ASSUME NEW j \in Jobs, WritePair(j) \/ DeletePair(j) \/ ReadPair(j) \/ ShowBucket(j) \/ Fork(j)
      PROVE  OutOK'
  <2>1. idx' = [idx EXCEPT ![j] = @ + 1]
    BY <1>2 DEF WritePair, DeletePair, ReadPair, ShowBucket, Fork, Working
  <2>2. DOMAIN out' = Jobs /\ \A h \in Jobs \ {j} : out'[h] = out[h]
    BY <1>2 DEF WritePair, DeletePair, ReadPair, ShowBucket, Fork
  <2>3. idx'[j] # 0 /\ \A h \in Jobs \ {j} : idx'[h] = idx[h]
    BY <1>0, <2>1
  <2> QED
    BY <2>2, <2>3
<1>3. ASSUME NEW j \in Jobs, Finish(j)
      PROVE  OutOK'
  BY <1>0, <1>3 DEF Finish
<1> QED
  BY <1>1, <1>2, <1>3
     DEF Next, JobStep, ManagerStep, Start, LockTable, Notify, OpenSession, Receive, HangUp,
         LockForRequest, Execute, CloseSession, Drain, ClientGone, vars, jobVars

(* What AtomicStore sees of a step.                                        *)
Answered(j) ==
  IF pc[j] = "work" THEN out[j] \cup StillToPrint(table, cmd[j], idx[j]) ELSE {}

LEMMA AtomicStutter ==
  ASSUME StoreAfter' = StoreAfter,
         \A j \in Jobs : /\ cmd'[j] = cmd[j] /\ (pc'[j] = "work" <=> pc[j] = "work")
                         /\ Answered(j)' = Answered(j)
  PROVE  UNCHANGED Atomic!vars
<1>1. [j \in Jobs |-> cmd'[j]] = [j \in Jobs |-> cmd[j]]
  OBVIOUS
<1>2. {j \in Jobs : pc'[j] = "work"} = {j \in Jobs : pc[j] = "work"}
  OBVIOUS
<1>3. [j \in Jobs |-> Answered(j)'] = [j \in Jobs |-> Answered(j)]
  OBVIOUS
<1> QED
  BY <1>1, <1>2, <1>3, Zenon DEF Atomic!vars, Answered

(* A step that leaves the table and the jobs alone.                        *)
LEMMA JobsNotConcerned ==
  ASSUME UNCHANGED <<table, idx, out>>, \A j \in Jobs : cmd'[j] = cmd[j] /\ pc'[j] = pc[j],
         writer' = writer \/ (writer \notin Jobs /\ writer' \notin Jobs)
  PROVE  UNCHANGED Atomic!vars
<1>1. StoreAfter' = StoreAfter
  BY StoreAfterIs
<1>2. \A j \in Jobs : Answered(j)' = Answered(j)
  BY DEF Answered
<1> QED
  BY <1>1, <1>2, AtomicStutter

(* Who writes works alone.                                                 *)
LEMMA WritesAlone ==
  ASSUME StoreInv, writer # NOBODY
  PROVE  /\ \A j \in Jobs : pc[j] = "work" => writer = j
         /\ writer \in Jobs => pc[writer] = "work" /\ Writes(cmd[writer])
BY DEF StoreInv, LockDiscipline

LEMMA WriteRound ==
  ASSUME AtomicInv, NEW j \in Jobs, WritePair(j) \/ DeletePair(j)
  PROVE  UNCHANGED Atomic!vars
<1> DEFINE c == cmd[j]
           n == idx[j]
           key == KeyOf(c, n + 1)
<1> USE DEF AtomicInv
<1>1. PICK op \in {"write", "delete"} : Working(j, op)
  BY DEF WritePair, DeletePair
<1>2. /\ c \in Commands /\ c.op = op /\ Writes(c) /\ n \in Nat /\ n < Items(c)
      /\ pc[j] = "work" /\ pc' = pc /\ cmd' = cmd /\ writer' = writer
      /\ idx'[j] = n + 1 /\ \A h \in Jobs \ {j} : idx'[h] = idx[h]
  BY <1>1 DEF Working, locks, StoreInv, TypeOK, JobOK, Writes
<1>3. writer = j /\ \A h \in Jobs \ {j} : pc[h] # "work"
  BY <1>2, StoreAssumption DEF StoreInv, LockDiscipline, Threads
<1>4. /\ table \in HashTable /\ WellFormed(table) /\ key \in Keys
      /\ op = "write" => c.args[n + 1][2] \in Values
  BY <1>1, <1>2, ItemTyped DEF ChainsWellFormed, KeyOf
<1>5. \A k \in Keys : read_pair(table', k) =
        IF key # k THEN read_pair(table, k) ELSE IF c.op = "write" THEN c.args[n + 1][2] ELSE NoValue
  <2>1. CASE WritePair(j)
    <3>1. c.op = "write" /\ table' = write_pair(table, key, c.args[n + 1][2])
      BY <2>1 DEF WritePair, Working, KeyOf
    <3> HIDE DEF key
    <3> QED
      BY <1>2, <1>4, <3>1, WritePairEffect
  <2>2. CASE DeletePair(j)
    <3>1. c.op = "delete" /\ table' = delete_pair(table, key)
      BY <2>2 DEF DeletePair, Working, KeyOf
    <3> HIDE DEF key
    <3> QED
      BY <1>4, <3>1, DeletePairEffect
  <2> QED
    BY <2>1, <2>2
<1>6. StoreAfter' = StoreAfter
  <2>1. ASSUME NEW k \in Keys
        PROVE  Coming(c, n + 1, k, read_pair(table', k)) = Coming(c, n, k, read_pair(table, k))
    <3> DEFINE new == read_pair(table', k)
               old == read_pair(table, k)
    <3>1. new = IF KeyOf(c, n + 1) # k THEN old
                ELSE IF c.op = "write" THEN c.args[n + 1][2] ELSE NoValue
      BY <1>5
    <3> HIDE DEF new, old, c, n
    <3>2. Coming(c, n + 1, k, new) = Coming(c, n, k, old)
      BY <1>2, <3>1, RoundDone
    <3> QED
      BY <3>2 DEF new, old
  <2> QED
    BY <1>2, <1>3, <2>1, StoreAfterIs
<1>7. Answered(j)' = Answered(j)
  <2>1. CASE WritePair(j)
    <3>1. c.op = "write" /\ out' = out
      BY <2>1 DEF WritePair, Working
    <3> QED
      BY <1>2, <3>1 DEF Answered, StillToPrint
  <2>2. CASE DeletePair(j)
    <3>1. /\ c.op = "delete" /\ table' = delete_pair(table, c.args[n + 1])
          /\ out'[j] = out[j] \cup {<<n + 1, Has(table, c.args[n + 1])>>}
      BY <2>2 DEF DeletePair, Working, OutOK
    <3>2. StillToPrint(table, c, n)
            = {<<n + 1, Has(table, c.args[n + 1])>>} \cup StillToPrint(table', c, n + 1)
      BY <1>2, <1>4, <3>1, ItemDeleted
    <3> QED
      BY <1>2, <3>1, <3>2 DEF Answered
  <2> QED
    BY <2>1, <2>2
<1>8. \A h \in Jobs \ {j} : Answered(h)' = Answered(h)
  BY <1>2, <1>3 DEF Answered
<1> QED
  BY <1>2, <1>6, <1>7, <1>8, AtomicStutter

LEMMA ReadRound ==
  ASSUME AtomicInv, NEW j \in Jobs, ReadPair(j) \/ ShowBucket(j) \/ Fork(j)
  PROVE  UNCHANGED Atomic!vars
<1> DEFINE c == cmd[j]
           n == idx[j]
<1> USE DEF AtomicInv
<1>1. PICK op \in {"read", "show", "backup"} : Working(j, op)
  BY DEF ReadPair, ShowBucket, Fork
<1>2. /\ c \in Commands /\ c.op = op /\ ~Writes(c) /\ n \in Nat /\ n < Items(c)
      /\ pc[j] = "work" /\ pc' = pc /\ cmd' = cmd /\ writer' = writer
      /\ idx'[j] = n + 1 /\ \A h \in Jobs \ {j} : idx'[h] = idx[h]
  BY <1>1 DEF Working, locks, StoreInv, TypeOK, JobOK, Writes
<1>3. writer = NOBODY /\ NOBODY \notin Jobs /\ table' = table
  BY <1>2, StoreAssumption
     DEF StoreInv, LockDiscipline, Threads, ReadPair, ShowBucket, Fork
<1>4. StoreAfter' = StoreAfter
  BY <1>2, <1>3, StoreAfterIs
<1>5. out'[j] \cup StillToPrint(table, c, n + 1) = out[j] \cup StillToPrint(table, c, n)
  <2>1. CASE ReadPair(j)
    <3>1. c.op = "read" /\ out'[j] = out[j] \cup {<<n + 1, read_pair(table, c.args[n + 1])>>}
      BY <2>1 DEF ReadPair, Working, OutOK
    <3> QED
      BY <1>2, <3>1, ItemRead
  <2>2. CASE ShowBucket(j)
    <3>1. c.op = "show" /\ out'[j] = out[j] \cup Listing(table, n)
      BY <2>2 DEF ShowBucket, Working, OutOK
    <3> QED
      BY <1>2, <3>1, ItemShown
  <2>3. CASE Fork(j)
    <3>1. c.op = "backup" /\ out'[j] = UNION {Listing(table, b) : b \in Buckets}
      BY <2>3 DEF Fork, Working, OutOK
    <3>2. n = 0
      BY <1>2, <3>1, CopyPrinted
    <3> QED
      BY <1>2, <3>1, <3>2, CopyPrinted DEF OutOK
  <2> QED
    BY <2>1, <2>2, <2>3
<1>6. Answered(j)' = Answered(j)
  BY <1>2, <1>3, <1>5 DEF Answered
<1>7. \A h \in Jobs \ {j} : Answered(h)' = Answered(h)
  <2>1. \A h \in Jobs \ {j} : out'[h] = out[h]
    BY DEF ReadPair, ShowBucket, Fork, OutOK
  <2> QED
    BY <1>2, <1>3, <2>1 DEF Answered
<1> QED
  BY <1>2, <1>4, <1>6, <1>7, AtomicStutter

(* run_job's call is the Call, the lock the moment when it takes effect,   *)
(* the unlock the Return.                                                  *)
LEMMA StartRefined ==
  ASSUME AtomicInv, NEW j \in Jobs, NEW c \in Commands, Start(j, c)
  PROVE  Atomic!Call(j, c)
<1> USE DEF AtomicInv
<1>1. /\ pc[j] = "idle" /\ pc' = [pc EXCEPT ![j] = "lock"] /\ cmd' = [cmd EXCEPT ![j] = c]
      /\ UNCHANGED <<table, writer, idx, out>>
  BY DEF Start, locks
<1>2. /\ cmd[j] = NoCommand /\ writer # j
      /\ cmd'[j] = c /\ pc'[j] = "lock"
      /\ \A h \in Jobs \ {j} : cmd'[h] = cmd[h] /\ pc'[h] = pc[h]
  BY <1>1 DEF StoreInv, TypeOK, JobOK, LockDiscipline, Threads
<1>3. StoreAfter' = StoreAfter
  BY <1>1, <1>2, StoreAfterIs
<1>4. \A h \in Jobs : Answered(h)' = Answered(h)
  BY <1>1, <1>2 DEF Answered
<1>5. /\ [h \in Jobs |-> cmd[h]][j] = NoCommand
      /\ [h \in Jobs |-> cmd'[h]] = [[h \in Jobs |-> cmd[h]] EXCEPT ![j] = c]
      /\ {h \in Jobs : pc'[h] = "work"} = {h \in Jobs : pc[h] = "work"}
  BY <1>1, <1>2
<1>6. [h \in Jobs |-> Answered(h)'] = [h \in Jobs |-> Answered(h)]
  BY <1>4
<1> QED
  BY <1>3, <1>5, <1>6, Zenon DEF Atomic!Call, Answered

LEMMA LockRefined ==
  ASSUME AtomicInv, NEW j \in Jobs, LockTable(j)
  PROVE  Atomic!Perform(j)
<1> DEFINE c == cmd[j]
           calls == [h \in Jobs |-> cmd[h]]
           answers == [h \in Jobs |-> Answered(h)]
<1> USE DEF AtomicInv
<1>1. /\ pc[j] = "lock" /\ writer = NOBODY /\ pc' = [pc EXCEPT ![j] = "work"]
      /\ writer' = IF Writes(c) THEN j ELSE writer
      /\ UNCHANGED <<table, cmd, idx, out>>
  BY DEF LockTable, jobVars
<1>2. /\ c \in Commands /\ idx[j] = 0 /\ out[j] = {} /\ NOBODY \notin Jobs
      /\ table \in HashTable /\ WellFormed(table) /\ c # NoCommand
      /\ pc'[j] = "work" /\ \A h \in Jobs \ {j} : pc'[h] = pc[h]
  BY <1>1, StoreAssumption
     DEF StoreInv, TypeOK, JobOK, OutOK, ChainsWellFormed, Threads
<1>3. StoreAfter = [k \in Keys |-> read_pair(table, k)]
  BY <1>1, <1>2, StoreAfterIs
<1>4. StoreAfter' = Atomic!Effect(StoreAfter, c)
  <2>1. CASE Writes(c)
    <3>1. StoreAfter' = [k \in Keys |-> Coming(c, 0, k, StoreAfter[k])]
      BY <1>1, <1>2, <1>3, <2>1, StoreAfterIs
    <3>2. \A k \in Keys : Coming(c, 0, k, StoreAfter[k]) = Atomic!Effect(StoreAfter, c)[k]
      BY <1>2, <2>1, AllToCome
    <3>3. Atomic!Effect(StoreAfter, c) = [k \in Keys |-> Atomic!Effect(StoreAfter, c)[k]]
      <4>1. CASE c.op = "write"
        <5>1. Atomic!Effect(StoreAfter, c) = Atomic!Written(StoreAfter, c.args)
          BY <4>1 DEF Atomic!Effect
        <5>2. Atomic!Written(StoreAfter, c.args)
                = [k \in Keys |-> Atomic!Written(StoreAfter, c.args)[k]]
          BY DEF Atomic!Written
        <5> QED
          BY <5>1, <5>2
      <4>2. CASE c.op = "delete"
        BY <4>2 DEF Atomic!Effect, Atomic!Deleted
      <4> QED
        BY <2>1, <4>1, <4>2 DEF Writes
    <3> QED
      BY <3>1, <3>2, <3>3
  <2>2. CASE ~Writes(c)
    <3>1. StoreAfter' = StoreAfter
      BY <1>1, <1>2, <1>3, <2>2, StoreAfterIs
    <3> QED
      BY <2>2, <3>1 DEF Writes, Atomic!Effect
  <2> QED
    BY <2>1, <2>2
<1>5. Answered(j)' = Atomic!Answer(StoreAfter, c)
  <2>1. StillToPrint(table, c, 0) = Atomic!Answer(StoreAfter, c)
    BY <1>2, <1>3, AllToPrint
  <2> QED
    BY <1>1, <1>2, <2>1 DEF Answered
<1>6. \A h \in Jobs \ {j} : Answered(h)' = Answered(h)
  BY <1>1, <1>2 DEF Answered
<1>7. /\ calls[j] = c /\ c # NoCommand
      /\ j \notin {h \in Jobs : pc[h] = "work"}
      /\ {h \in Jobs : pc'[h] = "work"} = {h \in Jobs : pc[h] = "work"} \cup {j}
      /\ [h \in Jobs |-> cmd'[h]] = calls
  BY <1>1, <1>2
<1>8. [h \in Jobs |-> Answered(h)'] = [answers EXCEPT ![j] = Atomic!Answer(StoreAfter, calls[j])]
  BY <1>5, <1>6, <1>7
<1>9. StoreAfter' = Atomic!Effect(StoreAfter, calls[j])
  BY <1>4, <1>7
<1> QED
  BY <1>7, <1>8, <1>9, Zenon DEF Atomic!Perform, Answered

LEMMA FinishRefined ==
  ASSUME AtomicInv, NEW j \in Jobs, Finish(j)
  PROVE  Atomic!Return(j)
<1> DEFINE c == cmd[j]
           answers == [h \in Jobs |-> Answered(h)]
<1> USE DEF AtomicInv
<1>1. /\ pc[j] = "work" /\ idx[j] = Items(c)
      /\ writer' = IF writer = j THEN NOBODY ELSE writer
      /\ pc' = [pc EXCEPT ![j] = "idle"] /\ cmd' = [cmd EXCEPT ![j] = NoCommand]
      /\ idx' = [idx EXCEPT ![j] = 0] /\ out' = [out EXCEPT ![j] = {}]
      /\ table' = table
  BY DEF Finish, Unlock
<1>2. /\ c \in Commands /\ NOBODY \notin Jobs
      /\ pc'[j] = "idle" /\ cmd'[j] = NoCommand
      /\ \A h \in Jobs \ {j} : /\ pc'[h] = pc[h] /\ cmd'[h] = cmd[h]
                               /\ idx'[h] = idx[h] /\ out'[h] = out[h]
  BY <1>1, StoreAssumption DEF StoreInv, TypeOK, JobOK, OutOK, Threads
<1>3. StoreAfter' = StoreAfter
  <2>1. CASE writer = j
    <3>1. \A k \in Keys : StillToCome(c, idx[j], k) = {}
      BY <1>1, <1>2, CommandTyped DEF StillToCome
    <3> QED
      BY <1>1, <1>2, <2>1, <3>1, StoreAfterIs DEF Coming
  <2>2. CASE writer # j
    BY <1>1, <1>2, <2>2, StoreAfterIs
  <2> QED
    BY <2>1, <2>2
<1>4. Answered(j)' = {} /\ \A h \in Jobs \ {j} : Answered(h)' = Answered(h)
  BY <1>1, <1>2 DEF Answered
<1>5. /\ j \in {h \in Jobs : pc[h] = "work"}
      /\ {h \in Jobs : pc'[h] = "work"} = {h \in Jobs : pc[h] = "work"} \ {j}
  BY <1>1, <1>2
<1>7. [h \in Jobs |-> cmd'[h]] = [[h \in Jobs |-> cmd[h]] EXCEPT ![j] = NoCommand]
  BY <1>2
<1>6. [h \in Jobs |-> Answered(h)'] = [answers EXCEPT ![j] = {}]
  BY <1>4
<1> QED
  BY <1>3, <1>5, <1>6, <1>7, Zenon DEF Atomic!Return, Answered

(* A request changes lists, but no pair.                                   *)
LEMMA RequestChangesNoPair ==
  ASSUME StoreInv, NEW m \in Managers, Execute(m)
  PROVE  \A k \in Keys : (Has(table', k) <=> Has(table, k)) /\ read_pair(table', k) = read_pair(table, k)
<1>1. /\ table \in HashTable /\ WellFormed(table) /\ cmd[m] \in Requests
      /\ pipe[m] \in Pipes /\ table' = Outcome(m).ht
  BY DEF Execute, StoreInv, TypeOK, ManagerOK, ChainsWellFormed
<1>2. CASE cmd[m].op = "subscribe"
  <2>1. cmd[m].key \in Keys /\ table' = execute_subscribe(table, cmd[m].key, pipe[m]).ht
    BY <1>1, <1>2 DEF Outcome, Requests
  <2> QED
    BY <1>1, <2>1, SubscribeEffect
<1>3. CASE cmd[m].op = "unsubscribe"
  <2>1. cmd[m].key \in Keys /\ table' = execute_unsubscribe(table, cmd[m].key, pipe[m]).ht
    BY <1>1, <1>3 DEF Outcome, Requests
  <2> QED
    BY <1>1, <2>1, UnsubscribeEffect
<1>4. CASE cmd[m].op = "disconnect"
  <2>1. table' = execute_disconnect(table, pipe[m]).ht
    BY <1>1, <1>4 DEF Outcome
  <2> QED
    BY <1>1, <2>1, DisconnectEffect
<1> QED
  BY <1>1, <1>2, <1>3, <1>4 DEF Requests

LEMMA ExecuteRefined ==
  ASSUME AtomicInv, NEW m \in Managers, Execute(m)
  PROVE  UNCHANGED Atomic!vars
<1> USE DEF AtomicInv
<1>1. /\ pc[m] = "exec" /\ writer' \in {NOBODY, writer}
      /\ \A j \in Jobs : cmd'[j] = cmd[j] /\ pc'[j] = pc[j]
  BY StoreAssumption DEF Execute, Release, StoreInv, TypeOK, Threads
<1>2. writer = m /\ m \notin Jobs /\ NOBODY \notin Jobs /\ m # NOBODY
  BY <1>1, StoreAssumption DEF StoreInv, LockDiscipline, Threads
<1>3. StoreAfter' = StoreAfter
  BY <1>1, <1>2, StoreAfterIs, RequestChangesNoPair
<1>4. \A j \in Jobs : pc[j] # "work"
  BY <1>2, WritesAlone
<1>5. \A j \in Jobs : Answered(j)' = Answered(j)
  BY <1>1, <1>4 DEF Answered
<1> QED
  BY <1>1, <1>3, <1>5, AtomicStutter

LEMMA AtomicStep ==
  ASSUME AtomicInv, [Next]_vars
  PROVE  Atomic!Next \/ UNCHANGED Atomic!vars
<1> USE DEF AtomicInv
<1>0. \A m \in Managers : m \notin Jobs /\ m # NOBODY
  BY StoreAssumption DEF Threads
<1>1. CASE UNCHANGED vars
  BY <1>1, JobsNotConcerned DEF vars, locks, jobVars
<1>2. ASSUME NEW j \in Jobs, NEW c \in Commands, Start(j, c)
      PROVE  Atomic!Next
  BY <1>2, StartRefined DEF Atomic!Next
<1>3. ASSUME NEW j \in Jobs, JobStep(j)
      PROVE  Atomic!Next \/ UNCHANGED Atomic!vars
  <2>1. CASE LockTable(j)
    BY <2>1, LockRefined DEF Atomic!Next
  <2>2. CASE Finish(j)
    BY <2>2, FinishRefined DEF Atomic!Next
  <2>3. CASE Notify(j)
    BY <2>3, JobsNotConcerned DEF Notify, locks
  <2> QED
    BY <1>3, <2>1, <2>2, <2>3, WriteRound, ReadRound DEF JobStep
<1>4. ASSUME NEW m \in Managers, NEW p \in Pipes, OpenSession(m, p)
      PROVE  UNCHANGED Atomic!vars
  BY <1>0, <1>4, JobsNotConcerned DEF OpenSession, locks, jobVars, StoreInv, TypeOK, Threads
<1>5. ASSUME NEW m \in Managers, NEW r \in Requests, Receive(m, r)
      PROVE  UNCHANGED Atomic!vars
  BY <1>0, <1>5, JobsNotConcerned DEF Receive, locks, StoreInv, TypeOK, Threads
<1>6. ASSUME NEW m \in Managers, ManagerStep(m)
      PROVE  UNCHANGED Atomic!vars
  <2>0. NOBODY \notin Jobs
    BY StoreAssumption DEF Threads
  <2>1. CASE HangUp(m)
    BY <1>0, <2>1, JobsNotConcerned DEF HangUp, locks, StoreInv, TypeOK, Threads
  <2>2. CASE LockForRequest(m)
    BY <1>0, <2>0, <2>2, JobsNotConcerned DEF LockForRequest, jobVars, StoreInv, TypeOK, Threads
  <2>3. CASE CloseSession(m)
    BY <1>0, <2>3, JobsNotConcerned DEF CloseSession, locks, jobVars, StoreInv, TypeOK, Threads
  <2> QED
    BY <1>6, <2>1, <2>2, <2>3, ExecuteRefined DEF ManagerStep
<1>7. ASSUME NEW m \in Managers, Drain(m) \/ ClientGone(m)
      PROVE  UNCHANGED Atomic!vars
  BY <1>7, JobsNotConcerned DEF Drain, ClientGone, locks, jobVars
<1> QED
  BY <1>1, <1>2, <1>3, <1>4, <1>5, <1>6, <1>7 DEF Next

(* Every command of a job takes effect on all its pairs or keys at once,   *)
(* at the moment when it gets the lock, whatever the other threads do:     *)
(* kvs_write, kvs_read, kvs_delete, kvs_show and kvs_backup under          *)
(* tablelock implement AtomicStore.                                        *)
THEOREM StoreJobsAtomic == Spec => JobsAtomic
<1>1. Init => OutOK
  BY DEF Init, OutOK
<1>2. Init => Atomic!Init
  <2> SUFFICES ASSUME Init
               PROVE  Atomic!Init
    OBVIOUS
  <2>1. /\ writer \notin Jobs /\ table = create_hash_table
        /\ \A j \in Jobs : cmd[j] = NoCommand /\ pc[j] # "work"
    BY StoreAssumption DEF Init, Threads
  <2>2. \A k \in Keys : read_pair(table, k) = NoValue
    <3>1. \A k \in Keys : \A i \in 1 .. Len(table[hash(k)]) : table[hash(k)][i].key # k
      BY <2>1, HashInBuckets DEF create_hash_table
    <3>2. \A k \in Keys : ~Has(table, k)
      BY <2>1, <3>1, EmptyTable, NotFound
    <3> QED
      BY <3>2 DEF read_pair
  <2>3. StoreAfter = [k \in Keys |-> NoValue]
    BY <2>1, <2>2, StoreAfterIs
  <2>4. /\ [j \in Jobs |-> cmd[j]] = [j \in Jobs |-> NoCommand]
        /\ {j \in Jobs : pc[j] = "work"} = {}
    BY <2>1
  <2>5. [j \in Jobs |-> Answered(j)] = [j \in Jobs |-> {}]
    BY <2>1 DEF Answered
  <2> QED
    BY <2>3, <2>4, <2>5, Zenon DEF Atomic!Init, Answered
<1>3. AtomicInv /\ [Next]_vars => AtomicInv'
  BY StoreInvInductive, OutKept DEF AtomicInv
<1>4. AtomicInv /\ [Next]_vars => [Atomic!Next]_Atomic!vars
  BY AtomicStep
<1> QED
  BY <1>1, <1>2, <1>3, <1>4, StoreInvInit, PTL DEF Spec, JobsAtomic, Atomic!Spec, AtomicInv

-----------------------------------------------------------------------------
(* What a client has been told is out of date only while the job that      *)
(* changed the pair has the client's pipe still to notify.                 *)
PipesApart ==
  \A m \in Managers, n \in Managers : pipe[m] = pipe[n] /\ pipe[m] # NoPipe => m = n

EndedTold ==
  \A m \in Managers : pc[m] \in {"free", "closing"} => \A k \in Keys : told[m][k] = NoSub

Listed(m, k) == Has(table, k) /\ Contains(NotifPipes(table, k), pipe[m])

Current(m, k) == Listed(m, k) /\ told[m][k] \in {NoNews, read_pair(table, k)}

Due(m, k) ==
  \E j \in Jobs :
    /\ writer = j
    /\ KeyOf(cmd[j], idx[j]) = k
    /\ Contains(notify[j], pipe[m])
    /\ cmd[j].op = "write" => Listed(m, k)

NewsOK ==
  \A j \in Jobs :
    notify[j] # << >> /\ cmd[j].op = "write"
      => read_pair(table, KeyOf(cmd[j], idx[j])) = cmd[j].args[idx[j]][2]

ToldOK ==
  \A m \in reading : \A k \in Keys :
    told[m][k] \notin {NoSub, Gone} => Current(m, k) \/ Due(m, k)

SubsInv == PipesApart /\ EndedTold /\ NewsOK /\ ToldOK

LEMMA SubsInit == Init => SubsInv
<1> SUFFICES ASSUME Init
             PROVE  SubsInv
  OBVIOUS
<1>1. /\ \A m \in Managers : pipe[m] = NoPipe /\ \A k \in Keys : told[m][k] = NoSub
      /\ reading = {} /\ \A j \in Jobs : notify[j] = << >>
  BY DEF Init
<1> QED
  BY <1>1 DEF SubsInv, PipesApart, EndedTold, NewsOK, ToldOK

(* Nobody is owed news while no job changes pairs, nor between two pairs.  *)
LEMMA NothingDue ==
  ASSUME SubsInv, writer \notin Jobs \/ notify[writer] = << >>,
         NEW m \in reading, NEW k \in Keys, told[m][k] \notin {NoSub, Gone}
  PROVE  Current(m, k)
<1>1. ~Due(m, k)
  BY DEF Due, Contains
<1> QED
  BY <1>1 DEF SubsInv, ToldOK

(* Who has pipes to notify holds the lock for it.                          *)
LEMMA NotifierWrites ==
  ASSUME StoreInv, NEW j \in Jobs, notify[j] # << >>
  PROVE  /\ pc[j] = "work" /\ Writes(cmd[j]) /\ writer = j
         /\ cmd[j] \in Commands /\ idx[j] \in 1 .. Items(cmd[j])
         /\ KeyOf(cmd[j], idx[j]) \in Keys
<1>1. /\ pc[j] = "work" /\ Writes(cmd[j]) /\ writer = j
      /\ cmd[j] \in Commands /\ idx[j] \in 0 .. Items(cmd[j]) /\ idx[j] > 0
  BY DEF StoreInv, TypeOK, JobOK, LockDiscipline
<1>2. idx[j] \in 1 .. Items(cmd[j])
  BY <1>1, CommandTyped
<1>3. KeyOf(cmd[j], idx[j]) \in Keys
  <2>1. CASE cmd[j].op = "write"
    <3>1. cmd[j].args[idx[j]] \in Keys \X Values
      BY <1>1, <1>2, <2>1, CommandTyped
    <3> QED
      BY <2>1, <3>1 DEF KeyOf
  <2>2. CASE cmd[j].op = "delete"
    <3>1. cmd[j].args[idx[j]] \in Keys
      BY <1>1, <1>2, <2>2, CommandTyped
    <3> QED
      BY <2>2, <3>1 DEF KeyOf
  <2> QED
    BY <1>1, <2>1, <2>2 DEF Writes
<1> QED
  BY <1>1, <1>2, <1>3

(* A step that tells nobody anything and changes no pair: those who still  *)
(* read are as up to date as before.                                       *)
LEMMA NothingTold ==
  ASSUME StoreInv, SubsInv, UNCHANGED <<table, told, notify>>,
         \A m \in reading' :
           \/ m \in reading /\ pipe'[m] = pipe[m]
           \/ \A k \in Keys : told[m][k] = NoSub,
         \A j \in Jobs :
           notify[j] # << >> => /\ writer' = writer
                                /\ cmd'[j] = cmd[j] /\ idx'[j] = idx[j]
  PROVE  NewsOK' /\ ToldOK'
<1>1. NewsOK'
  BY DEF SubsInv, NewsOK
<1>2. ASSUME NEW m \in reading', NEW k \in Keys, told'[m][k] \notin {NoSub, Gone}
      PROVE  Current(m, k)' \/ Due(m, k)'
  <2>1. m \in reading /\ pipe'[m] = pipe[m] /\ told[m][k] \notin {NoSub, Gone}
    BY <1>2
  <2>2. CASE Current(m, k)
    BY <2>1, <2>2 DEF Current, Listed
  <2>3. CASE Due(m, k)
    <3>1. PICK j \in Jobs : /\ writer = j
                            /\ KeyOf(cmd[j], idx[j]) = k
                            /\ Contains(notify[j], pipe[m])
                            /\ cmd[j].op = "write" => Listed(m, k)
      BY <2>3 DEF Due
    <3>2. notify[j] # << >>
      BY <3>1 DEF Contains
    <3> QED
      BY <2>1, <3>1, <3>2 DEF Due, Listed
  <2> QED
    BY <2>1, <2>2, <2>3 DEF SubsInv, ToldOK
<1> QED
  BY <1>1, <1>2 DEF ToldOK

(* A pair is changed: its subscribers are owed the news.                   *)
LEMMA ChangeOwesNews ==
  ASSUME StoreInv, SubsInv, NEW j \in Jobs, WritePair(j) \/ DeletePair(j)
  PROVE  SubsInv'
<1> DEFINE c == cmd[j]
           n == idx[j]
           key == KeyOf(c, n + 1)
<1>1. PICK op \in {"write", "delete"} : Working(j, op)
  BY DEF WritePair, DeletePair
<1>2. /\ c \in Commands /\ c.op = op /\ Writes(c) /\ n \in Nat
      /\ pc[j] = "work" /\ pc' = pc /\ cmd' = cmd /\ writer' = writer
      /\ idx'[j] = n + 1 /\ notify[j] = << >>
      /\ UNCHANGED <<pipe, reading, told>>
  BY <1>1 DEF Working, locks, sessionVars, StoreInv, TypeOK, JobOK, Writes
<1>3. /\ writer = j /\ \A h \in Jobs \ {j} : notify[h] = << >>
      /\ notify'[j] = NotifPipes(table, key) /\ \A h \in Jobs \ {j} : notify'[h] = << >>
  <2>1. writer = j
    BY <1>2 DEF StoreInv, LockDiscipline
  <2>2. \A h \in Jobs \ {j} : notify[h] = << >>
    BY <2>1, NotifierWrites
  <2>3. notify' = [notify EXCEPT ![j] = NotifPipes(table, key)]
    BY DEF WritePair, DeletePair, Working, KeyOf
  <2> HIDE DEF key
  <2> QED
    BY <2>1, <2>2, <2>3 DEF StoreInv, TypeOK
<1>4. /\ table \in HashTable /\ WellFormed(table) /\ key \in Keys
      /\ op = "write" => c.args[n + 1][2] \in Values
  BY <1>1, <1>2, ItemTyped DEF ChainsWellFormed, KeyOf
<1>5. /\ \A k \in Keys \ {key} : /\ Has(table', k) <=> Has(table, k)
                                 /\ read_pair(table', k) = read_pair(table, k)
                                 /\ NotifPipes(table', k) = NotifPipes(table, k)
      /\ op = "write" => /\ Has(table', key) /\ read_pair(table', key) = c.args[n + 1][2]
                         /\ NotifPipes(table', key) = NotifPipes(table, key)
  <2>1. CASE WritePair(j)
    <3>1. c.op = "write" /\ table' = write_pair(table, key, c.args[n + 1][2])
      BY <2>1 DEF WritePair, Working, KeyOf
    <3> HIDE DEF key
    <3> QED
      BY <1>2, <1>4, <3>1, WritePairEffect
  <2>2. CASE DeletePair(j)
    <3>1. c.op = "delete" /\ table' = delete_pair(table, key)
      BY <2>2 DEF DeletePair, Working, KeyOf
    <3> HIDE DEF key
    <3> QED
      BY <1>2, <1>4, <3>1, DeletePairEffect
  <2> QED
    BY <2>1, <2>2
<1>6. NewsOK'
  <2>1. c.op = "write" => read_pair(table', key) = c.args[n + 1][2]
    BY <1>2, <1>5
  <2> QED
    BY <1>2, <1>3, <2>1 DEF NewsOK
<1>7. ToldOK'
  <2> SUFFICES ASSUME NEW m \in reading, NEW k \in Keys, told[m][k] \notin {NoSub, Gone}
               PROVE  Current(m, k)' \/ Due(m, k)'
    BY <1>2 DEF ToldOK
  <2>1. Current(m, k)
    BY <1>2, <1>3, NothingDue
  <2>2. CASE k # key
    BY <1>2, <1>5, <2>1, <2>2 DEF Current, Listed
  <2>3. CASE k = key
    <3>1. Contains(notify'[j], pipe'[m]) /\ writer' = j /\ KeyOf(cmd'[j], idx'[j]) = k
      BY <1>2, <1>3, <2>1, <2>3 DEF Current, Listed
    <3>2. cmd'[j].op = "write" => Listed(m, k)'
      BY <1>2, <1>5, <2>1, <2>3 DEF Current, Listed
    <3> QED
      BY <3>1, <3>2 DEF Due
  <2> QED
    BY <2>2, <2>3
<1> QED
  BY <1>2, <1>6, <1>7 DEF SubsInv, PipesApart, EndedTold

(* A notification: one client at most is owed less, and knows more.        *)
LEMMA NewsTold ==
  ASSUME StoreInv, SubsInv, NEW j \in Jobs, Notify(j)
  PROVE  SubsInv'
<1> DEFINE key == KeyOf(cmd[j], idx[j])
           heard == Audience(Head(notify[j]))
<1>1. /\ notify[j] # << >> /\ notify' = [notify EXCEPT ![j] = Tail(@)]
      /\ told' = [m \in Managers |->
                    IF m \in heard /\ told[m][key] \notin {NoSub, Gone}
                    THEN [told[m] EXCEPT ![key] = News(j)] ELSE told[m]]
      /\ UNCHANGED <<table, writer, pc, cmd, idx, pipe, reading>>
  BY DEF Notify, locks
<1>2. Writes(cmd[j]) /\ writer = j /\ key \in Keys
  BY <1>1, NotifierWrites
<1>3. /\ notify[j] \in Seq(Pipes) /\ notify'[j] = Tail(notify[j])
      /\ \A h \in Jobs \ {j} : notify'[h] = notify[h]
      /\ reading \subseteq Sessions /\ Sessions \subseteq Managers
      /\ told \in [Managers -> [Keys -> Values \cup {NoSub, NoNews, Gone}]]
  BY <1>1 DEF StoreInv, TypeOK, Sessions
<1> HIDE DEF key, heard
<1>4. NewsOK'
  <2>1. Tail(notify[j]) # << >> => notify[j] # << >>
    BY <1>1
  <2> QED
    BY <1>1, <1>3, <2>1 DEF SubsInv, NewsOK
<1>5. EndedTold'
  <2>1. \A m \in Managers, k \in Keys : told[m][k] = NoSub => told'[m][k] = NoSub
    BY <1>1, <1>2, <1>3
  <2> QED
    BY <1>1, <2>1 DEF SubsInv, EndedTold
<1>6. ToldOK'
  <2> SUFFICES ASSUME NEW m \in reading, NEW k \in Keys, told'[m][k] \notin {NoSub, Gone}
               PROVE  Current(m, k)' \/ Due(m, k)'
    BY <1>1 DEF ToldOK
  <2>0. m \in Managers /\ m \in Sessions
    BY <1>3
  <2>1. told[m][k] \notin {NoSub, Gone}
    BY <1>1, <1>2, <1>3, <2>0
  <2>2. Current(m, k) \/ (k = key /\ Contains(notify[j], pipe[m])
                            /\ (cmd[j].op = "write" => Listed(m, k)))
    BY <1>2, <2>1 DEF SubsInv, ToldOK, Due, key
  <2>3. CASE m \in heard /\ k = key
    <3>1. told'[m][k] = News(j)
      BY <1>1, <1>2, <1>3, <2>0, <2>1, <2>3
    <3>2. cmd[j].op = "write" /\ News(j) = cmd[j].args[idx[j]][2]
      BY <1>2, <3>1 DEF News, Writes
    <3>3. News(j) = read_pair(table, k)
      BY <1>1, <2>3, <3>2 DEF SubsInv, NewsOK, key
    <3>4. Listed(m, k)
      BY <2>2, <3>2 DEF Current
    <3> QED
      BY <1>1, <3>1, <3>3, <3>4 DEF Current, Listed
  <2>4. CASE m \in heard /\ k # key
    <3>1. told'[m][k] = told[m][k]
      BY <1>1, <1>2, <1>3, <2>0, <2>4
    <3> QED
      BY <1>1, <2>2, <2>4, <3>1 DEF Current, Listed
  <2>5. CASE m \notin heard
    <3>1. told'[m][k] = told[m][k]
      BY <1>1, <2>0, <2>5
    <3>2. pipe[m] # Head(notify[j])
      BY <2>0, <2>5 DEF heard, Audience
    <3>3. Contains(notify[j], pipe[m]) => Contains(notify'[j], pipe[m])
      <4> SUFFICES ASSUME NEW i \in 1 .. Len(notify[j]), notify[j][i] = pipe[m]
                   PROVE  Contains(notify'[j], pipe[m])
        BY DEF Contains
      <4> DEFINE s == notify[j]
      <4>1. s \in Seq(Pipes) /\ s # << >> /\ i \in 1 .. Len(s) /\ s[i] = pipe[m]
        BY <1>1, <1>3
      <4>2. i # 1
        BY <3>2, <4>1
      <4> HIDE DEF s
      <4>3. /\ i - 1 \in 1 .. Len(Tail(s)) /\ (i - 1) + 1 = i
            /\ Tail(s)[i - 1] = s[(i - 1) + 1]
        BY <4>1, <4>2
      <4>4. Contains(Tail(s), pipe[m])
        BY <4>1, <4>3 DEF Contains
      <4> QED
        BY <1>3, <4>4 DEF s
    <3> QED
      BY <1>1, <1>2, <2>2, <3>1, <3>3 DEF Current, Due, Listed, key
  <2> QED
    BY <2>3, <2>4, <2>5
<1> QED
  BY <1>1, <1>4, <1>5, <1>6 DEF SubsInv, PipesApart

(* A job between two pairs, or at a command that only reads.               *)
LEMMA JobTellsNothing ==
  ASSUME StoreInv, SubsInv, NEW j \in Jobs,
         \/ \E c \in Commands : Start(j, c)
         \/ LockTable(j) \/ ReadPair(j) \/ ShowBucket(j) \/ Fork(j) \/ Finish(j)
  PROVE  SubsInv'
<1>1. /\ notify[j] = << >>
      /\ UNCHANGED <<table, told, notify, pipe, reading>>
      /\ \A h \in Jobs \ {j} : cmd'[h] = cmd[h] /\ idx'[h] = idx[h]
      /\ \A m \in Managers : pc'[m] = pc[m]
  <2>1. j \in Threads /\ Jobs \subseteq Threads /\ \A m \in Managers : m # j
    BY StoreAssumption DEF Threads
  <2>2. pc[j] # "work" => notify[j] = << >>
    BY DEF StoreInv, TypeOK, JobOK
  <2>3. UNCHANGED <<table, told, notify, pipe, reading>>
    BY DEF Start, LockTable, ReadPair, ShowBucket, Fork, Working, Finish,
           jobVars, sessionVars
  <2>4. notify[j] = << >>
    BY <2>2 DEF Start, LockTable, ReadPair, ShowBucket, Fork, Working, Finish
  <2>5. /\ cmd' = cmd \/ \E c \in Commands \cup {NoCommand} : cmd' = [cmd EXCEPT ![j] = c]
        /\ \/ idx' = idx \/ idx' = [idx EXCEPT ![j] = 0]
           \/ idx' = [idx EXCEPT ![j] = idx[j] + 1]
        /\ pc' = pc \/ \E x \in {"lock", "work", "idle"} : pc' = [pc EXCEPT ![j] = x]
    BY <2>1 DEF Start, LockTable, ReadPair, ShowBucket, Fork, Working, Finish, jobVars
  <2>6. \A h \in Jobs \ {j} : cmd'[h] = cmd[h] /\ idx'[h] = idx[h]
    BY <2>1, <2>5 DEF StoreInv, TypeOK
  <2>7. \A m \in Managers : pc'[m] = pc[m]
    BY <2>1, <2>5 DEF StoreInv, TypeOK, Threads
  <2> QED
    BY <2>3, <2>4, <2>6, <2>7
<1>2. ASSUME NEW h \in Jobs, notify[h] # << >>
      PROVE  writer' = writer /\ cmd'[h] = cmd[h] /\ idx'[h] = idx[h]
  <2>1. h # j /\ writer = h /\ pc[h] = "work" /\ Writes(cmd[h])
    BY <1>1, <1>2, NotifierWrites
  <2>2. writer # j /\ writer # NOBODY
    BY <2>1, StoreAssumption DEF Threads
  <2>3. writer' = writer
    BY <2>1, <2>2
       DEF Start, LockTable, ReadPair, ShowBucket, Fork, Working, Finish,
           Unlock, locks
  <2> QED
    BY <1>1, <2>1, <2>3
<1>3. NewsOK' /\ ToldOK'
  BY <1>1, <1>2, NothingTold
<1>4. PipesApart' /\ EndedTold'
  BY <1>1 DEF SubsInv, PipesApart, EndedTold
<1> QED
  BY <1>3, <1>4 DEF SubsInv

(* A new session has a descriptor of its own and no subscription yet.      *)
LEMMA OpeningTellsNothing ==
  ASSUME StoreInv, SubsInv, NEW m \in Managers, NEW p \in Pipes, OpenSession(m, p)
  PROVE  SubsInv'
<1>1. /\ pc[m] = "free" /\ \A n \in Managers : pipe[n] # p
      /\ pc' = [pc EXCEPT ![m] = "ready"]
      /\ pipe' = [pipe EXCEPT ![m] = p] /\ reading' = reading \cup {m}
      /\ UNCHANGED <<table, writer, cmd, idx, notify, told>>
      /\ pc \in [Threads -> {"idle", "free", "ready", "lock", "work", "exec",
                             "closing"}]
      /\ pipe \in [Managers -> Pipes \cup {NoPipe}]
      /\ Managers \subseteq Threads /\ reading \subseteq Managers
  BY DEF OpenSession, locks, jobVars, StoreInv, TypeOK, Threads, Sessions
<1>2. \A k \in Keys : told[m][k] = NoSub
  BY <1>1 DEF SubsInv, EndedTold
<1>3. PipesApart'
  BY <1>1 DEF SubsInv, PipesApart
<1>4. EndedTold'
  BY <1>1 DEF SubsInv, EndedTold
<1>5. \A n \in reading' : \/ n \in reading /\ pipe'[n] = pipe[n]
                          \/ \A k \in Keys : told[n][k] = NoSub
  BY <1>1, <1>2
<1>6. NewsOK' /\ ToldOK'
  BY <1>1, <1>5, NothingTold
<1> QED
  BY <1>3, <1>4, <1>6 DEF SubsInv

(* The other steps of a session but the request itself.                    *)
LEMMA SessionTellsNothing ==
  ASSUME StoreInv, SubsInv, NEW m \in Managers,
         \/ \E r \in Requests : Receive(m, r)
         \/ HangUp(m) \/ LockForRequest(m) \/ CloseSession(m)
         \/ Drain(m) \/ ClientGone(m)
  PROVE  SubsInv'
<1>0. /\ Managers \subseteq Threads /\ \A j \in Jobs : j # m
      /\ m # NOBODY /\ NoPipe \notin Pipes
      /\ pc \in [Threads -> {"idle", "free", "ready", "lock", "work", "exec",
                             "closing"}]
      /\ cmd \in [Threads -> Commands \cup Requests \cup {NoCommand}]
      /\ pipe \in [Managers -> Pipes \cup {NoPipe}]
      /\ reading \subseteq Managers
  BY StoreAssumption DEF StoreInv, TypeOK, Threads, Sessions
<1>1. /\ UNCHANGED <<table, told, notify, idx>>
      /\ reading' \subseteq reading
      /\ \/ pipe' = pipe
         \/ pc[m] = "closing" /\ pipe' = [pipe EXCEPT ![m] = NoPipe] /\ reading' = reading \ {m}
      /\ \A n \in Managers :
           pc'[n] \in {"free", "closing"} => pc[n] \in {"free", "closing"}
      /\ \A j \in Jobs : cmd'[j] = cmd[j]
  BY <1>0 DEF Receive, HangUp, LockForRequest, CloseSession, Drain, ClientGone,
              locks, jobVars, sessionVars, Threads
<1>2. ASSUME NEW j \in Jobs, notify[j] # << >>
      PROVE  writer' = writer
  <2>1. writer = j /\ j # NOBODY
    BY <1>2, NotifierWrites, StoreAssumption DEF Threads
  <2> QED
    BY <1>0, <2>1 DEF Receive, HangUp, LockForRequest, CloseSession, Drain,
                      ClientGone, locks
<1>3. \A n \in reading' : n \in reading /\ pipe'[n] = pipe[n]
  BY <1>0, <1>1
<1>4. NewsOK' /\ ToldOK'
  BY <1>1, <1>2, <1>3, NothingTold
<1>5. PipesApart'
  BY <1>0, <1>1 DEF SubsInv, PipesApart
<1>6. EndedTold'
  BY <1>1 DEF SubsInv, EndedTold
<1> QED
  BY <1>4, <1>5, <1>6 DEF SubsInv

(* A request.  It runs while no job owes news, changes the list of one key *)
(* and takes no other session's descriptor out of it.                      *)
LEMMA RequestTellsNothing ==
  ASSUME StoreInv, SubsInv, NEW m \in Managers, Execute(m)
  PROVE  SubsInv'
<1> DEFINE o == Outcome(m)
           op == cmd[m].op
<1>1. /\ pc[m] = "exec" /\ writer = m /\ writer \notin Jobs
      /\ cmd[m] \in Requests /\ pipe[m] \in Pipes
      /\ table \in HashTable /\ WellFormed(table) /\ reading \subseteq Managers
      /\ told \in [Managers -> [Keys -> Values \cup {NoSub, NoNews, Gone}]]
      /\ \A j \in Jobs : notify[j] = << >>
      /\ NoSub # NoNews /\ NoNews # Gone
  <2>1. pc[m] = "exec" /\ writer = m /\ writer \notin Jobs
    BY StoreAssumption DEF Execute, StoreInv, LockDiscipline
  <2>2. \A j \in Jobs : notify[j] = << >>
    BY <2>1, NotifierWrites
  <2> QED
    BY <2>1, <2>2, StoreAssumption
       DEF StoreInv, TypeOK, ManagerOK, ChainsWellFormed, Sessions
<1>2. /\ table' = o.ht
      /\ told' = IF o.code = 0 \/ op = "disconnect"
                 THEN [told EXCEPT ![m] = ToldAfter(m)] ELSE told
      /\ pc' = [pc EXCEPT ![m] = IF op = "disconnect" THEN "closing" ELSE "ready"]
      /\ UNCHANGED <<idx, notify, pipe, reading>>
  BY DEF Execute
<1>3. \A k \in Keys : /\ Has(table', k) <=> Has(table, k)
                      /\ read_pair(table', k) = read_pair(table, k)
  BY RequestChangesNoPair
<1>4. \A n \in Managers \ {m} : told'[n] = told[n] /\ pc'[n] = pc[n]
  BY <1>1, <1>2 DEF StoreInv, TypeOK
<1>5. \A n \in reading, k \in Keys : told[n][k] \notin {NoSub, Gone} => Current(n, k)
  BY <1>1, NothingDue
<1>6. ASSUME NEW n \in reading \ {m}, NEW k \in Keys, Listed(n, k)
      PROVE  Listed(n, k)'
  <2>1. pipe[n] # pipe[m] /\ pipe'[n] = pipe[n] /\ Has(table', k)
    <3>1. n \in Managers /\ n # m /\ pipe[m] # NoPipe
      BY <1>1, StoreAssumption
    <3> QED
      BY <1>2, <1>3, <1>6, <3>1 DEF SubsInv, PipesApart, Listed
  <2>2. Contains(NotifPipes(table, k), pipe[n])
    BY <1>6 DEF Listed
  <2>3. Contains(NotifPipes(o.ht, k), pipe[n])
    <3>1. CASE op = "subscribe"
      <4>1. cmd[m].key \in Keys /\ o = execute_subscribe(table, cmd[m].key, pipe[m])
        BY <1>1, <3>1 DEF Outcome, Requests
      <4> HIDE DEF o
      <4> QED
        BY <1>1, <2>2, <4>1, SubscribeEffect
    <3>2. CASE op = "unsubscribe"
      <4>1. cmd[m].key \in Keys /\ o = execute_unsubscribe(table, cmd[m].key, pipe[m])
        BY <1>1, <3>2 DEF Outcome, Requests
      <4> HIDE DEF o
      <4> QED
        BY <1>1, <2>1, <2>2, <4>1, UnsubscribeEffect
    <3>3. CASE op = "disconnect"
      <4>1. o = execute_disconnect(table, pipe[m])
        BY <1>1, <3>3 DEF Outcome
      <4> HIDE DEF o
      <4> QED
        BY <1>1, <2>1, <2>2, <4>1, DisconnectEffect
    <3> QED
      BY <1>1, <3>1, <3>2, <3>3 DEF Requests
  <2> QED
    BY <1>2, <2>1, <2>3 DEF Listed
<1>7. ASSUME m \in reading, NEW k \in Keys, told'[m][k] \notin {NoSub, Gone}
      PROVE  Current(m, k)'
  <2>1. CASE op = "disconnect"
    <3>1. told'[m] = [key \in Keys |-> NoSub]
      BY <1>1, <1>2, <2>1 DEF ToldAfter
    <3> QED
      BY <1>7, <3>1
  <2>2. CASE op \in {"subscribe", "unsubscribe"} /\ o.code # 0
    <3>1. table' = table /\ told' = told
      <4>1. o.ht = table
        BY <2>2 DEF Outcome, execute_subscribe, execute_unsubscribe, Returns
      <4> QED
        BY <1>2, <2>2, <4>1
    <3> QED
      BY <1>2, <1>5, <1>7, <3>1 DEF Current, Listed
  <2>3. CASE op = "subscribe" /\ o.code = 0
    <3> DEFINE key == cmd[m].key
    <3>1. key \in Keys /\ o = execute_subscribe(table, key, pipe[m])
      BY <1>1, <2>3 DEF Outcome, Requests
    <3>2. told'[m] = IF told[m][key] \in {NoSub, Gone}
                     THEN [told[m] EXCEPT ![key] = NoNews] ELSE told[m]
      BY <1>1, <1>2, <2>3 DEF ToldAfter
    <3> HIDE DEF o, key
    <3>3. Has(table, key) /\ Contains(NotifPipes(table', key), pipe[m])
      BY <1>1, <1>2, <2>3, <3>1, SubscribeEffect
    <3>4. Contains(NotifPipes(table, k), pipe[m]) => Contains(NotifPipes(table', k), pipe[m])
      BY <1>1, <1>2, <3>1, SubscribeEffect
    <3>5. CASE told[m][k] \in {NoSub, Gone}
      <4>1. k = key /\ told'[m][k] = NoNews
        BY <1>1, <1>7, <3>1, <3>2, <3>5
      <4> QED
        BY <1>2, <1>3, <3>3, <4>1 DEF Current, Listed
    <3>6. CASE told[m][k] \notin {NoSub, Gone}
      <4>1. told'[m][k] = told[m][k]
        BY <1>1, <3>1, <3>2, <3>6
      <4>2. Current(m, k)
        BY <1>5, <1>7, <3>6
      <4> QED
        BY <1>2, <1>3, <3>4, <4>1, <4>2 DEF Current, Listed
    <3> QED
      BY <3>5, <3>6
  <2>4. CASE op = "unsubscribe" /\ o.code = 0
    <3> DEFINE key == cmd[m].key
    <3>1. key \in Keys /\ o = execute_unsubscribe(table, key, pipe[m])
      BY <1>1, <2>4 DEF Outcome, Requests
    <3>2. told'[m] = [told[m] EXCEPT ![key] = NoSub]
      BY <1>1, <1>2, <2>4 DEF ToldAfter
    <3> HIDE DEF o, key
    <3>3. k # key /\ told'[m][k] = told[m][k]
      BY <1>1, <1>7, <3>1, <3>2
    <3>4. NotifPipes(table', k) = NotifPipes(table, k)
      BY <1>1, <1>2, <3>1, <3>3, UnsubscribeEffect
    <3>5. Current(m, k)
      BY <1>5, <1>7, <3>3
    <3> QED
      BY <1>2, <1>3, <3>3, <3>4, <3>5 DEF Current, Listed
  <2> QED
    BY <1>1, <2>1, <2>2, <2>3, <2>4 DEF Requests
<1>8. ToldOK'
  <2>1. ASSUME NEW n \in reading \ {m}, NEW k \in Keys, told'[n][k] \notin {NoSub, Gone}
        PROVE  Current(n, k)'
    <3>1. told'[n][k] = told[n][k]
      BY <1>1, <1>4
    <3> QED
      BY <1>3, <1>5, <1>6, <2>1, <3>1 DEF Current
  <2> QED
    BY <1>2, <1>7, <2>1 DEF ToldOK
<1>9. PipesApart' /\ NewsOK'
  BY <1>1, <1>2 DEF SubsInv, PipesApart, NewsOK
<1>10. EndedTold'
  <2>1. pc'[m] \in {"free", "closing"} => \A k \in Keys : told'[m][k] = NoSub
    <3> SUFFICES ASSUME pc'[m] \in {"free", "closing"}
                 PROVE  \A k \in Keys : told'[m][k] = NoSub
      OBVIOUS
    <3>1. op = "disconnect"
      BY <1>2 DEF StoreInv, TypeOK, Threads
    <3>2. told'[m] = [key \in Keys |-> NoSub]
      BY <1>1, <1>2, <3>1 DEF ToldAfter
    <3> QED
      BY <3>2
  <2> QED
    BY <1>4, <2>1 DEF SubsInv, EndedTold
<1> QED
  BY <1>8, <1>9, <1>10 DEF SubsInv

LEMMA SubsStep == StoreInv /\ SubsInv /\ [Next]_vars => SubsInv'
<1> SUFFICES ASSUME StoreInv, SubsInv, [Next]_vars
             PROVE  SubsInv'
  OBVIOUS
<1>1. CASE UNCHANGED vars
  BY <1>1 DEF vars, locks, jobVars, sessionVars, SubsInv, PipesApart, EndedTold,
              NewsOK, ToldOK, Current, Due, Listed
<1>2. ASSUME NEW j \in Jobs, (\E c \in Commands : Start(j, c)) \/ JobStep(j)
      PROVE  SubsInv'
  BY <1>2, JobTellsNothing, ChangeOwesNews, NewsTold DEF JobStep
<1>3. ASSUME NEW m \in Managers, NEW p \in Pipes, OpenSession(m, p)
      PROVE  SubsInv'
  BY <1>3, OpeningTellsNothing
<1>4. ASSUME NEW m \in Managers,
             \/ \E r \in Requests : Receive(m, r)
             \/ ManagerStep(m) \/ Drain(m) \/ ClientGone(m)
      PROVE  SubsInv'
  BY <1>4, SessionTellsNothing, RequestTellsNothing DEF ManagerStep
<1> QED
  BY <1>1, <1>2, <1>3, <1>4 DEF Next

(* Between two commands every client that still reads has been told the    *)
(* value of every key it is subscribed to and that has changed since, and  *)
(* is in the key's list for the next change: descriptors are never shared, *)
(* a request runs only when no job owes news, and a job owes news of one   *)
(* key at a time, to clients of that key's list.                           *)
THEOREM StoreSubscribersUpToDate == Spec => []SubscribersUpToDate
<1>1. StoreInv /\ SubsInv => SubscribersUpToDate
  <2> SUFFICES ASSUME StoreInv, SubsInv, writer \notin Jobs,
                      NEW m \in reading, NEW k \in Keys, told[m][k] \notin {NoSub, Gone}
               PROVE  /\ Has(table, k)
                      /\ Contains(NotifPipes(table, k), pipe[m])
                      /\ told[m][k] \in {NoNews, read_pair(table, k)}
    BY DEF SubscribersUpToDate
  <2> QED
    BY NothingDue DEF Current, Listed
<1> QED
  BY <1>1, StoreInvInit, StoreInvInductive, SubsInit, SubsStep, PTL DEF Spec

=============================================================================

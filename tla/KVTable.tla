------------------------------ MODULE KVTable ------------------------------
(***************************************************************************)
(* The hash table of kvs.c as a data structure: what each of its functions *)
(* returns and how it changes the table.  No concurrency here; KVStore     *)
(* calls these operators under the table's lock.                           *)
(*                                                                         *)
(* A bucket is the sequence of its KeyNodes from the head on, the list of  *)
(* notification pipes of a node the sequence of its descriptors from the   *)
(* head on.                                                                *)
(***************************************************************************)
EXTENDS Integers, SequencesExt

CONSTANTS
  TABLE_SIZE,  (* number of buckets, 26 in kvs.h                           *)
  Keys,        (* keys used by the jobs and the clients                    *)
  Values,      (* values used by the jobs                                  *)
  Pipes,       (* descriptors of notification pipes, none of them 0        *)
  Initial,     (* the code of the first character of each key              *)
  NoValue      (* read_pair's NULL, printed as KVSERROR                    *)

Buckets == 0 .. TABLE_SIZE - 1

(* hash: 'a'..'z' and 'A'..'Z' go to 0..25, '0'..'9' to 0..9.              *)
ToLower(c) == IF c \in 65 .. 90 THEN c + 32 ELSE c

hash(key) ==
  LET firstLetter == ToLower(Initial[key])
  IN  CASE firstLetter \in 97 .. 122 -> firstLetter - 97
        [] firstLetter \in 48 .. 57  -> firstLetter - 48
        [] OTHER                     -> -1

(* The functions index the table with hash(key) unchecked: keys for which  *)
(* it is -1 are outside this model.                                        *)
ASSUME TableAssumption ==
  /\ TABLE_SIZE \in Nat \ {0}
  /\ Initial \in [Keys -> 0 .. 127]
  /\ \A k \in Keys : hash(k) \in Buckets
  /\ NoValue \notin Values

KeyNode == [key : Keys, value : Values, notif_pipes : Seq(Pipes)]
HashTable == [Buckets -> Seq(KeyNode)]

create_hash_table == [b \in Buckets |-> << >>]

(* The place of key in its bucket, 0 when it is not there: the while loop  *)
(* that write_pair, read_pair, delete_pair and the execute_ functions      *)
(* share.                                                                  *)
Find(ht, key) == SelectInSeq(ht[hash(key)], LAMBDA node : node.key = key)

Has(ht, key) == Find(ht, key) # 0

Node(ht, key) == ht[hash(key)][Find(ht, key)]

read_pair(ht, key) == IF Has(ht, key) THEN Node(ht, key).value ELSE NoValue

(* The list that write_pair and delete_pair hand to notify_all_pipes; a    *)
(* key that was not in the table has none.                                 *)
NotifPipes(ht, key) ==
  IF Has(ht, key) THEN Node(ht, key).notif_pipes ELSE << >>

NewNode(key, val) == [key |-> key, value |-> val, notif_pipes |-> << >>]

(* Faulty variants of the operators below. *)

(* A new pair is linked in without looking for the key first. *)
WritePairAppends(ht, key, val) ==
  [ht EXCEPT ![hash(key)] = Cons(NewNode(key, val), @)]

(* An overwritten pair gets a fresh node. *)
WritePairForgets(ht, key, val) ==
  IF Has(ht, key)
  THEN [ht EXCEPT ![hash(key)][Find(ht, key)] = NewNode(key, val)]
  ELSE [ht EXCEPT ![hash(key)] = Cons(NewNode(key, val), @)]

write_pair(ht, key, val) ==
  IF Has(ht, key)
  THEN [ht EXCEPT ![hash(key)][Find(ht, key)].value = val]
  ELSE [ht EXCEPT ![hash(key)] = Cons(NewNode(key, val), @)]

(* delete_pair returns 1 and changes nothing when the key is not there. *)
delete_pair(ht, key) ==
  IF Has(ht, key)
  THEN [ht EXCEPT ![hash(key)] = RemoveAt(@, Find(ht, key))]
  ELSE ht

(* What the loops of kvs_show and of a backup print of bucket b, without   *)
(* its order.                                                              *)
Listing(ht, b) == {<<ht[b][i].key, ht[b][i].value>> : i \in DOMAIN ht[b]}

-----------------------------------------------------------------------------
(* remove_notif_pipe returns 0 exactly when the pipe is in the list, and   *)
(* takes out its first occurrence.                                         *)
remove_notif_pipe(list, pipe) == RemoveFirst(list, pipe)

(* The execute_ functions return their code, 0 for success, with the table *)
(* they leave behind.                                                      *)
Returns(code, ht) == [code |-> code, ht |-> ht]

execute_subscribe(ht, key, pipe) ==
  IF Has(ht, key)
  THEN Returns(0,
         [ht EXCEPT ![hash(key)][Find(ht, key)].notif_pipes = Cons(pipe, @)])
  ELSE Returns(1, ht)

execute_unsubscribe(ht, key, pipe) ==
  IF Has(ht, key) /\ Contains(Node(ht, key).notif_pipes, pipe)
  THEN Returns(0,
         [ht EXCEPT ![hash(key)][Find(ht, key)].notif_pipes =
                       remove_notif_pipe(@, pipe)])
  ELSE Returns(1, ht)

(* execute_disconnect looks at the first node of every bucket, in order:   *)
(* it removes the pipe there, ends with success at the first empty bucket  *)
(* and with failure at the first node that does not have the pipe.  stop   *)
(* is the bucket where it ends; what it removed before stays removed.      *)
execute_disconnect(ht, pipe) ==
  LET ends(b) == b = TABLE_SIZE \/ ht[b] = << >>
      lacks(b) == ~Contains(ht[b][1].notif_pipes, pipe)
      stop == CHOOSE b \in 0 .. TABLE_SIZE :
                /\ ends(b) \/ lacks(b)
                /\ \A c \in 0 .. b - 1 : ~ends(c) /\ ~lacks(c)
  IN  Returns(IF ends(stop) THEN 0 ELSE 1,
        [b \in Buckets |->
           IF b < stop
           THEN [ht[b] EXCEPT ![1].notif_pipes = remove_notif_pipe(@, pipe)]
           ELSE ht[b]])

(* The pipe is in some list of the table. *)
Mentions(ht, pipe) ==
  \E b \in Buckets : \E i \in DOMAIN ht[b] :
    Contains(ht[b][i].notif_pipes, pipe)

(* Every node is in the bucket of its key and no key occurs twice. *)
WellFormed(ht) ==
  \A b \in Buckets : \A i \in DOMAIN ht[b] :
    /\ hash(ht[b][i].key) = b
    /\ \A j \in DOMAIN ht[b] : ht[b][j].key = ht[b][i].key => i = j
=============================================================================

----------------------------- MODULE MCKVStore -----------------------------
(***************************************************************************)
(* Instances of KVStore for TLC.  The keys "a" and "A" share bucket 0 with *)
(* "0"; "b" is in bucket 1; bucket 2 stays empty.                          *)
(***************************************************************************)
EXTENDS KVStore, TLC

MCKeys == {"a", "0", "b"}
MCInitial == [k \in MCKeys |->
                CASE k = "a" -> 97 [] k = "0" -> 48 [] k = "b" -> 98]
MCSmallKeys == {"a", "b"}
MCSmallInitial == [k \in MCSmallKeys |-> IF k = "a" THEN 97 ELSE 98]

C(op, args) == [op |-> op, args |-> args]

(* For subscriptions: single writes of two values, a deletion. *)
SubscriptionCommands ==
  {C("write", <<<<k, v>>>>) : k \in Keys, v \in Values}
    \cup {C("delete", <<"a">>)}

(* For atomicity and liveness: batches that name a key twice, with two     *)
(* notifications for one subscriber, and every reader.                     *)
BatchCommands ==
  {C("write", <<<<"a", "w">>, <<"0", "w">>>>),
   C("write", <<<<"b", "w">>, <<"a", "v">>, <<"b", "v">>>>),
   C("delete", <<"a", "0", "a">>), C("read", <<"0", "b">>),
   C("show", << >>), C("backup", << >>)}

Symmetry == Permutations(Jobs) \cup Permutations(Managers)
              \cup Permutations(Pipes) \cup Permutations(Values)
=============================================================================

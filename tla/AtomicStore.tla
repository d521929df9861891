---------------------------- MODULE AtomicStore ----------------------------
(***************************************************************************)
(* What the store promises the jobs: every command takes effect on all its *)
(* pairs or keys at once, at some moment between its start and its end.    *)
(* KVStore, which models the hash table and its lock, implements it.       *)
(***************************************************************************)
EXTENDS Naturals, Sequences

CONSTANTS
  Jobs,      (* job threads                                                *)
  Commands,  (* the commands they run                                      *)
  Keys, Values,
  NoValue,   (* a key without a value                                      *)
  NoCommand  (* a job between two commands                                 *)

VARIABLES
  store,     (* the value of every key, or NoValue                         *)
  call,      (* the command each job is running, or NoCommand              *)
  done,      (* the jobs whose command has taken effect                    *)
  answer     (* what a command that has taken effect answers               *)

vars == <<store, call, done, answer>>

(* WRITE: the last pair of the batch that names a key gives its value. *)
Written(s, pairs) ==
  [k \in Keys |->
     LET at == {i \in DOMAIN pairs : pairs[i][1] = k}
     IN  IF at = {} THEN s[k]
         ELSE pairs[CHOOSE i \in at : \A j \in at : j <= i][2]]

(* DELETE: the keys named are gone; a key is reported missing when it is   *)
(* not there or was named before.                                          *)
Deleted(s, keys) ==
  [k \in Keys |-> IF \E i \in DOMAIN keys : keys[i] = k THEN NoValue ELSE s[k]]

Missing(s, keys, i) ==
  s[keys[i]] = NoValue \/ \E h \in 1 .. i - 1 : keys[h] = keys[i]

Effect(s, c) ==
  CASE c.op = "write"  -> Written(s, c.args)
    [] c.op = "delete" -> Deleted(s, c.args)
    [] OTHER           -> s

(* Answers are sets of outcomes: what is printed for each key given, or    *)
(* for each key there is.                                                  *)
Answer(s, c) ==
  CASE c.op = "write"  -> {}
    [] c.op = "read"   -> {<<i, s[c.args[i]]>> : i \in DOMAIN c.args}
    [] c.op = "delete" -> {<<i, ~Missing(s, c.args, i)>> : i \in DOMAIN c.args}
    [] OTHER           -> {<<k, s[k]>> : k \in {k \in Keys : s[k] # NoValue}}

Init ==
  /\ store = [k \in Keys |-> NoValue]
  /\ call = [j \in Jobs |-> NoCommand]
  /\ done = {}
  /\ answer = [j \in Jobs |-> {}]

Call(j, c) ==
  /\ call[j] = NoCommand
  /\ call' = [call EXCEPT ![j] = c]
  /\ UNCHANGED <<store, done, answer>>

Perform(j) ==
  /\ call[j] # NoCommand
  /\ j \notin done
  /\ store' = Effect(store, call[j])
  /\ answer' = [answer EXCEPT ![j] = Answer(store, call[j])]
  /\ done' = done \cup {j}
  /\ UNCHANGED call

Return(j) ==
  /\ j \in done
  /\ done' = done \ {j}
  /\ call' = [call EXCEPT ![j] = NoCommand]
  /\ answer' = [answer EXCEPT ![j] = {}]
  /\ UNCHANGED store

Next ==
  \E j \in Jobs :
    \/ \E c \in Commands : Call(j, c)
    \/ Perform(j)
    \/ Return(j)

Spec == Init /\ [][Next]_vars
=============================================================================

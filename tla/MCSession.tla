----------------------------- MODULE MCSession -----------------------------
(* Instances of Session for TLC: every client process has an id of its     *)
(* own, its name, or some are started with the same.                       *)
EXTENDS Session, TLC

CONSTANTS c1, c2

OwnId == [c \in Clients |-> c]
OneId == [c \in Clients |-> c1]

\* x has the id of y.
SharedId(x, y) == [OwnId EXCEPT ![x] = y]

MCIdMaps == {OwnId, SharedId(c1, c2), SharedId(c2, c1)}
MCOwnOrOneId == {OwnId, OneId}

Symmetry == Permutations(Managers) \cup Permutations(Clients)

(* Spec reaches this state: the client c has been killed before it asked   *)
(* for a session (m is NoClient), or m has taken its request and waits in  *)
(* open for the other end of its answer pipe, for ever.                    *)
Killed(c, m) ==
  /\ arrived = (IF m \in Managers THEN {c} ELSE {}) /\ queue = << >>
  /\ session = [n \in Managers |-> IF n = m THEN c ELSE NoClient]
  /\ node = [i \in Ids |-> IF m \in Managers /\ i = IdOf[c] THEN [k \in Kinds |-> c] ELSE NoPipes]
  /\ pc = [p \in Clients \cup Managers |->
             CASE p = c -> "dead"
               [] p = m -> "opening"
               [] p \in Clients \ {c} -> "off"
               [] p \in Managers \ {m} -> "idle"]
  /\ step = [p \in Clients \cup Managers |-> 1]
  /\ met = {} /\ end = [x \in Clients |-> NoPipes]
  /\ fd = [n \in Managers |-> [k \in Kinds |-> IF n = m /\ k = "resp" THEN 1 ELSE NoFd]]
  /\ desc = [d \in Fds |-> IF m \in Managers /\ d = 1
                            THEN [owner |-> m, kind |-> "resp", of |-> c, ready |-> FALSE]
                            ELSE Free]
  /\ reading = [n \in Managers |-> NoClient] /\ from = reading /\ keeper = {}
  /\ req = [x \in Clients |-> << >>] /\ resp = req /\ outcome = req
  /\ op = [p \in Clients \cup Managers |-> "none"]
  /\ asked = [x \in Clients |-> 0] /\ deaths = 1
  /\ up = TRUE /\ clobbered = FALSE

(* Sessions one after the other under one id, or, with a manager lost,     *)
(* side by side.                                                           *)
MCInit ==
  \/ IdOf = OneId /\ Killed(c1, NoClient)
  \/ IdOf = OwnId /\ Killed(c1, CHOOSE m \in Managers : TRUE)

MCFairSpec == MCInit /\ [][Next]_vars /\ Fairness
=============================================================================

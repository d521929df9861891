-------------------------- MODULE RegistrationQueue --------------------------
(***************************************************************************)
(* What the server promises its clients about registration: connection     *)
(* requests are served in the order in which they reached the registration *)
(* FIFO, each by exactly one manager thread, each manager serving one at a *)
(* time.  RegistrationBuffer, which models the threads, implements it.     *)
(***************************************************************************)
EXTENDS Sequences

CONSTANTS
  Requests,   (* connection requests, one per client                       *)
  Managers,   (* manager threads                                           *)
  NoRequest   (* a manager without a session                               *)

VARIABLES
  arrived,    (* requests ever written to the registration FIFO            *)
  queue,      (* those that no manager has taken yet, oldest first         *)
  session     (* the request each manager is serving, or NoRequest         *)

vars == <<arrived, queue, session>>

Init ==
  /\ arrived = {}
  /\ queue = << >>
  /\ session = [m \in Managers |-> NoRequest]

Arrive(r) ==
  /\ r \notin arrived
  /\ arrived' = arrived \cup {r}
  /\ queue' = Append(queue, r)
  /\ UNCHANGED session

Take(m) ==
  /\ session[m] = NoRequest
  /\ queue # << >>
  /\ session' = [session EXCEPT ![m] = Head(queue)]
  /\ queue' = Tail(queue)
  /\ UNCHANGED arrived

End(m) ==
  /\ session[m] # NoRequest
  /\ session' = [session EXCEPT ![m] = NoRequest]
  /\ UNCHANGED <<arrived, queue>>

Next ==
  \/ \E r \in Requests : Arrive(r)
  \/ \E m \in Managers : Take(m) \/ End(m)

Spec == Init /\ [][Next]_vars
=============================================================================

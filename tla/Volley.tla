------------------------------- MODULE Volley -------------------------------
(***************************************************************************)
(* What a ping pong benchmark promises whatever it volleys through (a      *)
(* gate, a condition variable, a note, a channel): the main goroutine      *)
(* serves, the partner answers, strictly in turn, a fixed number of times, *)
(* and then the partner leaves.  A serve that is lost, answered twice or   *)
(* overtaken by the next one is not a behaviour of this specification.     *)
(***************************************************************************)
EXTENDS Naturals

CONSTANT Total       \* the volleys of one run

VARIABLES served,    \* the serves of the main goroutine so far
          answered,  \* the answers of the partner so far
          gone       \* has the partner left

volley == <<served, answered, gone>>

Init ==
  /\ served = 0
  /\ answered = 0
  /\ gone = FALSE

Serve ==
  /\ served = answered
  /\ served < Total
  /\ served' = served + 1
  /\ UNCHANGED <<answered, gone>>

Answer ==
  /\ answered < served
  /\ answered' = answered + 1
  /\ UNCHANGED <<served, gone>>

Leave ==
  /\ answered = Total
  /\ gone' = TRUE
  /\ UNCHANGED <<served, answered>>

Next == Serve \/ Answer \/ Leave

Spec == Init /\ [][Next]_volley
=============================================================================

------------------------------- MODULE Budget -------------------------------
(***************************************************************************)
(* What a round of the traffic split promises, without strategies, states  *)
(* or ramps: 100% is handed out to N takers.  Each is given at most once a *)
(* part of what is left, nothing is taken back, and closing the round gives*)
(* the rest to one of them.  So what was given and what is left are always *)
(* 100% together, and a closed round has nothing left.                     *)
(***************************************************************************)
EXTENDS Integers

CONSTANT N   \* the number of takers

VARIABLES
  given,  \* taker -> its percentage
  left,   \* what nobody has yet
  open    \* the round goes on

vars == <<given, left, open>>

Init == given = [n \in 1 .. N |-> 0] /\ left = 100 /\ open = TRUE

Give(n) ==
  /\ open /\ given[n] = 0
  /\ \E part \in 0 .. left :
       given' = [given EXCEPT ![n] = part] /\ left' = left - part
  /\ open' = open

Close(n) ==
  /\ open
  /\ given' = [given EXCEPT ![n] = @ + left]
  /\ left' = 0
  /\ open' = FALSE

Next == \E n \in 1 .. N : Give(n) \/ Close(n)

Spec == Init /\ [][Next]_vars
=============================================================================

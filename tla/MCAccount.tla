------------------------------- MODULE MCAccount -------------------------------
(***************************************************************************)
(* A small instance of Account: two requests at a time, three in all, and    *)
(* the periodic checks of two servers, one statement of which may fail.      *)
(***************************************************************************)
EXTENDS Account

CONSTANT First  \* the request that meets the checks

\* What is explored: requests that overtake each other while no check runs (only
\* the checks look at the policy), and the checks of two servers against two
\* requests made one after the other.  The checks write no column that UsersSound
\* is about.
Explored ==
  \/ /\ \A k \in Checks : sweep[k].stage = "idle"
     /\ policy = "disable" /\ faults = 0 /\ told = {}
  \/ count <= 2 /\ \A r \in Requests \ {First} : req[r].stage = "idle"

=============================================================================

----------------------------- MODULE MCGateway ------------------------------
(***************************************************************************)
(* A small instance of Gateway: three instances, one connection, two groups *)
(* of hosts with pages of one host, one of them with a long name.          *)
(***************************************************************************)
EXTENDS Gateway

Base == [known |-> TRUE, active |-> TRUE, method |-> "publickey", key |-> "k1",
         twoFactor |-> TRUE]
MCUserForms ==
  {Base, [Base EXCEPT !.twoFactor = FALSE], [Base EXCEPT !.active = FALSE],
   [Base EXCEPT !.method = "password", !.key = ""]}

MCCatalog ==
  [admin |-> FALSE, mine |-> {1}, direct |-> {1},
   members |-> [g \in HostGroups |-> IF g = 1 THEN {1, 2} ELSE {}]]

\* What is explored: connections to an instance that is alone, and the menu of
\* a user as Base, from the first login on.  The parts share no more than that:
\* a connection needs an instance that is up, and a menu a session.
Explored ==
  /\ (\E s \in Sessions : sess[s].at # "idle") =>
       starts = 1 /\ startNo["i1"] = 1 /\ hostKeyRow = ShippedKey
  /\ (\E s \in Sessions : menu[s].at \notin {"closed", "load"}) =>
       user = Base /\ ~globalMFA
  /\ catalog = MCCatalog \/ \E s \in Sessions : menu[s].at # "closed"

=============================================================================

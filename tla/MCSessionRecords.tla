--------------------------- MODULE MCSessionRecords ---------------------------
(***************************************************************************)
(* A small instance of SessionRecords: one session of a proxy and one of    *)
(* the server, two workers.                                                 *)
(***************************************************************************)
EXTENDS SessionRecords

\* What is explored: the session of the proxy while the server has none, and the
\* other way round.  Sessions have rows of their own; they meet in the list of
\* recordings only, which shows each with its own commands.
Explored ==
  \/ \A s \in ProxySessions : run[s] = "idle"
  \/ \A s \in ServerSessions : run[s] = "idle"

=============================================================================

----------------------------- MODULE SessionLife -----------------------------
(***************************************************************************)
(* What the audit of terminal sessions promises, whoever runs them: each   *)
(* session is tried, opened and ended once, its login and recording rows    *)
(* follow it, and no row is taken back.  The SSH gateway (HostSession) and  *)
(* the web terminal (WebSession) both implement it.                         *)
(*                                                                         *)
(* A database statement may fail, which is counted in lost; its row then    *)
(* stays as it was.                                                         *)
(***************************************************************************)
EXTENDS Naturals

CONSTANT Sessions

VARIABLES
  life,       \* of each session: "idle", "connecting", "opening" (its shell runs,
              \* and its rows are being opened), "active" or "over"
  login,      \* the status of its login row
  recording,  \* the status of its recording row
  lost        \* statements that have failed

vars == <<life, login, recording, lost>>

Init ==
  /\ \A s \in Sessions : life[s] = "idle" /\ login[s] = "none" /\ recording[s] = "none"
  /\ lost = 0

\* The session goes from one stage to another.
Goes(s, from, to) == life[s] = from /\ life'[s] = to

\* A row gets a status, unless a statement fails.
Gets(row, after, status) ==
  /\ after \in {row, status}
  /\ lost' = lost => after = status

\* The same for a row that may be missing because its INSERT failed.
GetsIfThere(row, after, status) ==
  IF row = "none" THEN after = row ELSE Gets(row, after, status)

\* The session is given up before anything was tried.
Refuse(s) ==
  /\ Goes(s, "idle", "over")
  /\ login'[s] = login[s] /\ recording'[s] = recording[s]

\* A login is on record before the connection is tried.
Begin(s) ==
  /\ Goes(s, "idle", "connecting")
  /\ Gets(login[s], login'[s], "connecting")
  /\ recording'[s] = recording[s]

\* Only a session that never was active ends as failed.
Fail(s) ==
  /\ Goes(s, "connecting", "over")
  /\ GetsIfThere(login[s], login'[s], "failed")
  /\ recording'[s] = recording[s]

\* The recording may be opened ahead of the login.
Record(s) ==
  /\ Goes(s, "connecting", "opening")
  /\ Gets(recording[s], recording'[s], "active")
  /\ login'[s] = login[s]

Activate(s) ==
  /\ Goes(s, "opening", "active")
  /\ GetsIfThere(login[s], login'[s], "active")
  /\ recording'[s] = recording[s]

\* Or both are opened at once.
Open(s) ==
  /\ Goes(s, "connecting", "active")
  /\ GetsIfThere(login[s], login'[s], "active")
  /\ Gets(recording[s], recording'[s], "active")

\* The recording may be closed ahead of the login.
Close(s) ==
  /\ Goes(s, "active", "active")
  /\ GetsIfThere(recording[s], recording'[s], "closed")
  /\ login'[s] = login[s]

\* What the end of an active session may do to a row that is there: complete it.
\* Both rows are completed if no statement has ever failed.
Settles(s) ==
  /\ recording'[s] \in {recording[s], "closed"} /\ (recording[s] = "none" => recording'[s] = "none")
  /\ login'[s] \in {login[s], "completed"} /\ (login[s] = "none" => login'[s] = "none")
  /\ lost' = 0 => login'[s] = "completed" /\ recording'[s] = "closed"

End(s) == Goes(s, "active", "over") /\ Settles(s)

\* The end is written again, later, with the recording's text; what was lost
\* the first time may be made up for.
EndAgain(s) ==
  /\ Goes(s, "over", "over")
  /\ recording[s] # "none"
  /\ Settles(s)

Step(s) ==
  \/ Refuse(s) \/ Begin(s) \/ Fail(s) \/ Record(s) \/ Activate(s) \/ Open(s)
  \/ Close(s)
  \/ End(s) \/ EndAgain(s)

Rests(s) ==
  life'[s] = life[s] /\ login'[s] = login[s] /\ recording'[s] = recording[s]

\* One session takes a step, or a statement fails that changes no row.
Next ==
  /\ lost' >= lost
  /\ \/ \E s \in Sessions : Step(s) /\ \A t \in Sessions \ {s} : Rests(t)
     \/ \A s \in Sessions : Rests(s)

Spec == Init /\ [][Next]_vars
=============================================================================

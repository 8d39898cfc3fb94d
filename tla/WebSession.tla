------------------------------ MODULE WebSession ------------------------------
(***************************************************************************)
(* One web terminal connection (api/handler/connection_handler.go): the     *)
(* checks of HandleConnection, the direct mode with its login and recording *)
(* rows, the countdown goroutine and the three copying goroutines           *)
(* (handleDirectConnection, proxySSHConnectionWithTimeout,                  *)
(* proxySSHConnection), and the proxy mode (handleProxyConnection).         *)
(*                                                                         *)
(* Bytes are abstracted to chunks.  The recorder is reduced to whether it   *)
(* is closed: its queue is in HostSession, the stdin copier's command       *)
(* buffer in CommandFilter.  A WebSocket allows one writer at a time: a     *)
(* write begins and ends in two steps, and a write that begins during       *)
(* another may panic, which nothing recovers in a goroutine.                *)
(***************************************************************************)
EXTENDS Naturals, FiniteSets

CONSTANTS
  ErrCap,     \* capacity of errChan (2 in the code)
  MaxChunks,  \* chunks copied in a session (bound)
  MaxFaults   \* failing database writes (bound)

ASSUME WebSessionAssumption ==
  ErrCap \in Nat /\ MaxChunks \in Nat /\ MaxFaults \in Nat

VARIABLES
  pc,         \* where the request's goroutine is
  mode,       \* the routing decision
  client,     \* the browser's WebSocket
  shell,      \* the target's shell, or the proxy's WebSocket
  pump,       \* the copying goroutines
  errs,       \* errors in errChan
  success,    \* connectionSuccess; stopCountdown is closed with it
  countdown,  \* the countdown goroutine
  shown,      \* countdownShown
  rec,        \* the Recorder
  left,       \* whether the copiers had ended when the bridge was left
  login,      \* login_records.status
  recording,  \* session_recordings.status
  writing,    \* goroutines inside a write to the browser
  talk,       \* goroutines other than the stdout copier that have written
  crash,      \* what killed the process
  chunks,     \* chunks copied so far
  faults

rows   == <<login, recording>>
socket == <<writing, talk, crash>>
timer  == <<countdown, shown>>
vars   == <<pc, mode, client, shell, pump, errs, success, countdown, shown,
            rec, left, login, recording, writing, talk, crash, chunks, faults>>

Streams == {"out", "err"}
Pumps   == {"in"} \cup Streams
Writers == {"handler", "countdown"} \cup Pumps

PumpState == {"off", "read", "checked", "recorded", "stdin", "write", "post",
              "done"}

ControlType ==
  /\ pc \in {"request", "direct", "dial", "rows", "activate", "bridge",
             "report", "reporting", "close", "update", "complete", "proxy", "end"}
  /\ mode \in {"none", "direct", "proxy"}
  /\ client \in {"open", "closed"}
  /\ shell \in {"none", "up", "down"}
  /\ success \in {"no", "yes"}
  /\ left \in {"no", "early", "late"}

GoroutineType ==
  /\ pump \in [Pumps -> PumpState]
  /\ errs \in 0 .. ErrCap
  /\ countdown \in {"off", "tick", "write", "clear", "done"}
  /\ shown \in {"no", "yes"}
  /\ rec \in {"none", "open", "closed"}

RowsType ==
  /\ login \in {"none", "connecting", "active", "completed", "failed"}
  /\ recording \in {"none", "active", "closed"}
  /\ faults \in Nat

SocketType ==
  /\ writing \subseteq Writers
  /\ talk \subseteq Writers
  /\ crash \in {"no", "recorder", "socket"}
  /\ chunks \in Nat

TypeOK == ControlType /\ GoroutineType /\ RowsType /\ SocketType

Init ==
  /\ pc = "request" /\ mode = "none"
  /\ client = "open" /\ shell = "none"
  /\ pump = [p \in Pumps |-> "off"]
  /\ errs = 0
  /\ success = "no"
  /\ countdown = "off" /\ shown = "no"
  /\ rec = "none" /\ left = "no"
  /\ login = "none" /\ recording = "none"
  /\ writing = {} /\ talk = {} /\ crash = "no"
  /\ chunks = 0 /\ faults = 0

Alive == crash = "no"

\* A database statement succeeds (0) or, while the budget lasts, fails (1).
Statement(failed) ==
  /\ faults + failed <= MaxFaults
  /\ faults' = faults + failed

\* A goroutine begins to write to the browser.
BeginWrite(g) ==
  /\ writing' = writing \cup {g}
  /\ talk' = talk \cup ({g} \ {"out"})
  /\ crash' \in IF writing = {} THEN {"no"} ELSE {"no", "socket"}

EndWrite(g) ==
  /\ writing' = writing \ {g}
  /\ UNCHANGED <<talk, crash>>

-----------------------------------------------------------------------------
(* The request's goroutine.                                                 *)

\* HandleConnection: no or an invalid token, no permission, several system
\* users to choose from, no route, no upgrade, or no such host.
Refuse ==
  /\ Alive /\ pc \in {"request", "direct", "proxy"} /\ shell = "none"
  /\ pc' = "end"
  /\ client' = "closed"
  /\ UNCHANGED <<mode, shell, pump, errs, success, timer, rec, left, rows,
                 socket, chunks, faults>>

\* The router decides and the connection is upgraded.
Route(m) ==
  /\ Alive /\ pc = "request"
  /\ mode' = m
  /\ pc' = m
  /\ UNCHANGED <<client, shell, pump, errs, success, timer, rec, left, rows,
                 socket, chunks, faults>>

\* The login record is written before the connection is tried; its error is
\* only logged.  The recorder and the countdown start.
CreateLogin ==
  /\ Alive /\ pc = "direct"
  /\ \E e \in 0 .. 1 :
       Statement(e) /\ login' = IF e = 0 THEN "connecting" ELSE login
  /\ rec' = "open"
  /\ countdown' = "tick"
  /\ pc' = "dial"
  /\ UNCHANGED <<mode, client, shell, pump, errs, success, shown, left,
                 recording, socket, chunks>>

\* No credentials, or NewSSHClient, NewSession, RequestPty or Shell failed.
DialFails ==
  /\ Alive /\ pc = "dial"
  /\ pc' = "report"
  /\ UNCHANGED <<mode, client, shell, pump, errs, success, timer, rec, left,
                 rows, socket, chunks, faults>>

\* Mistake: success is only noted when the connection has ended well.
ShellStartsUnmarked ==
  /\ Alive /\ pc = "dial"
  /\ shell' = "up"
  /\ pc' = "rows"
  /\ UNCHANGED <<mode, client, pump, errs, success, timer, rec, left, rows,
                 socket, chunks, faults>>

\* The shell runs: stopCountdown is closed and the connection is marked
\* successful.
ShellStarts ==
  /\ Alive /\ pc = "dial"
  /\ shell' = "up"
  /\ success' = "yes"
  /\ pc' = "rows"
  /\ UNCHANGED <<mode, client, pump, errs, timer, rec, left, rows, socket,
                 chunks, faults>>

\* The recording row is created; an error is only logged.
OpenRecording ==
  /\ Alive /\ pc = "rows"
  /\ \E e \in 0 .. 1 :
       Statement(e) /\ recording' = IF e = 0 THEN "active" ELSE recording
  /\ pc' = "activate"
  /\ UNCHANGED <<mode, client, shell, pump, errs, success, timer, rec, left,
                 login, socket, chunks>>

\* Mistake: the login record is left as it is.
ActivateNothing ==
  /\ Alive /\ pc = "activate"
  /\ pump' = [p \in Pumps |-> "read"]
  /\ pc' = "bridge"
  /\ UNCHANGED <<mode, client, shell, errs, success, timer, rec, left, rows,
                 socket, chunks, faults>>

\* Then the login record becomes active, and the copiers start.
ActivateLogin ==
  /\ Alive /\ pc = "activate"
  /\ \E e \in 0 .. 1 :
       /\ Statement(e)
       /\ login' = IF e = 0 /\ login # "none" THEN "active" ELSE login
  /\ pump' = [p \in Pumps |-> "read"]
  /\ pc' = "bridge"
  /\ UNCHANGED <<mode, client, shell, errs, success, timer, rec, left,
                 recording, socket, chunks>>

\* handleProxyConnection reaches the proxy and starts two copiers.
ConnectProxy ==
  /\ Alive /\ pc = "proxy" /\ shell = "none"
  /\ shell' = "up"
  /\ pump' = [pump EXCEPT !["in"] = "read", !["out"] = "read"]
  /\ pc' = "bridge"
  /\ UNCHANGED <<mode, client, errs, success, timer, rec, left, rows, socket,
                 chunks, faults>>

\* Mistake: leaving without an error to receive.
LeaveAnyway ==
  /\ Alive /\ pc = "bridge"
  /\ errs' = errs - 1
  /\ shell' = "down"
  /\ left' = "early"
  /\ pc' = IF mode = "direct" THEN "report" ELSE "end"
  /\ client' = IF mode = "direct" THEN client ELSE "closed"
  /\ UNCHANGED <<mode, pump, success, timer, rec, rows, socket, chunks, faults>>

\* <-errChan returns; the deferred calls close the target's session.
Leave ==
  /\ Alive /\ pc = "bridge" /\ errs > 0
  /\ errs' = errs - 1
  /\ shell' = "down"
  /\ left' = IF \A p \in Pumps : pump[p] = "done" THEN "late" ELSE "early"
  /\ \/ /\ mode = "direct"
        /\ pc' = "report"
        /\ UNCHANGED client
     \/ /\ mode = "proxy"
        /\ pc' = "end"
        /\ client' = "closed"
  /\ UNCHANGED <<mode, pump, success, timer, rec, rows, socket, chunks, faults>>

\* The error message for the browser.
Report ==
  /\ Alive
  /\ \/ pc = "report" /\ BeginWrite("handler") /\ pc' = "reporting"
     \/ pc = "reporting" /\ EndWrite("handler") /\ pc' = "close"
  /\ UNCHANGED <<mode, client, shell, pump, errs, success, timer, rec, left,
                 rows, chunks, faults>>

\* The deferred function: the recorder is closed and exported.
CloseRecorder ==
  /\ Alive /\ pc = "close"
  /\ rec' = "closed"
  /\ pc' = "update"
  /\ UNCHANGED <<mode, client, shell, pump, errs, success, timer, left, rows,
                 socket, chunks, faults>>

\* Mistake: the login record is completed first.
UpdateLoginFirst ==
  /\ Alive /\ pc = "update"
  /\ \E e \in 0 .. 1 :
       /\ Statement(e)
       /\ login' = IF e = 1 \/ login = "none" THEN login
                   ELSE IF success = "yes" THEN "completed" ELSE "failed"
  /\ pc' = "complete"
  /\ UNCHANGED <<mode, client, shell, pump, errs, success, timer, rec, left,
                 recording, socket, chunks>>

\* After a success the recording row is closed first; after a failure there
\* is none.
UpdateRecording ==
  /\ Alive /\ pc = "update"
  /\ \/ /\ success = "yes"
        /\ \E e \in 0 .. 1 :
             /\ Statement(e)
             /\ recording' = IF e = 0 /\ recording # "none" THEN "closed"
                                                          ELSE recording
     \/ /\ success = "no"
        /\ UNCHANGED <<recording, faults>>
  /\ pc' = "complete"
  /\ UNCHANGED <<mode, client, shell, pump, errs, success, timer, rec, left,
                 login, socket, chunks>>

\* Then the login record is completed or marked failed, and the WebSocket is
\* closed.
UpdateLogin ==
  /\ Alive /\ pc = "complete"
  /\ \E e \in 0 .. 1 :
       /\ Statement(e)
       /\ login' = IF e = 1 \/ login = "none" THEN login
                   ELSE IF success = "yes" THEN "completed" ELSE "failed"
  /\ pc' = "end"
  /\ client' = "closed"
  /\ UNCHANGED <<mode, shell, pump, errs, success, timer, rec, left,
                 recording, socket, chunks>>

-----------------------------------------------------------------------------
(* The goroutines.                                                          *)

Move(p, s) == pump' = [pump EXCEPT ![p] = s]

\* A chunk arrives: from the browser, or from a stream, which may still hold
\* some after the shell has gone.  In direct mode the recorder's closed flag
\* is tested without a lock; a message of the browser that is no input is not
\* recorded.
Chunk(p) ==
  /\ Alive /\ pump[p] = "read" /\ chunks < MaxChunks
  /\ p = "in" => client = "open"
  /\ chunks' = chunks + 1
  /\ \/ mode = "direct" /\ rec = "open" /\ Move(p, "checked")
     \/ (p = "in" \/ mode = "proxy" \/ rec = "closed") /\ Move(p, "recorded")
  /\ UNCHANGED <<pc, mode, client, shell, errs, success, timer, rec, left,
                 rows, socket, faults>>

\* The event is sent to the recorder's channel: a panic if it was closed in
\* between.
RecordSend(p) ==
  /\ Alive /\ pump[p] = "checked"
  /\ Move(p, "recorded")
  /\ crash' = IF rec = "closed" THEN "recorder" ELSE crash
  /\ UNCHANGED <<pc, mode, client, shell, errs, success, timer, rec, left,
                 rows, writing, talk, chunks, faults>>

\* Mistake: the write runs in a goroutine of its own.
WriteOutAsync(p) ==
  /\ Alive /\ p \in Streams /\ pump[p] = "recorded"
  /\ Move(p, "read")
  /\ BeginWrite(p)
  /\ UNCHANGED <<pc, mode, client, shell, errs, success, timer, rec, left,
                 rows, chunks, faults>>

\* A stream's chunk is written to the browser.
WriteOut(p) ==
  /\ Alive /\ p \in Streams /\ pump[p] = "recorded"
  /\ Move(p, "write")
  /\ BeginWrite(p)
  /\ UNCHANGED <<pc, mode, client, shell, errs, success, timer, rec, left,
                 rows, chunks, faults>>

\* A message goes to the target or the proxy: a write that may block, as it has
\* no deadline.  In direct mode a message that is no input is not written.
ForwardIn ==
  /\ Alive /\ pump["in"] = "recorded"
  /\ \/ Move("in", "stdin")
     \/ mode = "direct" /\ Move("in", "read")
  /\ UNCHANGED <<pc, mode, client, shell, errs, success, timer, rec, left,
                 rows, socket, chunks, faults>>

\* Mistake: a failed write ends the stdin copier.
StdinWrittenOrGone ==
  /\ Alive /\ pump["in"] = "stdin"
  /\ IF shell = "down" THEN Move("in", "done") ELSE Move("in", "read")
  /\ UNCHANGED <<pc, mode, client, shell, errs, success, timer, rec, left,
                 rows, socket, chunks, faults>>

\* The write returns.  In direct mode its error is ignored, and a blocked
\* command, now erased from the target's line, is answered to the browser; in
\* proxy mode the error is posted.
StdinWritten ==
  /\ Alive /\ pump["in"] = "stdin"
  /\ \/ Move("in", "read") /\ UNCHANGED socket
     \/ mode = "direct" /\ Move("in", "write") /\ BeginWrite("in")
     \/ mode = "proxy" /\ shell = "down" /\ Move("in", "post")
        /\ UNCHANGED socket
  /\ UNCHANGED <<pc, mode, client, shell, errs, success, timer, rec, left,
                 rows, chunks, faults>>

\* A failed write to the browser is an error to post in proxy mode only.
Written(p) ==
  /\ Alive /\ pump[p] = "write"
  /\ \/ Move(p, "read")
     \/ mode = "proxy" /\ client = "closed" /\ Move(p, "post")
  /\ EndWrite(p)
  /\ UNCHANGED <<pc, mode, client, shell, errs, success, timer, rec, left,
                 rows, chunks, faults>>

\* Mistake: only an orderly end of the browser's WebSocket is reported.
InputEndsSilently ==
  /\ Alive /\ pump["in"] = "read" /\ client = "closed"
  /\ \/ Move("in", "post") \/ Move("in", "done")
  /\ UNCHANGED <<pc, mode, client, shell, errs, success, timer, rec, left,
                 rows, socket, chunks, faults>>

\* ReadMessage fails: the error is posted.
InputEnds ==
  /\ Alive /\ pump["in"] = "read" /\ client = "closed"
  /\ Move("in", "post")
  /\ UNCHANGED <<pc, mode, client, shell, errs, success, timer, rec, left,
                 rows, socket, chunks, faults>>

\* A stream ends.  In direct mode an orderly end of stdout and any end of
\* stderr are not posted; in proxy mode every error is.
StreamEnds(p) ==
  /\ Alive /\ p \in Streams /\ pump[p] = "read" /\ shell = "down"
  /\ \/ mode = "direct" /\ Move(p, "done")
     \/ (mode = "proxy" \/ p = "out") /\ Move(p, "post")
  /\ UNCHANGED <<pc, mode, client, shell, errs, success, timer, rec, left,
                 rows, socket, chunks, faults>>

\* Mistake: an unbuffered errChan, which blocks when nobody receives.
RoomUnbuffered == pc = "bridge" /\ errs = 0

\* errChan has room.
Room == errs < ErrCap

Post(p) ==
  /\ Alive /\ pump[p] = "post" /\ Room
  /\ errs' = errs + 1
  /\ Move(p, "done")
  /\ UNCHANGED <<pc, mode, client, shell, success, timer, rec, left, rows,
                 socket, chunks, faults>>

\* The ticker's case of the countdown: the remaining time is written.  After
\* the deadline a tick does nothing.
CountdownTick ==
  /\ Alive /\ countdown = "tick"
  /\ countdown' = "write" /\ shown' = "yes"
  /\ BeginWrite("countdown")
  /\ UNCHANGED <<pc, mode, client, shell, pump, errs, success, rec, left, rows,
                 chunks, faults>>

\* The other case: a line that was shown is cleared.
CountdownStop ==
  /\ Alive /\ countdown = "tick" /\ success = "yes"
  /\ \/ shown = "yes" /\ countdown' = "clear" /\ BeginWrite("countdown")
     \/ shown = "no" /\ countdown' = "done" /\ UNCHANGED socket
  /\ UNCHANGED <<pc, mode, client, shell, pump, errs, success, shown, rec,
                 left, rows, chunks, faults>>

CountdownWritten ==
  /\ Alive /\ countdown \in {"write", "clear"}
  /\ countdown' = IF countdown = "clear" THEN "done" ELSE "tick"
  /\ EndWrite("countdown")
  /\ UNCHANGED <<pc, mode, client, shell, pump, errs, success, shown, rec,
                 left, rows, chunks, faults>>

-----------------------------------------------------------------------------
(* The browser and the target.                                              *)

Disconnect ==
  /\ Alive /\ client = "open" /\ pc # "request"
  /\ client' = "closed"
  /\ UNCHANGED <<pc, mode, shell, pump, errs, success, timer, rec, left, rows,
                 socket, chunks, faults>>

ShellExits ==
  /\ Alive /\ shell = "up"
  /\ shell' = "down"
  /\ UNCHANGED <<pc, mode, client, pump, errs, success, timer, rec, left, rows,
                 socket, chunks, faults>>

-----------------------------------------------------------------------------
Handler ==
  \/ CreateLogin \/ DialFails \/ ShellStarts \/ OpenRecording \/ ActivateLogin
  \/ ConnectProxy \/ Leave \/ Report \/ CloseRecorder \/ UpdateRecording
  \/ UpdateLogin

Copier(p) ==
  \/ RecordSend(p) \/ WriteOut(p) \/ Written(p) \/ StreamEnds(p) \/ Post(p)

Next ==
  \/ Refuse \/ Handler
  \/ \E m \in {"direct", "proxy"} : Route(m)
  \/ \E p \in Pumps : Copier(p) \/ Chunk(p)
  \/ ForwardIn \/ StdinWritten \/ InputEnds
  \/ CountdownTick \/ CountdownStop \/ CountdownWritten
  \/ Disconnect \/ ShellExits

Spec == Init /\ [][Next]_vars

\* The handler waits for the target (the timeout of 30 seconds bounds only the
\* TCP connection, not the handshake, the terminal and the shell), or for a
\* browser that takes its message.
HandlerWaits == pc = "dial" \/ (pc = "reporting" /\ client = "open")

\* Every goroutine of the server makes progress where it waits for nobody else:
\* a write to the browser returns when the browser has gone, a write to the
\* target when the target has; and a select whose two cases are ready again and
\* again takes each of them.  Nothing is assumed of the browser or the target.
FairSpec ==
  /\ Spec
  /\ WF_vars(CountdownWritten /\ client = "closed") /\ SF_vars(CountdownStop)
  /\ WF_vars(Handler /\ ~HandlerWaits)
  /\ WF_vars(ForwardIn \/ InputEnds) /\ WF_vars(StdinWritten /\ shell = "down")
  /\ \A p \in Pumps :
       WF_vars(Copier(p) /\ (pump[p] = "write" => client = "closed"))

-----------------------------------------------------------------------------
(* Properties.                                                              *)

\* At every moment the two rows agree, unless a write failed: a completed
\* login has a closed recording, a failed or unfinished one none that is
\* closed too early, and only between the INSERT of the recording and the UPDATE
\* of the login is a recording active and its login not
\* (connection_handler.go 245-300, 568-602).
WebRowsAgree ==
  faults = 0 =>
    /\ login = "completed" => recording = "closed"
    /\ login = "failed" => recording = "none"
    /\ recording = "closed" => login \in {"active", "completed"}
    /\ recording = "active" =>
         login = IF pc = "activate" THEN "connecting" ELSE "active"

\* A direct connection that has ended left settled rows that tell whether a
\* shell ever ran, however it ended (connection_handler.go 235-301, 568).
WebSessionSettled ==
  pc = "end" /\ rec # "none" /\ faults = 0 =>
    IF shell = "none" THEN login = "failed" /\ recording = "none"
                      ELSE login = "completed" /\ recording = "closed"

\* The audit of a web connection is sound: typed state, rows that agree at every
\* moment and that are settled at the end.
WebRowsSound == TypeOK /\ WebRowsAgree /\ WebSessionSettled

\* How far the session has come on the server itself; a proxy audits its own.
Stage ==
  IF pc = "end" THEN "over"
  ELSE IF pc \in {"request", "direct"} \/ mode = "proxy" THEN "idle"
  ELSE IF pc \in {"dial", "rows"} \/ success = "no" THEN "connecting"
  ELSE IF pc = "activate" THEN "opening"
  ELSE "active"

Life == INSTANCE SessionLife WITH
          Sessions <- {"web"}, life <- [s \in {"web"} |-> Stage],
          login <- [s \in {"web"} |-> login],
          recording <- [s \in {"web"} |-> recording], lost <- faults

\* A web connection lives as SessionLife says: its rows follow the shell, however
\* the connection ends (connection_handler.go 235-301, 568-602).
ImplementsLife == Life!Spec

\* What can kill the process: the recorder's channel is hit only if the
\* handler left while a copier was still running, and two writers
\* meet on the WebSocket only if some goroutine other than the stdout copier
\* writes: the countdown, a blocked command, stderr or the final message.
WebCrashExplained ==
  /\ crash = "recorder" => left = "early"
  /\ crash = "socket" => talk # {}

\* errChan of the code's capacity, 2, has room for every copier that wants to
\* post, also when the handler has left and nobody receives any more: no copier
\* waits for ever, although three run (connection_handler.go 406, 613).
PostersHaveRoom ==
  ErrCap >= 2 => \A p \in Pumps : pump[p] = "post" => Room

\* What the copiers share with the handler, recorder, WebSocket and errChan, is
\* sound: what a crash needs, and room for whoever reports.
WebCopiersSound == WebCrashExplained /\ PostersHaveRoom

\* A goroutine of the connection is inside a call that only the target can end.
AwaitsTarget == pc = "dial" \/ (pump["in"] = "stdin" /\ shell = "up")

\* A browser that goes away ends the request, whatever the handler is doing and
\* also when the shell has gone unnoticed before (connection_handler.go 731),
\* unless a running target neither answers nor takes what was typed.
DisconnectEnds == client = "closed" ~> (pc = "end" \/ ~Alive \/ AwaitsTarget)

\* No copier outlives its connection: errChan has room for every error that
\* is posted after the handler has left.
CopiersEnd ==
  pc = "end" ~> (~Alive \/ \A p \in Pumps : pump[p] \in {"off", "done"})

-----------------------------------------------------------------------------
(* What comments and messages of the repository say and the code does not   *)
(* do: TLC finds a counterexample to each.                                  *)

\* connection_handler.go 770 waits for the end of the connection: a shell that
\* has exited ends the session.
ShellExitEnds == (pc = "bridge" /\ shell = "down") ~> (pc # "bridge" \/ ~Alive)

\* connection_handler.go 453 makes a channel that cancels the countdown: when
\* the request has ended it is cancelled.
CountdownCancelled == pc = "end" ~> (~Alive \/ countdown \in {"off", "done"})

-----------------------------------------------------------------------------
(* Inductive strengthening, used by WebSession_proofs.                      *)

Rows(l, r) == login = l /\ recording = r

\* The rows and flags at each point of the handler, when no write has failed.
StageInv ==
  /\ pc \in {"request", "direct", "proxy"} =>
       Rows("none", "none") /\ success = "no" /\ shell = "none" /\ rec = "none"
  /\ pc \in {"direct", "proxy"} => mode = pc
  /\ pc = "dial" =>
       Rows("connecting", "none") /\ success = "no" /\ shell = "none"
         /\ mode = "direct"
  /\ pc = "rows" =>
       Rows("connecting", "none") /\ success = "yes" /\ shell # "none"
         /\ mode = "direct"
  /\ pc = "activate" =>
       Rows("connecting", "active") /\ success = "yes" /\ shell # "none"
         /\ mode = "direct"
  /\ pc = "bridge" =>
       /\ shell # "none"
       /\ mode = "direct" => Rows("active", "active") /\ success = "yes"
       /\ mode # "direct" => Rows("none", "none") /\ rec = "none"
  /\ pc \in {"report", "reporting", "close", "update"} =>
       \/ Rows("active", "active") /\ success = "yes" /\ shell # "none"
       \/ Rows("connecting", "none") /\ success = "no" /\ shell = "none"
  /\ pc = "complete" =>
       \/ Rows("active", "closed") /\ success = "yes" /\ shell # "none"
       \/ Rows("connecting", "none") /\ success = "no" /\ shell = "none"
  /\ pc = "end" =>
       \/ Rows("completed", "closed") /\ shell # "none"
       \/ Rows("failed", "none") /\ shell = "none"
       \/ Rows("none", "none") /\ rec = "none"

WebRowsInv == faults = 0 => StageInv

\* How the flags and the rows go with the handler's position, whatever fails.
LifeInv ==
  /\ pc = "request" => mode = "none"
  /\ pc \in {"direct", "dial", "rows", "activate", "report", "reporting", "close",
             "update", "complete"} => mode = "direct"
  /\ pc = "proxy" => mode = "proxy"
  /\ pc = "bridge" => mode # "none"
  /\ mode # "direct" \/ pc \in {"direct", "dial"} => success = "no"
  /\ mode = "direct" /\ pc \in {"rows", "activate", "bridge"} => success = "yes"
  /\ mode # "direct" \/ pc = "direct" => Rows("none", "none")
  /\ success = "no" \/ pc = "rows" => recording = "none"

\* No more errors are in errChan than copiers that post have ended, and the
\* stderr copier, which runs in direct mode only, never posts.
PostInv ==
  /\ pump["err"] # "post"
  /\ mode # "direct" => pump["err"] = "off"
  /\ errs > 0 => pump["in"] = "done" \/ pump["out"] = "done"
  /\ errs > 1 => pump["in"] = "done" /\ pump["out"] = "done"
  /\ errs <= 2

AllPumps(state) == \A p \in Pumps : pump[p] = state

\* The recorder stays open until the bridge was left, and only copiers that the
\* handler did not wait for run on; a writer that is not the stdout copier has
\* been noted.
CrashInv ==
  /\ pc \in {"request", "direct", "dial", "rows", "activate", "proxy", "bridge"} =>
       rec # "closed" /\ left = "no"
  /\ left = "no" => pc = "bridge" \/ AllPumps("off")
  /\ left = "late" => AllPumps("done")
  /\ writing \subseteq talk \cup {"out"}
  /\ "out" \in writing => pump["out"] = "write"
  /\ WebCrashExplained
=============================================================================

----------------------------- MODULE HostSession -----------------------------
(***************************************************************************)
(* One client connection of the SSH gateway, from the moment the terminal  *)
(* handler owns it: the menu loop (HandleTerminal), the host sessions it    *)
(* opens one after the other (handleHostConnection and                      *)
(* connectToHostWithSuccessCallback in sshserver/terminal/handler.go), the  *)
(* three goroutines that copy bytes, the audit rows (database_auditor.go),  *)
(* the asynchronous recorder (bastion/recorder/recorder.go behind           *)
(* sshserver/recorder/recorder.go) and the queue that writes the recording  *)
(* back (bastion/storage/database_storage.go).                              *)
(*                                                                         *)
(* Bytes are abstracted to chunks that are counted, rows to their status.   *)
(* The stdin copier's command buffer and blacklist test have their own      *)
(* module, CommandFilter.                                                   *)
(***************************************************************************)
EXTENDS Integers, FiniteSets

CONSTANTS
  MaxHosts,    \* host sessions one connection opens (bound)
  Outputs,     \* the output copiers: stdout and stderr of the target
  EventCap,    \* capacity of Recorder.eventChan (1000 in the code)
  CloseCap,    \* capacity of DatabaseStorage.closeQueue (100 in the code)
  MaxChunks,   \* chunks copied per host session (bound)
  MaxFaults    \* failing database writes (bound)

ASSUME HostSessionAssumption ==
  /\ MaxHosts \in Nat \ {0}
  /\ EventCap \in Nat \ {0}
  /\ CloseCap \in Nat
  /\ MaxChunks \in Nat
  /\ MaxFaults \in Nat
  /\ "stdin" \notin Outputs

VARIABLES
  pc,        \* where the handler's goroutine is
  cur,       \* number of the current host session, 0 before the first
  client,    \* the client's channel
  ctx,       \* the session's context
  proc,      \* the server process: "up", "stopping", "exited", "crashed"
  shell,     \* the target's shell, per host session
  pump,      \* the copying goroutines, per host session
  errChan,   \* the host sessions whose errChan holds an error
  how,       \* which case of the select ended the bridge
  login,     \* login_records.status
  recording, \* session_recordings.status
  content,   \* session_recordings.recording: chunks it holds, or Blank
  rec,       \* the Recorder in AdapterRecorder.recorders
  queue,     \* chunks in Recorder.eventChan
  events,    \* length of Recorder.events
  seen,      \* chunks forwarded and due to be recorded (stdin and outputs)
  closing,   \* the request for CloseSession
  export,    \* chunks in the exported asciinema text
  faults     \* database writes that have failed

rows  == <<login, recording, content>>
tape  == <<rec, queue, events, seen>>
async == <<closing, export>>
vars  == <<pc, cur, client, ctx, proc, shell, pump, errChan, how, login,
           recording, content, rec, queue, events, seen, closing, export,
           faults>>

HS        == 1 .. MaxHosts
Pumps     == {"stdin"} \cup Outputs
PumpState == {"none", "read", "forwarded", "checked", "done"}
Blank     == -1
Bridging  == {"bridge", "wait", "audit", "record", "export"}

ControlType ==
  /\ pc \in {"menu", "users", "prompt", "dial", "setup", "exit"} \cup Bridging
  /\ cur \in 0 .. MaxHosts
  /\ pc \in {"users", "dial", "setup"} \cup Bridging => cur \in HS
  /\ client \in {"open", "closed"}
  /\ ctx \in {"live", "cancelled"}
  /\ proc \in {"up", "stopping", "exited", "crashed"}

BridgeType ==
  /\ shell \in [HS -> {"none", "up", "down"}]
  /\ pump \in [HS -> [Pumps -> PumpState]]
  /\ errChan \in SUBSET HS
  /\ how \in [HS -> {"none", "setup", "done", "err", "ctx"}]

LoginStatus     == {"none", "connecting", "active", "completed", "failed"}
RecordingStatus == {"none", "active", "closed"}

RowsType ==
  /\ login \in [HS -> LoginStatus]
  /\ recording \in [HS -> RecordingStatus]
  /\ content \in [HS -> Int]
  /\ faults \in Nat

TapeType ==
  /\ rec \in [HS -> {"none", "open", "closed", "deleted"}]
  /\ queue \in [HS -> Nat]
  /\ events \in [HS -> Nat]
  /\ seen \in [HS -> Nat]

AsyncType ==
  /\ closing \in [HS -> {"none", "queued", "done"}]
  /\ export \in [HS -> Int]

TypeOK == ControlType /\ BridgeType /\ RowsType /\ TapeType /\ AsyncType

Init ==
  /\ pc = "menu"
  /\ cur = 0
  /\ client = "open"
  /\ ctx = "live"
  /\ proc = "up"
  /\ shell = [h \in HS |-> "none"]
  /\ pump = [h \in HS |-> [p \in Pumps |-> "none"]]
  /\ errChan = {}
  /\ how = [h \in HS |-> "none"]
  /\ login = [h \in HS |-> "none"]
  /\ recording = [h \in HS |-> "none"]
  /\ content = [h \in HS |-> Blank]
  /\ rec = [h \in HS |-> "none"]
  /\ queue = [h \in HS |-> 0]
  /\ events = [h \in HS |-> 0]
  /\ seen = [h \in HS |-> 0]
  /\ closing = [h \in HS |-> "none"]
  /\ export = [h \in HS |-> Blank]
  /\ faults = 0

Running == proc \in {"up", "stopping"}

\* A database statement succeeds (0) or, while the fault budget lasts, fails
\* (1).  "failed" is the number of statements of an action that fail.
Outcome == 0 .. 1
DbOutcome(failed) ==
  /\ faults + failed <= MaxFaults
  /\ faults' = faults + failed

-----------------------------------------------------------------------------
(* The handler's goroutine.                                                 *)

\* InteractiveMenuV2 returned a host and handleHostConnection found several
\* system users: it shows them and reads a choice.
SelectHostManyUsers ==
  /\ Running /\ pc = "menu" /\ client = "open" /\ cur < MaxHosts
  /\ pc' = "users"
  /\ cur' = cur + 1
  /\ UNCHANGED <<client, ctx, proc, shell, pump, errChan, how, rows, tape,
                 async, faults>>

\* AuditLoginStart: one INSERT; its error is only logged.
AuditLoginStart(h) ==
  \E e \in Outcome :
    /\ DbOutcome(e)
    /\ login' = [login EXCEPT ![h] = IF e = 0 THEN "connecting" ELSE @]

\* Exactly one system user: it is taken without asking.
SelectHostOneUser ==
  /\ Running /\ pc = "menu" /\ client = "open" /\ cur < MaxHosts
  /\ cur' = cur + 1
  /\ AuditLoginStart(cur + 1)
  /\ pc' = "dial"
  /\ UNCHANGED <<client, ctx, proc, shell, pump, errChan, how, recording,
                 content, tape, async>>

\* No system user, or the query failed: the error is shown and the menu
\* waits for Enter.  No audit row is written.
SelectHostDenied ==
  /\ Running /\ pc = "menu" /\ client = "open" /\ cur < MaxHosts
  /\ cur' = cur + 1
  /\ pc' = "prompt"
  /\ UNCHANGED <<client, ctx, proc, shell, pump, errChan, how, rows, tape,
                 async, faults>>

ChooseUser ==
  /\ Running /\ pc = "users" /\ client = "open"
  /\ AuditLoginStart(cur)
  /\ pc' = "dial"
  /\ UNCHANGED <<cur, client, ctx, proc, shell, pump, errChan, how, recording,
                 content, tape, async>>

\* An invalid number, or the read failed.
ChooseUserFails ==
  /\ Running /\ pc = "users"
  /\ pc' = "prompt"
  /\ UNCHANGED <<cur, client, ctx, proc, shell, pump, errChan, how, rows,
                 tape, async, faults>>

\* PromptPressToContinue: Enter, or a read error, ends it.
PromptReturns ==
  /\ Running /\ pc = "prompt"
  /\ pc' = "menu"
  /\ UNCHANGED <<cur, client, ctx, proc, shell, pump, errChan, how, rows,
                 tape, async, faults>>

\* The user quits the menu: the handler returns and the SSH library closes
\* the channel.
Quit ==
  /\ Running /\ pc = "menu" /\ client = "open"
  /\ pc' = "exit"
  /\ client' = "closed"
  /\ ctx' = "cancelled"
  /\ UNCHANGED <<cur, proc, shell, pump, errChan, how, rows, tape, async,
                 faults>>

\* AuditLoginFailed: one UPDATE of the login record.
AuditLoginFailed(h) ==
  \E e \in Outcome :
    /\ DbOutcome(e)
    /\ login' = [login EXCEPT ![h] =
                   IF e = 0 /\ @ # "none" THEN "failed" ELSE @]

\* ssh.Dial (or the key parser) failed: onConnected(err) marks the login
\* record failed; handleHostConnection returns the error.
DialFails ==
  /\ Running /\ pc = "dial"
  /\ AuditLoginFailed(cur)
  /\ pc' = "prompt"
  /\ UNCHANGED <<cur, client, ctx, proc, shell, pump, errChan, how, recording,
                 content, tape, async>>

\* AuditLoginSuccess: UPDATE the login record, INSERT the recording row; a
\* failed UPDATE does not stop the INSERT.
AuditLoginSuccess(h) ==
  \E e1, e2 \in Outcome :
    /\ DbOutcome(e1 + e2)
    /\ login' = [login EXCEPT ![h] =
                   IF e1 = 0 /\ @ # "none" THEN "active" ELSE @]
    /\ recording' = [recording EXCEPT ![h] = IF e2 = 0 THEN "active" ELSE @]

\* RecordStart: a new Recorder, with its processEvents goroutine.
RecordStart(h) == rec' = [rec EXCEPT ![h] = "open"]

\* ssh.Dial succeeded: onConnected(nil) audits the success and starts the
\* recording, before a session or a shell exists on the target.
DialSucceeds ==
  /\ Running /\ pc = "dial"
  /\ AuditLoginSuccess(cur)
  /\ RecordStart(cur)
  /\ pc' = "setup"
  /\ UNCHANGED <<cur, client, ctx, proc, shell, pump, errChan, how, content,
                 queue, events, seen, async>>

\* Mistake: returning to the menu without closing the audit rows.
SetupFailsUnaudited ==
  /\ Running /\ pc = "setup"
  /\ how' = [how EXCEPT ![cur] = "setup"]
  /\ pc' = "menu"
  /\ UNCHANGED <<cur, client, ctx, proc, shell, pump, errChan, rows, tape,
                 async, faults>>

\* Mistake: an error after the login is reported like one of the login.
SetupFailsAsLogin ==
  /\ Running /\ pc = "setup"
  /\ AuditLoginFailed(cur)
  /\ how' = [how EXCEPT ![cur] = "setup"]
  /\ pc' = "audit"
  /\ UNCHANGED <<cur, client, ctx, proc, shell, pump, errChan, recording,
                 content, tape, async>>

\* NewSession, a pipe, RequestPty or Shell failed: the error is dropped by
\* the caller, which goes on to close the audit rows.
SetupFails ==
  /\ Running /\ pc = "setup"
  /\ how' = [how EXCEPT ![cur] = "setup"]
  /\ pc' = "audit"
  /\ UNCHANGED <<cur, client, ctx, proc, shell, pump, errChan, rows, tape,
                 async, faults>>

SetupSucceeds ==
  /\ Running /\ pc = "setup"
  /\ shell' = [shell EXCEPT ![cur] = "up"]
  /\ pump' = [pump EXCEPT ![cur] = [p \in Pumps |-> "read"]]
  /\ pc' = "bridge"
  /\ UNCHANGED <<cur, client, ctx, proc, errChan, how, rows, tape, async,
                 faults>>

\* Mistake: waiting for any copier instead of all of them.
AnyCopierDone(h) == \E p \in Pumps : pump[h][p] = "done"

AllCopiersDone(h) == \A p \in Pumps : pump[h][p] = "done"

\* Mistake: a select without the case of the copiers all being done.
BridgeEndsOnErrorOnly ==
  /\ Running /\ pc = "bridge"
  /\ \/ /\ cur \in errChan
        /\ how' = [how EXCEPT ![cur] = "err"]
     \/ /\ ctx = "cancelled"
        /\ how' = [how EXCEPT ![cur] = "ctx"]
  /\ pc' = "wait"
  /\ UNCHANGED <<cur, client, ctx, proc, shell, pump, errChan, rows, tape,
                 async, faults>>

\* The select at the end of connectToHostWithSuccessCallback.
BridgeEnds ==
  /\ Running /\ pc = "bridge"
  /\ \/ /\ AllCopiersDone(cur)
        /\ how' = [how EXCEPT ![cur] = "done"]
     \/ /\ cur \in errChan
        /\ how' = [how EXCEPT ![cur] = "err"]
     \/ /\ ctx = "cancelled"
        /\ how' = [how EXCEPT ![cur] = "ctx"]
  /\ pc' = "wait"
  /\ UNCHANGED <<cur, client, ctx, proc, shell, pump, errChan, rows, tape,
                 async, faults>>

\* targetSession.Wait() returns when the remote shell has exited.
WaitReturns ==
  /\ Running /\ pc = "wait" /\ shell[cur] = "down"
  /\ pc' = "audit"
  /\ UNCHANGED <<cur, client, ctx, proc, shell, pump, errChan, how, rows,
                 tape, async, faults>>

\* Mistake: the login record is completed although the recording row was not.
AuditSessionEndIgnoringError(h) ==
  \E e1, e2 \in Outcome :
    /\ DbOutcome(e1 + e2)
    /\ recording' = [recording EXCEPT ![h] =
                       IF e1 = 0 /\ @ # "none" THEN "closed" ELSE @]
    /\ content' = [content EXCEPT ![h] = IF e1 = 0 THEN Blank ELSE @]
    /\ login' = [login EXCEPT ![h] =
         IF e2 = 0 /\ @ # "none" THEN "completed" ELSE @]

\* AuditSessionEnd: SELECT the recording row (absent: return), UPDATE it with
\* an empty recording (failed: return), UPDATE the login record.
AuditSessionEnd(h) ==
  \/ /\ recording[h] = "none"
     /\ UNCHANGED <<rows, faults>>
  \/ /\ recording[h] # "none"
     /\ \E e1, e2 \in Outcome :
          /\ DbOutcome(e1 + e2)
          /\ recording' = [recording EXCEPT ![h] = IF e1 = 0 THEN "closed" ELSE @]
          /\ content' = [content EXCEPT ![h] = IF e1 = 0 THEN Blank ELSE @]
          /\ login' = [login EXCEPT ![h] =
               IF e1 = 0 /\ e2 = 0 /\ @ # "none" THEN "completed" ELSE @]

\* After the bridge: the rows are closed first.
AuditEnd ==
  /\ Running /\ pc = "audit"
  /\ AuditSessionEnd(cur)
  /\ pc' = "record"
  /\ UNCHANGED <<cur, client, ctx, proc, shell, pump, errChan, how, tape,
                 async>>

\* RecordEnd, first half: Recorder.Close sets closed and closes eventChan.
RecordClose ==
  /\ Running /\ pc = "record"
  /\ rec' = [rec EXCEPT ![cur] = "closed"]
  /\ pc' = "export"
  /\ UNCHANGED <<cur, client, ctx, proc, shell, pump, errChan, how, rows,
                 queue, events, seen, async, faults>>

\* closeSessionInDB: both rows, if they exist.
CloseSessionInDB(h, text) ==
  \E e1, e2 \in Outcome :
    /\ DbOutcome(e1 + e2)
    /\ LET found == recording[h] # "none" /\ e1 = 0
       IN  /\ recording' = [recording EXCEPT ![h] =
                              IF found THEN "closed" ELSE @]
           /\ content' = [content EXCEPT ![h] = IF found THEN text ELSE @]
           /\ login' = [login EXCEPT ![h] =
                IF found /\ e2 = 0 /\ @ # "none" THEN "completed" ELSE @]

\* Mistake: the session's end is audited after its recording was handed over.
RecordExportThenAudit ==
  /\ Running /\ pc = "export"
  /\ export' = [export EXCEPT ![cur] = events[cur]]
  /\ closing' = [closing EXCEPT ![cur] = "queued"]
  /\ rec' = [rec EXCEPT ![cur] = "deleted"]
  /\ pc' = "audit"
  /\ UNCHANGED <<cur, client, ctx, proc, shell, pump, errChan, how, queue,
                 events, seen, rows, faults>>

\* CloseSession: the request is queued or, the queue being full, runs here.
CloseSession(h, text) ==
  LET full == Cardinality({g \in HS : closing[g] = "queued"}) >= CloseCap
  IN  \/ /\ ~full
         /\ closing' = [closing EXCEPT ![h] = "queued"]
         /\ UNCHANGED <<rows, faults>>
      \/ /\ full
         /\ closing' = [closing EXCEPT ![h] = "done"]
         /\ CloseSessionInDB(h, text)

\* RecordEnd, second half: ToAsciinema copies the events processed so far and
\* CloseSession hands them over.
RecordExport ==
  /\ Running /\ pc = "export"
  /\ export' = [export EXCEPT ![cur] = events[cur]]
  /\ CloseSession(cur, events[cur])
  /\ rec' = [rec EXCEPT ![cur] = "deleted"]
  /\ pc' = "menu"
  /\ UNCHANGED <<cur, client, ctx, proc, shell, pump, errChan, how, queue,
                 events, seen>>

-----------------------------------------------------------------------------
(* The copying goroutines of host session h.                                *)

SetPump(h, p, s) == pump' = [pump EXCEPT ![h][p] = s]

\* The stdin copier takes a byte from the client's channel (several readers
\* may be blocked on it) and writes it to the target.
StdinForward(h) ==
  /\ Running /\ client = "open" /\ pump[h]["stdin"] = "read"
  /\ \/ /\ shell[h] = "up" /\ seen[h] < MaxChunks
        /\ SetPump(h, "stdin", "forwarded")
        /\ seen' = [seen EXCEPT ![h] = @ + 1]
        /\ UNCHANGED errChan
     \/ /\ shell[h] = "down"
        /\ SetPump(h, "stdin", "done")
        /\ errChan' = errChan \cup {h}
        /\ UNCHANGED seen
  /\ UNCHANGED <<pc, cur, client, ctx, proc, shell, how, rows, rec, queue,
                 events, async, faults>>

\* The client's channel is closed: Read fails and the copier returns without
\* reporting to errChan.
StdinEOF(h) ==
  /\ Running /\ client = "closed" /\ pump[h]["stdin"] = "read"
  /\ SetPump(h, "stdin", "done")
  /\ UNCHANGED <<pc, cur, client, ctx, proc, shell, errChan, how, rows, tape,
                 async, faults>>

\* An output copier reads a chunk (the target's last output may still be
\* buffered when its shell is gone) and writes it to the client.
OutputForward(h, p) ==
  /\ Running /\ pump[h][p] = "read" /\ seen[h] < MaxChunks
  /\ \/ /\ client = "open"
        /\ SetPump(h, p, "forwarded")
        /\ seen' = [seen EXCEPT ![h] = @ + 1]
        /\ UNCHANGED errChan
     \/ /\ client = "closed"
        /\ SetPump(h, p, "done")
        /\ errChan' = errChan \cup {h}
        /\ UNCHANGED seen
  /\ UNCHANGED <<pc, cur, client, ctx, proc, shell, how, rows, rec, queue,
                 events, async, faults>>

OutputEOF(h, p) ==
  /\ Running /\ shell[h] = "down" /\ pump[h][p] = "read"
  /\ SetPump(h, p, "done")
  /\ UNCHANGED <<pc, cur, client, ctx, proc, shell, errChan, how, rows, tape,
                 async, faults>>

\* RecordData: look the recorder up, and RecordInput / RecordOutput test
\* "closed" without a lock.
RecordCheck(h, p) ==
  /\ Running /\ pump[h][p] = "forwarded"
  /\ SetPump(h, p, IF rec[h] = "open" THEN "checked" ELSE "read")
  /\ UNCHANGED <<pc, cur, client, ctx, proc, shell, errChan, how, rows, tape,
                 async, faults>>

\* The send into eventChan: dropped when full; a closed channel panics, and
\* no copier recovers, so the process dies.
RecordSend(h, p) ==
  /\ Running /\ pump[h][p] = "checked"
  /\ \/ /\ rec[h] = "open"
        /\ queue' = [queue EXCEPT ![h] = IF @ < EventCap THEN @ + 1 ELSE @]
        /\ SetPump(h, p, "read")
        /\ UNCHANGED proc
     \/ /\ rec[h] # "open"
        /\ proc' = "crashed"
        /\ UNCHANGED <<queue, pump>>
  /\ UNCHANGED <<pc, cur, client, ctx, shell, errChan, how, rows, rec, events,
                 seen, async, faults>>

\* Mistake: taking an event from an empty channel.
ProcessEventUnguarded(h) ==
  /\ Running /\ rec[h] # "none" /\ events[h] < MaxChunks
  /\ queue' = [queue EXCEPT ![h] = @ - 1]
  /\ events' = [events EXCEPT ![h] = @ + 1]
  /\ UNCHANGED <<pc, cur, client, ctx, proc, shell, pump, errChan, how, rows,
                 rec, seen, async, faults>>

\* Recorder.processEvents.
ProcessEvent(h) ==
  /\ Running /\ queue[h] > 0
  /\ queue' = [queue EXCEPT ![h] = @ - 1]
  /\ events' = [events EXCEPT ![h] = @ + 1]
  /\ UNCHANGED <<pc, cur, client, ctx, proc, shell, pump, errChan, how, rows,
                 rec, seen, async, faults>>

\* DatabaseStorage.processCloseQueue.
ProcessClose(h) ==
  /\ Running /\ closing[h] = "queued"
  /\ closing' = [closing EXCEPT ![h] = "done"]
  /\ CloseSessionInDB(h, export[h])
  /\ UNCHANGED <<pc, cur, client, ctx, proc, shell, pump, errChan, how, tape,
                 export>>

-----------------------------------------------------------------------------
(* The environment.                                                         *)

\* The remote shell exits.
ShellExit(h) ==
  /\ Running /\ shell[h] = "up"
  /\ shell' = [shell EXCEPT ![h] = "down"]
  /\ UNCHANGED <<pc, cur, client, ctx, proc, pump, errChan, how, rows, tape,
                 async, faults>>

Disconnect ==
  /\ Running /\ client = "open"
  /\ client' = "closed"
  /\ UNCHANGED <<pc, cur, ctx, proc, shell, pump, errChan, how, rows, tape,
                 async, faults>>

\* cleanupExpiredSessions cancels the session's context.
Cancel ==
  /\ Running /\ ctx = "live"
  /\ ctx' = "cancelled"
  /\ UNCHANGED <<pc, cur, client, proc, shell, pump, errChan, how, rows, tape,
                 async, faults>>

\* SIGTERM: main calls Server.Stop, which cancels every context and closes
\* the connections ...
Stop ==
  /\ proc = "up"
  /\ proc' = "stopping"
  /\ ctx' = "cancelled"
  /\ client' = "closed"
  /\ UNCHANGED <<pc, cur, shell, pump, errChan, how, rows, tape, async,
                 faults>>

\* ... and main returns after closing the web shell's storage adapter (a
\* no-op) and the database.
ProcessExit ==
  /\ proc = "stopping"
  /\ proc' = "exited"
  /\ UNCHANGED <<pc, cur, client, ctx, shell, pump, errChan, how, rows, tape,
                 async, faults>>

-----------------------------------------------------------------------------
Handler ==
  \/ SelectHostManyUsers \/ SelectHostOneUser \/ SelectHostDenied
  \/ ChooseUser \/ ChooseUserFails \/ PromptReturns \/ Quit
  \/ DialFails \/ DialSucceeds \/ SetupFails \/ SetupSucceeds
  \/ BridgeEnds \/ WaitReturns \/ AuditEnd \/ RecordClose
  \/ RecordExport

Copiers ==
  \E h \in HS :
    \/ StdinForward(h) \/ StdinEOF(h)
    \/ \E p \in Outputs : OutputForward(h, p) \/ OutputEOF(h, p)
    \/ \E p \in Pumps : RecordCheck(h, p) \/ RecordSend(h, p)

Workers == \E h \in HS : ProcessEvent(h) \/ ProcessClose(h)

Environment ==
  \/ \E h \in HS : ShellExit(h)
  \/ Disconnect \/ Cancel \/ Stop \/ ProcessExit

Next == Handler \/ Copiers \/ Workers \/ Environment

Spec == Init /\ [][Next]_vars

\* The server's own goroutines keep running; the user, the target host and
\* the operator may stop at any point, so nothing is assumed of them.
ServerStep ==
  \/ BridgeEnds \/ WaitReturns \/ AuditEnd \/ RecordClose
  \/ RecordExport

Fairness ==
  /\ WF_vars(ServerStep)
  /\ \A h \in HS :
       /\ WF_vars(StdinEOF(h))
       /\ \A p \in Outputs : WF_vars(OutputEOF(h, p))
       /\ \A p \in Pumps : WF_vars(RecordCheck(h, p) \/ RecordSend(h, p))
       /\ WF_vars(ProcessEvent(h))
       /\ WF_vars(ProcessClose(h))

FairSpec == Spec /\ Fairness

-----------------------------------------------------------------------------
(* Properties.                                                              *)

\* Host session h is over for the handler.
Past(h) == h < cur \/ (h = cur /\ pc \in {"menu", "prompt", "exit"})

\* Once the handler is back in the menu, the audit rows of every host session
\* are settled, unless the database failed a write: a failed connection has a
\* failed login record and no recording row, a connection that was made has a
\* completed login record and a closed recording row (handler.go 218-292).
AuditSettled ==
  \A h \in HS :
    Past(h) /\ faults = 0 =>
      \/ login[h] = "none" /\ recording[h] = "none"
      \/ login[h] = "failed" /\ recording[h] = "none"
      \/ login[h] = "completed" /\ recording[h] = "closed"

\* Whatever writes fail, a login record never ends failed beside a recording
\* row, and is completed only beside a recording row that was closed
\* (database_auditor.go 115-162: the login record is updated last).
AuditRowsAgree ==
  \A h \in HS :
    /\ login[h] = "failed" => recording[h] = "none"
    /\ login[h] = "completed" => recording[h] = "closed"

\* The audit of a connection's host sessions is sound: typed state, rows that
\* never contradict each other and that are settled once a session is left.
AuditSound == TypeOK /\ AuditRowsAgree /\ AuditSettled

\* How far host session h has come.
LifeOf(h) ==
  IF h > cur \/ (h = cur /\ pc = "users") THEN "idle"
  ELSE IF h = cur /\ pc = "dial" THEN "connecting"
  ELSE IF h = cur /\ pc \in {"setup", "bridge", "wait", "audit"} THEN "active"
  ELSE "over"

Life == INSTANCE SessionLife WITH
          Sessions <- HS, life <- [h \in HS |-> LifeOf(h)], lost <- faults

\* Every host session lives as SessionLife says: its rows follow the handler, and
\* what is written later, by the close queue, takes nothing back (handler.go
\* 218-292, database_auditor.go, database_storage.go).
ImplementsLife == Life!Spec

\* A copier can send into the recorder's closed channel, and take the process
\* down, only if the handler stopped waiting for the copiers because of an
\* error or a cancelled context: waiting for all of them (handler.go 599-608)
\* rules the panic out.
PanicOnlyAfterEarlyEnd ==
  proc = "crashed" => \E h \in HS : how[h] \in {"err", "ctx"}

\* A stdin copier outlives its host session, and so competes with the menu
\* for the client's keys, only if that session was cancelled or the client is
\* gone (handler.go 425-531: the read is never interrupted).
StaleReaderOnlyAfterCancel ==
  \A h \in HS :
    /\ Past(h)
    /\ pump[h]["stdin"] \in {"read", "forwarded", "checked"}
    => how[h] = "ctx" \/ client = "closed"

\* Copiers that the handler does not wait for do harm only after an early end.
CopiersSound == PanicOnlyAfterEarlyEnd /\ StaleReaderOnlyAfterCancel

\* A recording that reached its row is never overwritten with the empty text
\* AuditSessionEnd writes: that statement comes before RecordEnd queues the
\* recording (handler.go 279-286).
RecordingNeverErased ==
  [][\A h \in HS : content[h] # Blank => content'[h] = content[h]]_vars

\* When the target's shell is gone and the stdin copier has ended (the client
\* pressed a key or hung up), the handler leaves the host session.
EndedSessionReturns ==
  \A h \in HS :
    (cur = h /\ pc = "bridge" /\ shell[h] = "down" /\ pump[h]["stdin"] = "done")
      ~> (Past(h) \/ cur > h \/ ~Running)

-----------------------------------------------------------------------------
(* What comments and messages of the repository say and the code does not   *)
(* do: TLC finds a counterexample to each.                                  *)

\* server.go 674: the sweep exists so that no session runs indefinitely.  A
\* host session whose context the sweep has cancelled ends.
CancelledSessionEnds ==
  \A h \in HS :
    (cur = h /\ pc = "bridge" /\ ctx = "cancelled" /\ proc = "up")
      ~> (Past(h) \/ cur > h \/ proc # "up")

\* handler.go 127 (commented beside the menu loop): after a host session ends
\* the handler returns to the menu by itself, no key needed.
ReturnsToMenuUnprompted ==
  \A h \in HS :
    (cur = h /\ pc = "bridge" /\ shell[h] = "down")
      ~> (Past(h) \/ cur > h \/ ~Running)

\* recorder.go 148: the export writes all events.  A session whose copiers
\* have all returned, with every chunk accepted by the channel, is exported
\* with every chunk.
ExportHasAllEvents ==
  \A h \in HS :
    closing[h] # "none" /\ how[h] = "done" /\ seen[h] <= EventCap
      => export[h] = seen[h]

\* main.go 364: shutdown waits for the asynchronous writes.
ShutdownDrainsWrites ==
  proc = "exited" => \A h \in HS : closing[h] # "queued"

-----------------------------------------------------------------------------
(* Inductive strengthenings, used by HostSession_proofs.                    *)

\* Host session h has not reached the audit routines yet.
Unaudited(h) == h > cur \/ (h = cur /\ pc = "users")

\* Host session h has not handed its recording over yet.
Unclosed(h) ==
  \/ h > cur
  \/ h = cur /\ pc \in {"users", "dial", "setup"} \cup Bridging

RowsInv ==
  /\ \A h \in HS : Unaudited(h) => login[h] = "none" /\ recording[h] = "none"
  /\ pc = "dial" => /\ login[cur] \in {"none", "connecting"}
                    /\ recording[cur] = "none"
  /\ AuditRowsAgree

ContentInv ==
  /\ \A h \in HS : Unclosed(h) => closing[h] = "none"
  /\ \A h \in HS : content[h] # Blank => closing[h] = "done"

SettledInv ==
  faults = 0 =>
    /\ pc = "dial" => login[cur] = "connecting"
    /\ pc \in {"setup", "bridge", "wait", "audit"} =>
         login[cur] = "active" /\ recording[cur] = "active"
    /\ pc \in {"record", "export"} =>
         login[cur] = "completed" /\ recording[cur] = "closed"
    /\ AuditSettled

\* Before its bridge exists, a host session has no copier and no error.
Unbridged(h) ==
  h > cur \/ (h = cur /\ pc \in {"users", "dial", "setup"})

CopierInv ==
  /\ \A h \in HS : Unbridged(h) =>
       /\ how[h] = "none"
       /\ h \notin errChan
       /\ \A p \in Pumps : pump[h][p] = "none"
  /\ pc = "setup" => rec[cur] = "open"
  /\ pc = "bridge" => how[cur] = "none" /\ rec[cur] = "open"
  /\ \A h \in HS, p \in Pumps : pump[h][p] # "none" =>
       \/ how[h] = "none" /\ h = cur /\ pc = "bridge"
       \/ how[h] = "done" /\ pump[h][p] = "done"
       \/ how[h] \in {"err", "ctx"}
  /\ \A h \in HS : how[h] = "err" => h \in errChan
  /\ \A h \in errChan : client = "closed" \/ pump[h]["stdin"] = "done"
  /\ PanicOnlyAfterEarlyEnd
=============================================================================

--------------------------- MODULE SessionRecords ---------------------------
(***************************************************************************)
(* The tables an auditor reads: session_recordings, login_records and      *)
(* command_histories, and every handler that writes or shows them.         *)
(*                                                                         *)
(* A session is run by a proxy (ProxySessions), which reports it in real   *)
(* time and again in batches, or by the API server (ServerSessions).  A    *)
(* report may be repeated, late or out of order: a worker may take up at   *)
(* any time any request that describes a state its session has been in.    *)
(* gorm's FirstOrCreate is a SELECT and an INSERT with a gap between them; *)
(* the unique session_id refuses the second of two racing INSERTs.  Any    *)
(* statement may fail, and most handlers log the error or drop it and go   *)
(* on.                                                                     *)
(***************************************************************************)
EXTENDS Integers, Sequences, FiniteSetsExt, TLC

CONSTANTS ProxySessions,   \* sessions a proxy runs and reports
          ServerSessions,  \* sessions of the API server itself
          Workers,         \* goroutines that serve requests
          MaxRows,         \* bound: command rows
          MaxBatch         \* bound: items in one batch of sessions

ASSUME SessionRecordsAssumption ==
  /\ MaxRows \in Nat /\ MaxBatch \in Nat \ {0}
  /\ IsFiniteSet(Workers) /\ ProxySessions \cap ServerSessions = {}

Sessions == ProxySessions \cup ServerSessions

VARIABLES
  run,       \* run[s]: how far the session itself is
  rec,       \* rec[s]: the session_recordings row
  login,     \* login[s]: the status of the login_records row, or none
  rows,      \* rows[s]: its command_histories rows
  task,      \* task[w]: the request worker w serves
  stranded   \* <<s, "missing">>: an INSERT of the login record failed;
             \* <<s, "open">>: it was left open when the recording closed

db == <<rec, login, rows>>
recordsVars == <<run, db, task, stranded>>

Recording == [status : {"none", "active", "closed"}, text : BOOLEAN, count : Nat]
LoginStatus == {"none", "connecting", "active", "closed", "completed",
                "failed"}

\* A login record that says that its session goes on.
OpenLogin == {"connecting", "active"}

\* An item of a batch, as SyncSessions reads it: start_time may be missing or
\* in none of the formats it knows.
Item == [s : ProxySessions, status : {"active", "closed"},
         time : {"good", "bad", "none"}]

\* What a report or a batch says of a session.
Report == Item \cup [s : ProxySessions, status : {"active", "closed"}]

NoCommands == [s \in Sessions |-> 0]
Idle == [op |-> "idle", at |-> "start", recs |-> <<>>, logins |-> <<>>,
         cmds |-> NoCommands, shown |-> NoCommands]

Take(w, t) == task[w] = Idle /\ task' = [task EXCEPT ![w] = t]
Done(w) == task' = [task EXCEPT ![w] = Idle]
Goto(w, at) == task' = [task EXCEPT ![w].at = at]
At(w, op, at) == task[w].op = op /\ task[w].at = at

RecordsInit ==
  /\ run = [s \in Sessions |-> "idle"]
  /\ rec = [s \in Sessions |-> [status |-> "none", text |-> FALSE, count |-> 0]]
  /\ login = [s \in Sessions |-> "none"]
  /\ rows = NoCommands
  /\ task = [w \in Workers |-> Idle]
  /\ stranded = {}

-----------------------------------------------------------------------------
(* The proxy.                                                               *)

\* A session begins at the proxy.
OpenAtProxy(s) ==
  /\ run[s] = "idle"
  /\ run' = [run EXCEPT ![s] = "open"]
  /\ UNCHANGED <<db, task, stranded>>

\* It ends and the proxy posts CloseSession, whose UPDATE goes to
\* session_histories: no code inserts into that table, so that no row matches.
CloseAtProxy(s) ==
  /\ run[s] = "open"
  /\ run' = [run EXCEPT ![s] = "ended"]
  /\ UNCHANGED <<db, task, stranded>>

\* What a report may say of s: active, and closed once it has ended.
Reportable(s, status) ==
  /\ run[s] # "idle"
  /\ status = "closed" => run[s] = "ended"

-----------------------------------------------------------------------------
(* Sessions and their logins: ReportSession, SyncSessions.                  *)

\* Mistake: the live report leaves the login record to the batches.
ReportSessionOnly(w, s) ==
  /\ Reportable(s, "active")
  /\ Take(w, [Idle EXCEPT !.op = "report", !.at = "find",
                          !.recs = <<[s |-> s, status |-> "active"]>>])
  /\ UNCHANGED <<run, db, stranded>>

ReportSession(w, s) ==
  /\ Reportable(s, "active")
  /\ LET row == <<[s |-> s, status |-> "active"]>>
     IN  Take(w, [Idle EXCEPT !.op = "report", !.at = "find",
                              !.recs = row, !.logins = row])
  /\ UNCHANGED <<run, db, stranded>>

\* The places kept are those of the items that have a time, in their order.
Keeps(batch, kept) ==
  /\ \A i, j \in DOMAIN kept : i < j => kept[i] < kept[j]
  /\ {kept[i] : i \in DOMAIN kept} = {i \in DOMAIN batch : batch[i].time = "good"}

\* One time nobody can parse refuses the batch; an item without one is skipped.
SyncSessions(w, batch) ==
  /\ \A i \in DOMAIN batch :
       batch[i].time # "bad" /\ Reportable(batch[i].s, batch[i].status)
  /\ \E n \in DOMAIN batch : \E kept \in [1..n -> DOMAIN batch] :
       LET sessions == [i \in 1..n |-> batch[kept[i]]]
       IN  /\ Keeps(batch, kept)
           /\ Take(w, [Idle EXCEPT !.op = "sync", !.at = "find",
                                   !.recs = sessions, !.logins = sessions])
  /\ UNCHANGED <<run, db, stranded>>

NextRecording(w) == Head(task[w].recs)
NextLogin(w) == Head(task[w].logins)

\* The worker goes on behind the recording, or the login, it has dealt with.
PastRecording(w) ==
  task' = [task EXCEPT ![w].recs = Tail(@), ![w].at = "find"]
PastLogin(w) ==
  IF Len(task[w].logins) = 1 THEN Done(w)
  ELSE task' = [task EXCEPT ![w].logins = Tail(@), ![w].at = "find"]

\* FirstOrCreate, its SELECT.
FindRecording(w) ==
  /\ task[w].recs # <<>> /\ task[w].at = "find"
  /\ IF rec[NextRecording(w).s].status # "none"
     THEN PastRecording(w)
     ELSE Goto(w, "insert")
  /\ UNCHANGED <<run, db, stranded>>

NewRecording(item) ==
  [status |-> item.status, text |-> item.status = "closed", count |-> 0]

\* Mistake: the batch replaces the row that is there.
CreateRecordingUpsert(w) ==
  /\ task[w].recs # <<>> /\ task[w].at = "insert"
  /\ rec' = [rec EXCEPT ![NextRecording(w).s] = NewRecording(NextRecording(w))]
  /\ PastRecording(w)
  /\ UNCHANGED <<run, login, rows, stranded>>

\* FirstOrCreate, its INSERT.  A login that an earlier batch inserted without its
\* recording, and that calls the session active, is one that nothing will close.
CreateRecording(w) ==
  /\ task[w].recs # <<>> /\ task[w].at = "insert"
  /\ LET item == NextRecording(w)
     IN  /\ rec[item.s].status = "none"
         /\ rec' = [rec EXCEPT ![item.s] = NewRecording(item)]
         /\ stranded' = IF item.status = "closed" /\ login[item.s] \in OpenLogin
                        THEN stranded \cup {<<item.s, "open">>} ELSE stranded
  /\ PastRecording(w)
  /\ UNCHANGED <<run, login, rows>>

\* Either statement fails: for a row inserted since the SELECT, or for any other
\* reason.  ReportSession answers 500, SyncSessions drops the error and goes on.
RefuseRecording(w) ==
  /\ task[w].recs # <<>> /\ task[w].at \in {"find", "insert"}
  /\ IF task[w].op = "sync" THEN PastRecording(w) ELSE Done(w)
  /\ UNCHANGED <<run, db, stranded>>

AtLogins(w) == task[w].recs = <<>> /\ task[w].logins # <<>>

FindLogin(w) ==
  /\ AtLogins(w) /\ task[w].at = "find"
  /\ IF login[NextLogin(w).s] # "none" THEN PastLogin(w) ELSE Goto(w, "insert")
  /\ UNCHANGED <<run, db, stranded>>

\* A login recorded as active under a recording that has been closed since is
\* another one that nothing will close.
CreateLogin(w) ==
  /\ AtLogins(w) /\ task[w].at = "insert"
  /\ LET item == NextLogin(w)
     IN  /\ login[item.s] = "none"
         /\ login' = [login EXCEPT ![item.s] = item.status]
         /\ stranded' = IF item.status = "active" /\ rec[item.s].status = "closed"
                        THEN stranded \cup {<<item.s, "open">>} ELSE stranded
  /\ PastLogin(w)
  /\ UNCHANGED <<run, rec, rows>>

\* Either statement fails, and both handlers drop the error.
RefuseLogin(w) ==
  /\ AtLogins(w) /\ task[w].at \in {"find", "insert"}
  /\ stranded' = IF login[NextLogin(w).s] = "none"
                 THEN stranded \cup {<<NextLogin(w).s, "missing">>} ELSE stranded
  /\ PastLogin(w)
  /\ UNCHANGED <<run, db>>

-----------------------------------------------------------------------------
(* Commands: ReportCommand, SyncCommands, AuditCommand.                     *)

\* The commands of a batch, and those inserted or about to be.
Total(cmds) == MapThenSumSet(LAMBDA s : cmds[s], Sessions)
Pending ==
  Total(rows)
    + MapThenSumSet(LAMBDA w : IF task[w].at = "rows" THEN Total(task[w].cmds) ELSE 0,
                    Workers)

InsertAndCount(w, cmds) ==
  /\ Pending + Total(cmds) <= MaxRows
  /\ \A s \in Sessions : cmds[s] > 0 => run[s] # "idle"
  /\ Take(w, [Idle EXCEPT !.op = "commands", !.at = "rows", !.cmds = cmds])
  /\ UNCHANGED <<run, db, stranded>>

\* One command of a proxy's session, or of one of the server's own.
ReportCommand(w, s) == InsertAndCount(w, [NoCommands EXCEPT ![s] = 1])
AuditCommand(w, s) ==
  /\ run[s] \in {"open", "ending"}
  /\ InsertAndCount(w, [NoCommands EXCEPT ![s] = 1])

\* A batch: how many of each session, those without a time left out.
SyncCommands(w, cmds) ==
  /\ cmds # NoCommands
  /\ InsertAndCount(w, cmds)

\* Mistake: a failed INSERT is logged and counted.
CreateCommandsAnyway(w) ==
  /\ At(w, "commands", "rows")
  /\ rows' \in {rows, [s \in Sessions |-> rows[s] + task[w].cmds[s]]}
  /\ Goto(w, "count")
  /\ UNCHANGED <<run, rec, login, stranded>>

\* CreateInBatches: the rows are inserted in one transaction.
CreateCommands(w) ==
  /\ At(w, "commands", "rows")
  /\ rows' = [s \in Sessions |-> rows[s] + task[w].cmds[s]]
  /\ Goto(w, "count")
  /\ UNCHANGED <<run, rec, login, stranded>>

\* The INSERT fails, and nothing is counted.
RefuseCommands(w) ==
  /\ At(w, "commands", "rows")
  /\ Done(w)
  /\ UNCHANGED <<run, db, stranded>>

\* Mistake: the counting is repeated.
CountEveryTime(w) ==
  /\ At(w, "commands", "count")
  /\ \E s \in Sessions :
       /\ task[w].cmds[s] > 0
       /\ rec' = [rec EXCEPT ![s].count =
                    IF rec[s].status = "none" THEN @ ELSE @ + task[w].cmds[s]]
  /\ UNCHANGED <<run, login, rows, task, stranded>>

\* command_count + n for one session of the batch after another, in the order
\* of a Go map; a recording that is not there yet is not counted up, nor is one
\* whose UPDATE fails.
CountCommands(w) ==
  /\ At(w, "commands", "count")
  /\ \E s \in Sessions :
       LET left == [task[w].cmds EXCEPT ![s] = 0]
       IN  /\ task[w].cmds[s] > 0
           /\ \/ rec' = [rec EXCEPT ![s].count =
                           IF rec[s].status = "none" THEN @ ELSE @ + task[w].cmds[s]]
              \/ UNCHANGED rec
           /\ IF left = NoCommands THEN Done(w)
              ELSE task' = [task EXCEPT ![w].cmds = left]
  /\ UNCHANGED <<run, login, rows, stranded>>

-----------------------------------------------------------------------------
(* Sessions of the API server: DatabaseAuditor.                             *)

\* The terminal handler logs every error of its auditor and goes on: an UPDATE
\* may fail, or find no row because the INSERT failed.
Update(status, new) == {status, IF status = "none" THEN status ELSE new}

AuditLoginStart(s) ==
  /\ run[s] = "idle"
  /\ run' = [run EXCEPT ![s] = "dialling"]
  /\ login' \in {login, [login EXCEPT ![s] = "connecting"]}
  /\ UNCHANGED <<rec, rows, task, stranded>>

\* AuditLoginSuccess: the login is active, then the recording is inserted.
AuditLoginActive(s) ==
  /\ run[s] = "dialling"
  /\ run' = [run EXCEPT ![s] = "starting"]
  /\ \E k \in Update(login[s], "active") : login' = [login EXCEPT ![s] = k]
  /\ UNCHANGED <<rec, rows, task, stranded>>
AuditRecording(s) ==
  /\ run[s] = "starting"
  /\ run' = [run EXCEPT ![s] = "open"]
  /\ rec' \in {rec, [rec EXCEPT ![s] = NewRecording([status |-> "active"])]}
  /\ UNCHANGED <<login, rows, task, stranded>>

AuditLoginFailed(s) ==
  /\ run[s] = "dialling"
  /\ run' = [run EXCEPT ![s] = "ended"]
  /\ \E k \in Update(login[s], "failed") : login' = [login EXCEPT ![s] = k]
  /\ UNCHANGED <<rec, rows, task, stranded>>

\* AuditSessionEnd: the recording gets its text, then the login is completed.
AuditSessionEnd(s) ==
  /\ run[s] = "open" /\ rec[s].status # "none"
  /\ run' = [run EXCEPT ![s] = "ending"]
  /\ rec' = [rec EXCEPT ![s].status = "closed", ![s].text = TRUE]
  /\ UNCHANGED <<login, rows, task, stranded>>

\* There is no recording, or its SELECT or UPDATE fails: the login is left alone.
AuditEndFails(s) ==
  /\ run[s] = "open"
  /\ run' = [run EXCEPT ![s] = "ended"]
  /\ UNCHANGED <<db, task, stranded>>

\* Mistake: the login is completed only when it had become active.
AuditLogoutActive(s) ==
  /\ run[s] = "ending"
  /\ run' = [run EXCEPT ![s] = "ended"]
  /\ login' = [login EXCEPT ![s] = IF @ = "active" THEN "completed" ELSE @]
  /\ UNCHANGED <<rec, rows, task, stranded>>

\* The UPDATE of the login may fail, and the error is only logged.
AuditLogout(s) ==
  /\ run[s] = "ending"
  /\ run' = [run EXCEPT ![s] = "ended"]
  /\ \E k \in Update(login[s], "completed") :
       /\ login' = [login EXCEPT ![s] = k]
       /\ stranded' = IF k \in OpenLogin THEN stranded \cup {<<s, "open">>}
                      ELSE stranded
  /\ UNCHANGED <<rec, rows, task>>

-----------------------------------------------------------------------------
(* The administrator: TerminateSession and the replay page.                 *)

Subject(w) == task[w].recs[1].s

\* The row is read; only one that is active goes on.
TerminateSession(w, s) ==
  /\ rec[s].status = "active"
  /\ Take(w, [Idle EXCEPT !.op = "terminate",
                          !.at = IF s \in ProxySessions THEN "proxy" ELSE "recording",
                          !.recs = <<[s |-> s]>>])
  /\ UNCHANGED <<run, db, stranded>>

\* Mistake: a proxy that does not answer does not stop the update.
TerminateAtProxyAnyway(w) ==
  /\ At(w, "terminate", "proxy")
  /\ run' \in {run, [run EXCEPT ![Subject(w)] = "ended"]}
  /\ Goto(w, "recording")
  /\ UNCHANGED <<db, stranded>>

\* The proxy's DELETE: it ends the session and says so, or the call fails, or
\* the proxy is unknown, and the administrator is told that nothing was done
\* (an answer that is lost is a failure, and the session's own end).
TerminateAtProxy(w) ==
  /\ At(w, "terminate", "proxy")
  /\ \/ /\ run' = [run EXCEPT ![Subject(w)] = "ended"]
        /\ Goto(w, "recording")
     \/ /\ UNCHANGED run
        /\ Done(w)
  /\ UNCHANGED <<db, stranded>>

\* Mistake: the empty recording the administrator has of it is written too.
TerminateBlank(w) ==
  /\ At(w, "terminate", "recording")
  /\ rec' = [rec EXCEPT ![Subject(w)].status = "closed", ![Subject(w)].text = FALSE]
  /\ Goto(w, "login")
  /\ UNCHANGED <<run, login, rows, stranded>>

\* The columns status, end_time and duration, whatever the row says by now.
TerminateRecording(w) ==
  /\ At(w, "terminate", "recording")
  /\ rec' = [rec EXCEPT ![Subject(w)].status = "closed"]
  /\ Goto(w, "login")
  /\ UNCHANGED <<run, login, rows, stranded>>

\* The UPDATE fails: the administrator is told so, though the session is over.
TerminateFails(w) ==
  /\ At(w, "terminate", "recording")
  /\ Done(w)
  /\ UNCHANGED <<run, db, stranded>>

\* Mistake: the login record is not touched.
TerminateRecordingOnly(w) ==
  /\ At(w, "terminate", "login")
  /\ Done(w)
  /\ UNCHANGED <<run, db, stranded>>

\* Every login record of the session; an error is logged and ignored.
TerminateLogin(w) ==
  /\ At(w, "terminate", "login")
  /\ \/ /\ login' = [login EXCEPT ![Subject(w)] = IF @ = "none" THEN @ ELSE "closed"]
        /\ UNCHANGED stranded
     \/ /\ UNCHANGED login
        /\ stranded' = stranded \cup {<<Subject(w), "open">>}
  /\ Done(w)
  /\ UNCHANGED <<run, rec, rows>>

\* The replay page reads one row, the list every row; the command_count of
\* each is then replaced by a COUNT of its command rows.
GetSessionRecording(w, s) ==
  /\ rec[s].status # "none"
  /\ Take(w, [Idle EXCEPT !.op = "view", !.at = "count",
                          !.cmds = [NoCommands EXCEPT ![s] = rec[s].count]])
  /\ UNCHANGED <<run, db, stranded>>
GetSessionRecordings(w) ==
  /\ Take(w, [Idle EXCEPT !.op = "view", !.at = "count",
                          !.cmds = [s \in Sessions |-> rec[s].count]])
  /\ UNCHANGED <<run, db, stranded>>

\* Mistake: the counter is added to the rows it counts.
ShowRecordingsTwice(w) ==
  /\ At(w, "view", "count")
  /\ task' = [task EXCEPT ![w].at = "shown",
                          ![w].shown = [s \in Sessions |-> rows[s] + task[w].cmds[s]]]
  /\ UNCHANGED <<run, db, stranded>>

\* The error of the COUNT is dropped: a session of which no count has arrived is
\* shown with 0 commands.
ShowRecordings(w) ==
  /\ At(w, "view", "count")
  /\ \E counted \in SUBSET Sessions :
       task' = [task EXCEPT ![w].at = "shown",
                            ![w].shown = [s \in Sessions |->
                                            IF s \in counted THEN rows[s] ELSE 0]]
  /\ UNCHANGED <<run, db, stranded>>

\* The page goes to the administrator.
AnswerPage(w) ==
  /\ At(w, "view", "shown")
  /\ Done(w)
  /\ UNCHANGED <<run, db, stranded>>

-----------------------------------------------------------------------------
WorkerSymmetry == Permutations(Workers)

Batches == UNION {[1..n -> Item] : n \in 1..MaxBatch}
CommandBatches ==
  {c \in [Sessions -> 0..MaxBatch] :
     Total(c) <= MaxBatch /\ \A s \in ServerSessions : c[s] = 0}

ProxyStep == \E s \in ProxySessions : OpenAtProxy(s) \/ CloseAtProxy(s)

ServerStep ==
  \E s \in ServerSessions :
    \/ AuditLoginStart(s) \/ AuditLoginActive(s) \/ AuditLoginFailed(s)
    \/ AuditRecording(s)
    \/ AuditSessionEnd(s) \/ AuditEndFails(s) \/ AuditLogout(s)

Receive(w) ==
  /\ task[w] = Idle
  /\ \/ \E s \in ProxySessions : ReportSession(w, s) \/ ReportCommand(w, s)
     \/ \E s \in ServerSessions : AuditCommand(w, s)
     \/ \E batch \in Batches : SyncSessions(w, batch)
     \/ \E cmds \in CommandBatches : SyncCommands(w, cmds)
     \/ \E s \in Sessions : TerminateSession(w, s) \/ GetSessionRecording(w, s)
     \/ GetSessionRecordings(w)

Serve(w) ==
  \/ FindRecording(w) \/ CreateRecording(w) \/ RefuseRecording(w)
  \/ FindLogin(w) \/ CreateLogin(w) \/ RefuseLogin(w)
  \/ CreateCommands(w) \/ RefuseCommands(w) \/ CountCommands(w)
  \/ TerminateAtProxy(w) \/ TerminateRecording(w) \/ TerminateFails(w)
  \/ TerminateLogin(w)
  \/ ShowRecordings(w) \/ AnswerPage(w)

RecordsNext ==
  \/ ProxyStep \/ ServerStep
  \/ \E w \in Workers : Receive(w) \/ Serve(w)

RecordsSpec == RecordsInit /\ [][RecordsNext]_recordsVars

-----------------------------------------------------------------------------
(* Properties.                                                              *)

Task ==
  [op : {"idle", "report", "sync", "commands", "terminate", "view"},
   at : {"start", "find", "insert", "rows", "count", "shown", "proxy", "recording",
         "login"},
   recs : Seq(Report \cup [s : Sessions]), logins : Seq(Report),
   cmds : [Sessions -> Nat], shown : [Sessions -> Nat]]

Stage == {"idle", "dialling", "starting", "open", "ending", "ended"}

\* The tables and the tasks have their types, and no worker has more to do than
\* a batch holds.
RecordsTypeOK ==
  /\ run \in [Sessions -> Stage]
  /\ rec \in [Sessions -> Recording]
  /\ login \in [Sessions -> LoginStatus]
  /\ rows \in [Sessions -> Nat]
  /\ task \in [Workers -> Task]
  /\ \A w \in Workers :
       Len(task[w].recs) <= MaxBatch /\ Len(task[w].logins) <= MaxBatch
  /\ stranded \subseteq Sessions \X {"missing", "open"}

\* No session escapes the login audit: a proxy's recording has a login record or a
\* worker on the way to insert it, though a report lost its race and gave up
\* half way; unless the database refused a login record of that session.
Audited ==
  \A s \in ProxySessions :
    rec[s].status # "none" /\ login[s] = "none" =>
      \/ <<s, "missing">> \in stranded
      \/ \E w \in Workers : \E i \in DOMAIN task[w].logins :
           task[w].logins[i].s = s

\* A proxy's session that its recording calls closed is over: TerminateSession
\* writes closed only after the proxy has ended it, whatever reports cross.
ClosedIsOver ==
  \A s \in ProxySessions : rec[s].status = "closed" => run[s] = "ended"

\* The login record follows a recording that is closed, unless TerminateSession
\* or the session's own end is about to write it, or it was left behind: a report
\* inserted it too late, a batch before its recording, or its UPDATE failed.
LoginFollows ==
  \A s \in Sessions :
    rec[s].status = "closed" /\ login[s] \in OpenLogin =>
      \/ <<s, "open">> \in stranded
      \/ run[s] = "ending"
      \/ \E w \in Workers : At(w, "terminate", "login") /\ Subject(w) = s

\* command_count never runs ahead of the command rows: ReportCommand,
\* SyncCommands and AuditCommand insert before they count, every command once,
\* whatever batches of the same session are counted at the same time.
CountsRows == \A s \in Sessions : rec[s].count <= rows[s]

\* The three tables agree about every session: recording, login record, command
\* rows and end of the session, whoever writes them, in whatever order.
RecordsAgree == RecordsTypeOK /\ Audited /\ ClosedIsOver /\ LoginFollows /\ CountsRows

\* What has been recorded stays: no late report, batch or termination reopens
\* a recording, drops its text or lowers its command count; and a replay page,
\* which counts the rows, shows every command that the counter had said and none
\* that is not there (ReportCommand, SyncCommands and AuditCommand insert before
\* they count), or 0 when its COUNT failed.
NothingLost ==
  [][/\ \A s \in Sessions :
          /\ rec[s].status = "closed" => rec'[s].status = "closed"
          /\ rec[s].status = "active" => rec'[s].status # "none"
          /\ rec[s].text => rec'[s].text
          /\ rec'[s].count >= rec[s].count
     /\ \A w \in Workers :
          At(w, "view", "count") /\ At(w, "view", "shown")' =>
            \A s \in Sessions :
              LET n == task'[w].shown[s]
              IN  n = 0 \/ (task[w].cmds[s] <= n /\ n <= rows[s])]_recordsVars

=============================================================================

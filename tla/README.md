# zjump: TLA+ models, model checking and proofs

zjump is a bastion: people reach target hosts through it, by SSH or in a browser,
and it decides who may connect where, filters commands, records sessions and keeps
an audit. This directory holds TLA+ models of its server (Go, `src/`), the TLC
configurations that check them on small instances, and TLAPS proofs of what matters
most for every value of the constants. `PROJECT.json` maps every definition to the
lines it models and lists runs, hazards and theorems.

## 1. Inventory

| Part | State | Operations | Modelled in |
|---|---|---|---|
| SSH gateway host sessions (`sshserver/terminal`, `audit`, `sshserver/recorder`, `bastion/recorder`, `bastion/storage`) | handler position, three copiers, context, `errChan`, login and recording rows, event channel, close queue | menu choice, dial, bridge, wait, audit, export, asynchronous close | SessionLife, HostSession |
| Web terminal (`api/handler/connection_handler.go`) | handler position, WebSocket, shell or proxy, copiers, `errChan`, countdown, rows | route, dial, bridge, report, settle | SessionLife, WebSession |
| Approval tickets (`api/handler/approval*.go`, `approval/`) | ticket row, history, platform instance | create, approve, reject, cancel, callback | Approval |
| Host status check (`service/host_monitor_service.go`, `pkg/distributed/redis_lock.go`) | lease in Redis, host rows, timers | try lock, renew, unlock, probe, write, check by hand | HostCheck |
| Host monitor ticker (`service/host_monitor_service.go`, `pkg/distributed/config_sync.go`) | configuration, `isRunning`, ticker channels, goroutines | start, stop, reload | HostMonitor |
| Command interception and rules (`sshserver/terminal/handler.go`, `connection_handler.go`, `bastion/blacklist`) | command buffer, keys on their way, cached rules | key presses, check, erase, refresh, edit | CommandGate, CommandFilter, Blacklist |
| SSH gateway server (`sshserver/server`, `sshserver/auth`, `pkg/sshkey`, `cmd/api-server`) | instances, host keys (row, file, memory), sessions with what has been read of the user, registry, contexts | start, load or create the key, password and key login, second factor, register, sweep, stop, exit | HostKey, Gateway |
| SSH gateway menu (`sshserver/terminal/menu_v2.go`, `selector.go`) | groups and hosts loaded, page, what is on the screen | prompts, pages, refresh, pick | HostMenu |
| Accounts, tokens, second factor, expiration of users (`service/auth_service.go`, `api/handler/auth_handler.go`, `twofactor_handler.go`, `middleware`, `service/expiration_service.go`) | the row of a user, tokens, the policy, the sweep's list | register, log in, edit, enrol, warn, disable | Account |
| Permissions, hosts and host groups, expiration of rules (`repository/`, rule, group and host handlers, keys and cascades of `sql/init.sql`) | groups, members, system users, rules, hosts, the sweep | create, edit, delete with what the schema deletes too, assign, query, disable | Permissions |
| Connection and file requests, session tokens, routing (`connection_handler.go`, `file_handler.go`, `router`, `session_service.go`) | a request and what it has read, tokens, settings, transfer rows | validate, check, list, route, open, transfer | Access |
| Proxy agents (`bastion/registry`, `cmd/proxy-agent`, `proxy_handler.go`, `proxy_monitor.go`) | the agent's life, its requests on the way, proxy rows, probes | register, beat, unregister, probe | ProxyRegistry |
| Session records (`proxy_handler.go`, `session_service.go`, `audit`) | recordings, logins, command rows | report, synchronise, terminate, show | SessionRecords |
| Asset synchronisation | configurations, schedules | synchronise | not modelled |
| Notifications, settings, metrics | rows | one statement per request | not modelled |
| Command extraction, web user interface, infrastructure, unused protocol code | text; none; none; none | | not modelled |

How they interact. The gateway server accepts a connection and calls the terminal
handler in the connection's goroutine; the handler shows the menu and opens host
sessions one after the other. Each starts three copiers, which share the recorder,
the auditor and an error channel with it. Closing a session queues a request that a
worker of `DatabaseStorage` writes later. The web terminal does the same in the
goroutine of an HTTP request, on a WebSocket. Both filters consult a `Manager` that
caches the rules of one table. Requests and callbacks of approval tickets meet only
in the database row. Server instances meet in the database, in one Redis lock, and
on a Redis channel for configuration changes, whose messages each run a listener in
a goroutine.

What is hard: goroutines that outlive the operation that started them; a channel
closed while another goroutine sends; a select that two things end; sections under a
lock that make up an operation without one; rows read, tested and written without a
transaction; leases that run out under their holder; messages delivered late, twice
or never; a process that pauses, crashes or shuts down in between.

What makes each part correct: audit rows that agree and are settled however a session
ends; no lost or erased recording; no write into a closed channel; one decision per
ticket, on somebody's request, and final for the API; one checker at a time and rows that
show the latest probe; one ticker that follows the configuration; a refused command that
never runs; no connection without a grant that was in force since it was asked for, none
around its host's proxy, and lists that agree with the checks whatever was deleted;
accounts whose columns fit together however saves overtake each other, disabled when due
and in the end; a table of proxies that follows the agents; recordings and logins that
agree and lose nothing; one shared host key, logins held to their second factor, and a
number that picks the host shown.

## 2. Plan

Done, in this order: HostSession, Approval, HostCheck, WebSession, Blacklist with
CommandGate and CommandFilter, HostMonitor; proofs for the first four; Account,
ProxyRegistry, SessionRecords, Permissions with Access (which composes them with the
routing settings and the proxies of ProxyRegistry), HostKey and HostMenu, which Gateway
composes; SessionLife, which HostSession and WebSession implement; and proofs of every
safety property of the runs, the two refinements included (section 5).

Next: AssetSync, overlapping synchronisations that look for a host and insert it later.

## 3. The modules

Every module keeps the source's names where it can. A definition whose comment begins
with "Mistake:" is a wrong variant of the definition that follows it: put in its place
it makes a property fail, which shows that the property depends on that code. No other
definition uses one.

**SessionLife** is the abstract promise of the audit, for any set of sessions: each is
given up, or tried with a login on record first; it then fails, or opens and gets a
recording and then an active login (between the two statements it is "opening"), and ends
once; a row goes from one status to the next and is never taken back.
A statement that fails leaves its row as it was and is counted in `lost`; an end without
any completes both rows. What was lost at the end may be made up for later (`EndAgain`),
which is what the queue of `DatabaseStorage` does. Both implementations are shown by a
refinement mapping, `ImplementsLife`: HostSession maps each of its host sessions
(`LifeOf`, from the handler's position), WebSession its one connection (`Stage`); the rows
are their rows, `lost` is `faults`.

**HostSession** is one client connection of the gateway: the menu loop and up to
`MaxHosts` host sessions. `pc` is the handler's goroutine; `pump` the copiers, whose
chunks are counted. A recorder event is tested and sent in two steps, as in
`RecordOutput`. The recorder's channel, the list it is drained into and the export are
separate, and so is the queue that writes the recording back. `Cancel` is the server's
sweep, `Stop` and `ProcessExit` are the shutdown of `main`. Database statements may
fail, `MaxFaults` times.

**WebSession** is one web terminal connection, direct or through a proxy. All checks of
`HandleConnection` are one refusal. The INSERT of the recording and the UPDATE of the
login, between which the rows disagree, are two steps. A write to the browser begins and
ends in two steps, because gorilla/websocket panics on a second writer; a write to the
target may block as long as the target is up. The counters and times in
the host's row are left out.

**Approval** is one ticket with any number of requests. Reading the row, writing it and
recording the action are three steps. The platform's own instance may be decided there,
and its status is posted to the callback any number of times, late or never. The callbacks
are served without authentication and look for `external_id` whatever it is, and an
internal ticket has an empty one; so any event, with any status, may reach any ticket
through any of the three addresses. `heard` remembers the events that said "approved" in
the words of their platform. It is assumed that a client creates no ticket with
`approved_at` set. The grant that an approval should cause is a TODO in the code and so
not in the model.

**HostCheck** is any number of instances, a lease in Redis, and host rows. Time is
discrete; `Pause` lets a process miss its timers. `Unlock` is modelled as written: it
cancels the context first, so that the release fails. Other writers of the status
column (host administration) are left out; a check by hand is in.

**HostMonitor** is the ticker behind HostCheck's ticks. Each section under `tickerMu` or
`configMu` is one step, for any number of concurrent callers of `ReloadConfig`.

**CommandGate** is the abstract promise of the command filter: a line is typed, and on
Enter runs or is refused by the rules of that moment. **CommandFilter** is the code:
every key is forwarded at once, a copy is kept, and a refused line is erased at the
target, by Ctrl+C or by counted backspaces. A character beyond ASCII (`Wide`) is several
bytes: the gateway forwards them and copies none, the web terminal copies each, and a
backspace takes one byte off the copy. On such a line the copy parts from the line the
target holds, and the gate leaves open whether it runs or is refused; one that is refused
still leaves nothing behind. `ImplementsGate` is the refinement: the
abstract line, and what ran, are what the target will have when it has read the keys on
their way. The input is a line typed key by key at a shell prompt;
nothing is claimed of pasted text, other control keys or programs that are no shell.
**Blacklist** has the matching of rules as operators; `AdvancedDetector` is left out.

**Account** is one user name with its row, its tokens and any number of requests. Each
request reads the row and writes it back later, whole, as `db.Save` does; the check of the
expiration service, one on every server (`Checks`), lists users, sends the warning, sets
the mark, lists again and disables, one step each. The errors of its updates are not
looked at; `MaxFaults` counts those and the checks that a failed query or a restart breaks
off. Passwords, names and mail are columns like the others and left out. `lastAdmin`,
`told`, `crossed`, `unmarked`, `created` and `keyless` remember what the properties need.
`RenewUserExpiration` has no route in the code; it is allowed all the same.

**ProxyRegistry** is one or more agents and their life: start, listen, register, beat,
stop, crash, start again elsewhere. A request is on its way in one of `MaxRequests`
slots until it is served or lost; its sender may have given up by then. The monitor reads
the rows, probes and writes one status after the other. `SharedAddrs` are addresses
somebody else answers at, since `/health` does not tell who answers.

**SessionRecords** is the three audit tables and every handler that writes or shows them,
for sessions of a proxy and of the server. `FirstOrCreate` is a SELECT and an INSERT. Any
statement may fail, and what the handlers do then, mostly nothing, is modelled.
A report may be served at any time, and any number of times, if it describes a state its
session has been in. A proxy's `CloseSession` updates `session_histories`, which nothing
fills, so that it changes nothing here. `stranded` holds the sessions whose login the
database refused ("missing") or that was left open for good ("open"): a report inserted it
after the termination, a batch before its recording, or its update failed.
A batch is read in two parts: `Keeps` says which places of it have a time, and the worker
then goes through the items at those places.

**Permissions** has the tables that decide who may use what, every handler that edits
them, the four queries that read them, and the expiration of rules. Edits that read and
save (hosts, host groups) or that make two statements (assigning groups) are two steps.
The schema is that of `sql/init.sql`, since AutoMigrate is off (`database.go` 39): a row that
refers to a missing one, and a member inserted twice, are refused, and deleting a group, a
host group, a host or a system user deletes the members and the rules that refer to it
(`Referenced`, `Cascade`). Users are deleted by a mark in their row, so that cascades from
them never happen. As in the code, a rule cannot be disabled or lose its dates by an
update, and a rule without a host group grants no host group at all
(`model/system_user.go` 77 says it means every host). `renewed` remembers the rules given
another date after the sweep read them. **Access** is the requests: over the
web, by SSH, for files; each read is a step. A file request connects from the server,
whatever proxy the host has, and so does SSH. `seen` and `steady` remember what has held
since a request began.

**HostKey** is the start of server instances up to the point where they listen: the key
from the table, generated and inserted (the unique index refuses the second), from a
file, or none. **HostMenu** is the menu of a session, with each query answered, failing or
empty, and what stands on the screen beside what is loaded. **Gateway** composes them:
authentication, which reads the user again at each step, the second factor, the registry,
the sweep and the shutdown. `blind` marks a session whose second factor was skipped
because a read failed. From the menu on, a connection is HostSession's.

## 4. The runs

Runs that pass:

| Run | Instance | Shows |
|---|---|---|
| host_session | 2 host sessions, 1 output copier, capacities 1, 1 failing write | audit rows settle and agree; a recording is never erased; the recorder's panic and a stale reader need an early end; the sessions implement SessionLife |
| host_session_live | 1 host session, fair goroutines | the handler leaves an ended session |
| approval | 3 requests, 3 platforms, 1 failing write, symmetric requests | a row has the time of its decision, and of one only unless a callback came; approvals on request; a history, or a callback, that explains the status; a decision final but for callbacks, once the requests that raced for it are through |
| host_check | 2 instances, 1 host, interval 3, expiry 6, renewal 2, 1 failure, 1 check by hand | one checker; rows show the latest probe; leases extended only by their holder; a crashed holder's lease ends |
| web_session | `errChan` of 2, 2 chunks, 1 failing statement, fair goroutines | rows agree and are settled; what a crash needs; a browser that leaves ends the request unless the target keeps it waiting; `errChan` has room for whoever posts and no copier stays blocked; the connection implements SessionLife |
| command_filter | 4 keys over 3 characters and one beyond ASCII, 3 rule sets, 1 edit, 1 failed read, patterns up to 3 characters | the filter implements CommandGate; a rule change reaches the web filter; on every line of up to 4 characters the greedy match agrees with one that tries every way to place the stars |
| host_monitor | 2 callers, 2 reloads, 1 save, 3 tickers, fair goroutines | one ticker that follows the configuration while no two reloads have overlapped; even then no stop signal twice, and every call returns; who waits for a ticker waits for one told to stop |
| account | 2 requests at a time, 3 in all, without checks; 2 requests one by one against 2 checks with 1 failing statement; 2 days, 1 secret, warning and token of 1 day | no save leaves half a second factor, a method without its key or two rows; an administrator's token does not outlive the role by more than its life; marks tell the truth about warnings but for the crossings named; only what is due is disabled, and what stays expired is in the end |
| proxy_registry | 1 agent, 2 starts, 2 addresses (1 shared), 2 requests on the way, 1 monitor | a registered agent has a row with its address; a stopped agent goes offline for good; an agent that serves gets its row |
| session_records | 1 session of each kind, one at a time, 2 workers (symmetric), 3 command rows, batches of 2, any statement failing | no recording without its login but where a statement failed, none closed while it runs, no login left behind but those stranded; no counter ahead of its rows; nothing recorded is lost, and a page shows all that was there or, when its COUNT failed, 0 |
| access | 1 user, 2 groups, 3 system users, 1 host, 2 host groups, 2 rules, 1 proxy, 2 administrators (symmetric), 2 edits, 1 request | connections only on a grant; none around its proxy; whoever is let in through a host group finds the host listed, whatever was deleted or saved again; the sweep lists what has run out; tokens and transfer rows are sound; an assignment revokes |
| gateway | 3 instances (2 share a key, 1 has a file), 3 starts, 2 faults, 1 session, 2 hosts and groups, pages of 1, 2 edits | shared keys agree; logins are entitled and held to their second factor; the registry holds live sessions only; a number picks the host shown |

The modules state more of what comments, messages and documents of the repository say,
and the code does otherwise. These have no run; added to the configuration named, TLC
refutes each.

| Property | Configuration | Says | TLC shows |
|---|---|---|---|
| ShutdownDrainsWrites | HostSession.cfg | `cmd/api-server/main.go` 364: shutdown waits for asynchronous writes | the storage of the gateway's recorder is never closed; a queued CloseSession is lost |
| DecidedOnce | Approval.cfg | `approval_handler.go` 303, 378: a processed ticket cannot be processed again | two requests that read it pending both succeed |
| ProcessedStaysProcessed | Approval.cfg | the same | a late callback, or one without an instance id, makes a decided ticket pending |
| SkippedOnlyWhileChecking | HostCheck.cfg | `host_monitor_service.go` 308: a tick is skipped because another instance checks | the lock of the last check was never released: Unlock cancels the context its script needs (`redis_lock.go` 55) |
| TickerKept | HostMonitor.cfg | `host_monitor_service.go` 31: a mutex protects the ticker | a concurrent reload forgets a new ticker (250) and then closes a nil channel |
| ReturnsToMenuUnprompted | HostSessionLive.cfg | `handler.go` 127: no key is needed | the stdin copier keeps the handler until a key or a disconnect |
| CancelledSessionEnds | HostSessionLive.cfg | `server.go` 674: the session is cancelled | `Wait` on the target has no deadline |
| ExportHasAllEvents | HostSession.cfg | `recorder.go` 148: the export has all events | it can run before the event channel is drained |
| CallbackReadsFeishuStatus | Approval.cfg | `approval_callback_handler.go` 297: Feishu's statuses are mapped | CANCELED and DELETED, which `feishu.go` 189 knows, are not |
| ShellExitEnds | WebSession.cfg | `connection_handler.go` 770: the handler waits for an end | an orderly end of the shell is not reported to it |
| CountdownCancelled | WebSession.cfg | `connection_handler.go` 453: the countdown is cancelled | after a failed dial it never is |

Other behaviour the models show and no property forbids, for a reader who would expect
it otherwise:

- Approval: a callback without an instance id finds an internal ticket and decides it or
  reopens it (`approval_callback_handler.go` 208, 235, 270); a callback leaves the time of
  an earlier decision in the row and no record in the history. Feishu's `CancelApproval`
  sends no instance (`feishu.go` 205), so that a cancelled ticket's instance lives on; a
  callback before the row is inserted is refused and its status never read again; an
  INSERT that fails leaves an instance without a ticket. Changes of a platform's
  configuration count from the next start.
- Command filter: after a character beyond ASCII and a backspace the gateway's copy lacks
  a character that the target's line has (`handler.go` 510), and the rules are asked about
  the copy.
- Proxies: a first registration that is lost while an old row exists is never repeated,
  since heartbeats succeed on the old row and leave its address (`registry.go` 69).
- Records: `TerminateSession` closes the rows of a server session and does not end it; the
  login that `CreateSession` writes is never closed; a proxy's own report of an end closes
  nothing. Errors that are dropped leave a recording without a login (`proxy_handler.go`
  269, 428), a login open under a closed recording (`database_auditor.go` 154,
  `session_service.go` 468), a login without a recording (an INSERT of the batch, 396),
  and a page that shows 0 commands (`session_service.go` 267, 305).
- Access: a system user that a request names may be inactive; a host in a rule's
  `host_ids` may be used and is listed nowhere; a session token's host is not compared; a
  failed read on the way through the tags means a direct connection; saving a host or a
  group that was deleted meanwhile inserts it again; assigning groups is a DELETE and an
  INSERT without a transaction; the sweep disables a rule that was extended after it was
  read. The API and the page offer a switch for rules, but `Updates` skips a `false` and
  the column's default turns a new rule on, so that only the sweep disables one.
  `BatchAddMembers` means to pass over members that are there, but compares with SQLite's
  message (`user_group_repository.go` 172): in MySQL the whole batch is refused.
- Gateway: of two instances that start first together, the one whose INSERT is refused
  runs without an SSH gateway (`main.go` 243); a failed read of the user or the global
  setting skips the second factor (`server.go` 505); the first sweep cancels every
  session, because the start time it compares is never set (`server.go` 675); a group name
  of more than 66 bytes makes the padding negative and panics (`menu_v2.go` 353); the end
  of the input reads as an empty line, so that prompts spin; `Stop` returns before the
  sessions are closed.
- Accounts: a date moved between a check's list and its mark is marked without a warning
  (`expiration_service.go` 121-143); a mark that fails or is broken off, or a second
  server's check, repeats one; an account renewed after it was listed is disabled.
  `/auth/logout` always answers 401; `LoginWithSSO` does not look at the status; a login
  by LDAP always fails; a check interval of 0 makes `time.NewTicker` panic
  (`expiration_service.go` 67).

A last one is visible in the text of Blacklist: `manager.go` 268 calls the comparison
with the first word a prefix match, so that a rule of two words (ARCHITECTURE.md 298
gives `rm -rf`) matches nothing but itself.

Bounds and why they are enough. Two host sessions let one outlive its handler while
the next runs, which is the only way they touch. Capacities of 1 fill a queue with
two events; the code's 1000 and 100 differ only in how many it takes. One failing
write is enough to separate any two rows that are written one after the other; more
failures only make more antecedents false. Three requests give a reader, a writer and
a late one. An expiry of 6 and a renewal of 2 keep the code's ratios (2 intervals, a third);
two instances suffice for a lock, and the proof covers any number. Four keys type, end
and follow a two-letter command; the erasing of a refused line with a blank on either
side needs three. Two concurrent reloads are what one save with two settings causes on
another instance. Three requests on an account, two at a time, give an old copy, the
write it undoes and one that reads the result; two days, a date that passes; two checks and
one failing statement, each way a mark can be lost or doubled. MCAccount's `Explored`
keeps requests that overtake each other and running checks apart (no check writes a column
that UsersSound is about), so that ExpiredGetsDisabled is about the second of them. One
character beyond ASCII is enough to part a copy from its line. Two starts
of an agent let a request of its first life meet its second. Two workers and a repeated
report are what a race of FirstOrCreate needs, and a session of each kind, one at a time
(MCSessionRecords), since sessions have no row in common; statements fail without a
bound. Two edits beside a request suffice to take a grant away and give
another; the second administrator is there for edits of two statements that overlap. The
gateway's parts meet in little: a connection needs an instance that is up, and a menu a
session. MCGateway's constraint `Explored` therefore explores the starts of three instances
without connections, the logins with one instance up and any user and setting, and
the menu of one kind of user; the three multiplied would only repeat each other.

CHECK_DEADLOCK FALSE: these systems may stop (a connection ends, bounds are used up).
HostCheck and Access run with deadlock checked: time always goes on, and a client can
always ask again.

Fairness. Goroutines of the server that can take a step do so (WF on the handler, each
copier, the workers), because the Go runtime schedules every runnable goroutine. A select
between a ticker and a closed channel chooses at random, so that the closed channel is
taken in the end (SF on CountdownStop and TickerStops). Of the web terminal nothing is
assumed where it waits for somebody else: dialling may take for ever, since the 30 seconds
of `sshclient/client.go` 91 bound only the TCP connection and not the handshake, the
terminal and the shell; a write to the target ends only when the target has gone, one to
the browser when the browser has. DisconnectEnds excepts the first two (`AwaitsTarget`).
The checks of the expiration service and the proxy monitor are woken by timers (WF); their
statements fail finitely often (`MaxFaults`). A proxy agent listens and beats; a request
on its way is served or lost (WF), and one that is repeated for ever is served some time
(SF). Nothing is assumed of users, browsers, targets or administrators.

## 5. The proofs

TLAPS checks eight modules. Each theorem holds for every value of the constants that
satisfies the named assumption of the module it is about. Audit_proofs and
Monitoring_proofs extend the modules of more than one component; HostMonitor,
ProxyRegistry and SessionRecords therefore have names of their own for what the others
call Init, Next, vars, Spec and TypeOK (TickerInit, RegistryNext, recordsVars...).

Each proof is an induction with one step per action. The properties are seldom inductive:
most speak of a moment when something is over, or of rows that agree while nobody is half way
through a write. The invariants add what holds half way. TLC checked them before the proof.

- **HostSession_proofs**: types; AuditRowsAgree, AuditSettled, RecordingNeverErased,
  CopiersSound (PanicOnlyAfterEarlyEnd, StaleReaderOnlyAfterCancel). The properties speak
  of sessions that are over, so the invariants add what holds before: RowsInv and
  SettledInv fix the rows at each position of the handler, ContentInv that no recording is
  stored before its request is done, CopierInv ties each copier to how its bridge ended
  and to the recorder. ImplementsLife, the refinement of SessionLife, follows from
  RowsInv, ContentInv and SettledInv: the position of the handler says which step of its
  life a session takes and what its rows are, and sessions other than the current one
  rest, but for the close that the storage's worker writes late.
- **WebSession_proofs**: types; WebRowsAgree and WebSessionSettled from StageInv, the rows
  and flags at each position of the handler while no statement has failed;
  WebCopiersSound: WebCrashExplained from CrashInv, which says when the recorder can be
  closed under a copier and who can be writing; PostersHaveRoom from PostInv (the stderr
  copier never posts, and each error in `errChan` is that of one of the other two, which
  has ended); ImplementsLife from LifeInv, the rows at each position whatever has failed.
- **Audit_proofs**, about the records an auditor relies on.
  *Approval*: TicketSound from TicketInv (a missing row has no writers, and while no
  callback was served no request holds a time it did not write); DecisionsExplained:
  ApprovedOnRequest from RequestInv (a pending write of an approval has its reason),
  HistoryExplainsStatus from HistoryInv (the action behind the status is on record, or its
  request is about to record it); DecisionFinal from the two, since a request that is
  about to write has read the ticket pending.
  *SessionRecords*: RecordsAgree and NothingLost. Audited says that some worker is on the
  way to the missing login, which is not inductive, since a live report that loses the
  race for the recording gives up before its login. LoginInv asks for a worker that is
  *sure* to get there; whoever won that race is one, and its own failed INSERT is noted in
  `stranded`. RunInv says that only the server's own sessions take time to end and that
  they have no recording before they run. WorkerInv holds a task against the tables: every
  login of a batch has its recording or will have it, a termination past the proxy's
  answer is about a session that is over. CountsRows needs room in each counter for the
  sum of what all workers still have to count; a sum over a set would need induction over
  data, so CountInv asks instead for *some* running total along an enumeration of the
  workers that has room for each of them, and every step says how to change it.
- **Monitoring_proofs**. *HostCheck*: types; OneChecker from LeaseInv: as long as nothing
  fails, a checking instance holds the key with `ttl >= Expiry - Period + due`, so that it
  renews before the lease ends; RowsShowLatestProbe from RowInv (what a check in progress
  has done to each row), which needs OneChecker; ExtendedByOwner, whatever fails.
  *HostMonitor*: TickersSound for any number of callers. HandedInv says that a ticker is
  handed to one caller to be stopped; the rest follows the one call there is while none
  overlap. Its part WaitsForStopped holds however they overlap: it is what safety says of
  ReloadsReturn, that nobody waits for a ticker that nobody stops. *ProxyRegistry*:
  RegistrySound for any number of agents, requests and monitors. SenderInv says which
  goroutine of which run waits for a request, ProcessInv that only a process that runs
  sends heartbeats.
- **Gateway_proofs**: SharedKeysAgree from KeysInv (the row a key was taken from is filled
  for good), PickedIsShown and GatewaySound from ServerInv (the list a menu keeps is the
  one shown, or empty), LoginGuarded from LoginStateInv (what has been seen of the account
  at each position of a login).
- **Access_proofs**: OpenedByGrant, NeverAroundProxy, GrantsSound and AssignmentRevokes.
  The invariant ties what a request carries to what has been seen since it began, for each
  kind of request and each read, whatever the administrators write in between.
  ReferencesInv says that members and rules refer to rows that exist, which every delete
  keeps by its cascades and every insert by its foreign keys; that a host let in is also
  listed follows from it. AssignInv says what groups a user has between the DELETE and the
  INSERT of an assignment.
- **CommandFilter_proofs**: FilterSound (the filter's copy of a line of ASCII is the line
  the shell will have, and the web terminal's copy of any line is long enough to erase it
  by; inductive with the types of what the target will hold, FilterInv) and
  ImplementsGate, the refinement of CommandGate: every step of the filter is a step of the
  gate or none, whatever the rules match. What the shell makes of the keys on their way,
  `Settled`, is a recursive function of their number; what one more key changes is shown
  for the least number at which it would fail (WFMin on the natural numbers), since the
  library's induction cannot be applied. GreedyFindsEveryMatch holds for patterns and
  lines of any length. `Split`, `matchPattern` and the reference `Glob` are recursive
  functions; the proof first shows, again by least numbers, that a computation by rounds
  exists and is unique (so that the definitions may be unfolded), then follows `Split` and
  the columns of `Glob` character by character along the pattern: the least place the
  greedy match has reached is the least one at which the reference can be (FoundFirst,
  OneFurther), so that never going back loses nothing.
- **Account_proofs**: UsersSound, WarningsMatchDate and DisabledWhenDue, for any number of
  requests and checks. CopiesInv says of every copy that a request may still save what is
  said of the row; AdminInv dates administrators' rows, copies and tokens; WarnInv says of
  every mark, in copies too, that its date was told about or crossed a check, and what a
  check between its list and its mark holds; SweepInv, that a listed account had expired
  when its check began.

The assumptions are those of the code: bounds are natural numbers, the sets whose order or
size matters are finite (hosts and groups of a menu, workers), methods of an account are
the two that the handlers accept, the expiry of the lock exceeds its renewal, sessions of
a proxy are not the server's, patterns are finite sequences, and names used for control
are not also names of requests or keys.

Only model-checked: the liveness properties (EndedSessionReturns, CrashedLeaseEnds,
DisconnectEnds, CopiersEnd, RulesArrive, ReloadsReturn, ExpiredGetsDisabled,
StoppedGoesOffline, ServingGetsRow), because temporal proofs under fairness and ENABLED
are out of the prover's reach. Of two of them the safety they rest on is proved:
PostersHaveRoom (in WebCopiersSound) for CopiersEnd, WaitsForStopped (in TickersSound) for
ReloadsReturn. Every invariant, action property and refinement that a run checks is a
theorem.

## 6. Not modelled

The parts marked so in the inventory: text processing (prompts, regular expressions,
file listings), formats and layout, protocols of libraries (SSH, WebSocket, LDAP, TOTP),
plain queries and settings, and the user interface. Asset synchronisation is mostly the
parsing of foreign formats; its two hazards (`asset_sync_service.go` 236: a host looked
for and inserted later; 84: a configuration saved whole) have their like in Account and
Permissions. Code that nothing calls: the handlers of `bastion/websocket` and
`bastion/protocol` (the agent's main installs none), `sshserver/protocol/custom_ssh.go`, the
older menu `menu.go`, `authenticator.go`, PasswordHandler and MFAHandler, the gateway's
MaxSessions, IdleTimeout and failed-attempt counter, functions that list and delete host
keys, the router's connectivity cache, `ValidateHostInRule`, `RenewPermissionExpiration`,
the providers' `GetApprovalStatus` and `HandleCallback`, most of `DatabaseStorage`.
A crash of the server in the middle of a request is modelled for gateway sessions and the
expiration checks, and not in SessionRecords, where a failing statement leaves the same rows.
Cryptography and the strength of authentication are not the subject of these models.

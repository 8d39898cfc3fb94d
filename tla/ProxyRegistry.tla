----------------------------- MODULE ProxyRegistry -----------------------------
(***************************************************************************)
(* Proxy agents and the API server's table of them.  An agent               *)
(* (cmd/proxy-agent/main.go over bastion/registry/registry.go) registers     *)
(* when it starts, sends heartbeats and unregisters when it stops; the       *)
(* server (api/handler/proxy_handler.go) keeps a row per proxy ID; a         *)
(* monitor (service/proxy_monitor.go) probes every row's address and         *)
(* corrects its status.                                                     *)
(*                                                                         *)
(* Requests travel over a network that may lose them, and the agent stops    *)
(* waiting for an answer after a while: a request can be served after its     *)
(* sender has given up, has stopped, or has been started again.  A database   *)
(* error answers like a lost request and is not told apart from it.          *)
(***************************************************************************)
EXTENDS Naturals, FiniteSets

CONSTANTS
  Proxies,     \* proxy IDs
  Addrs,       \* addresses an agent can listen at
  SharedAddrs, \* the ones that agents with other IDs use as well
  MaxRequests, \* requests on their way to the server at a time (bound)
  Monitors,    \* goroutines that may be sweeping at a time
  MaxStarts    \* agent starts (bound)

Nothing == "none"

ASSUME ProxyAssumption ==
  /\ Nothing \notin Proxies /\ Nothing \notin Addrs /\ SharedAddrs \subseteq Addrs
  /\ MaxRequests \in Nat /\ MaxStarts \in Nat

Slots == 1 .. MaxRequests

VARIABLES
  row,      \* the proxies table, by proxy ID
  agent,    \* the agent processes, by the ID they were started with
  slot,     \* the requests on their way
  sweep,    \* the monitor's goroutines
  guest,    \* where an agent with an ID outside Proxies listens
  starts,
  \* History, for the properties only.
  confirmed, \* the present run of the agent had its registration answered
  late       \* a registration of an earlier run was served during the present one

history == <<confirmed, late>>
registryVars == <<row, agent, slot, sweep, guest, starts, history>>

Row == [status : {"absent", "online", "offline"}, addr : Addrs \cup {Nothing}]

Agent ==
  [main : {"down", "registering", "starting", "serving", "unregistering"},
   beat : {"off", "idle", "heartbeat", "retry", "register"},
   addr : Addrs \cup {Nothing}, registered : BOOLEAN]

Request ==
  [kind : {"free", "register", "heartbeat", "unregister"},
   proxy : Proxies \cup {Nothing}, addr : Addrs \cup {Nothing},
   by : {"main", "beat", Nothing}, found : {"unread", "yes", "no"}]

Sweep == [todo : SUBSET Proxies, snap : [Proxies -> Row],
          probed : Proxies \cup {Nothing}, up : BOOLEAN]

RegistryTypeOK ==
  /\ row \in [Proxies -> Row]
  /\ agent \in [Proxies -> Agent]
  /\ slot \in [Slots -> Request]
  /\ sweep \in [Monitors -> Sweep]
  /\ guest \in SharedAddrs \cup {Nothing} /\ starts \in 0 .. MaxStarts
  /\ confirmed \in [Proxies -> BOOLEAN] /\ late \in [Proxies -> BOOLEAN]

FreeSlot == [kind |-> "free", proxy |-> Nothing, addr |-> Nothing, by |-> Nothing,
             found |-> "unread"]
NoRow    == [status |-> "absent", addr |-> Nothing]
Down     == [main |-> "down", beat |-> "off", addr |-> Nothing, registered |-> FALSE]
Resting  == [todo |-> {}, snap |-> [p \in Proxies |-> NoRow],
             probed |-> Nothing, up |-> FALSE]

RegistryInit ==
  /\ row = [p \in Proxies |-> NoRow]
  /\ agent = [p \in Proxies |-> Down]
  /\ slot = [s \in Slots |-> FreeSlot]
  /\ sweep = [m \in Monitors |-> Resting]
  /\ guest = Nothing /\ starts = 0
  /\ confirmed = [p \in Proxies |-> FALSE] /\ late = [p \in Proxies |-> FALSE]

-----------------------------------------------------------------------------
(* The network.                                                             *)

\* A goroutine of p's agent posts a request; it takes the first free slot, for
\* slots mean nothing.
Post(p, addr, by, kind) ==
  \E s \in Slots :
    /\ slot[s].kind = "free" /\ \A t \in 1 .. s - 1 : slot[t].kind # "free"
    /\ slot' = [slot EXCEPT ![s] = [kind |-> kind, proxy |-> p, addr |-> addr,
                                    by |-> by, found |-> "unread"]]

\* The process of p ends: whatever it has sent goes on without it.
Orphaned(p) ==
  [s \in Slots |-> IF slot[s].proxy = p THEN [slot[s] EXCEPT !.by = Nothing]
                   ELSE slot[s]]

\* Mistake: a failed heartbeat waits for the next tick.
HeartbeatNoRetry(a, ok) == [a EXCEPT !.registered = ok, !.beat = "idle"]

\* The answer to a heartbeat, good or not, at the agent: sendHeartbeat keeps it
\* in registered, and a bad one is followed by a registration at once.
HeartbeatAnswer(a, ok) ==
  [a EXCEPT !.registered = ok, !.beat = IF ok THEN "idle" ELSE "retry"]

\* What the agent does with the answer to request r: ok, or an error, a refusal
\* or no answer in time.  Start goes on after a failed registration, and Stop
\* after a failed farewell.
Answered(r, ok) ==
  LET a == agent[r.proxy] IN
    CASE r.by = "beat" /\ r.kind = "heartbeat" -> HeartbeatAnswer(a, ok)
      [] r.by = "beat" /\ r.kind = "register"  ->
           [a EXCEPT !.registered = ok \/ a.registered, !.beat = "idle"]
      [] r.by = "main" /\ r.kind = "register" ->
           [a EXCEPT !.registered = ok, !.main = "starting", !.beat = "idle"]
      [] r.by = "main" /\ r.kind = "unregister" -> Down

\* Request s leaves the network, and its sender, if it waits, hears ok.
Reply(s, ok) ==
  LET r == slot[s] IN
    /\ agent' = IF r.by = Nothing THEN agent
                ELSE [agent EXCEPT ![r.proxy] = Answered(r, ok)]
    /\ slot' = IF r.by = "main" /\ r.kind = "unregister"
               THEN [Orphaned(r.proxy) EXCEPT ![s] = FreeSlot]
               ELSE [slot EXCEPT ![s] = FreeSlot]

\* The request is lost, or the server cannot reach its database.
Lose(s) ==
  /\ slot[s].kind # "free"
  /\ Reply(s, FALSE)
  /\ UNCHANGED <<row, sweep, guest, starts, history>>

\* The client's timeout: the sender goes on as after an error, and the request
\* is still on its way.
TimeOut(s) ==
  /\ slot[s].kind # "free" /\ slot[s].by # Nothing
  /\ agent' = [agent EXCEPT ![slot[s].proxy] = Answered(slot[s], FALSE)]
  /\ slot' = IF slot[s].kind = "unregister" THEN Orphaned(slot[s].proxy)
             ELSE [slot EXCEPT ![s].by = Nothing]
  /\ UNCHANGED <<row, sweep, guest, starts, history>>

-----------------------------------------------------------------------------
(* The agent.                                                               *)

\* main of the agent, up to and into the Registry's Start: a new process, and
\* its registration under way.
StartAgent(p, a) ==
  /\ agent[p].main = "down" /\ starts < MaxStarts
  /\ agent' = [agent EXCEPT ![p] = [main |-> "registering", beat |-> "off",
                                    addr |-> a, registered |-> FALSE]]
  /\ Post(p, a, "main", "register")
  /\ starts' = starts + 1
  /\ confirmed' = [confirmed EXCEPT ![p] = FALSE]
  /\ late' = [late EXCEPT ![p] = FALSE]
  /\ UNCHANGED <<row, sweep, guest>>

Listening(a) ==
  \/ a = guest
  \/ \E p \in Proxies : agent[p].main \in {"serving", "unregistering"} /\ agent[p].addr = a

\* The HTTP server comes up.  An address in use ends the process, without
\* telling anyone.
Listen(p) ==
  /\ agent[p].main = "starting"
  /\ IF Listening(agent[p].addr)
     THEN agent' = [agent EXCEPT ![p] = Down] /\ slot' = Orphaned(p)
     ELSE agent' = [agent EXCEPT ![p].main = "serving"] /\ slot' = slot
  /\ UNCHANGED <<row, sweep, guest, starts, history>>

\* A tick of the heartbeat goroutine.  A stop that comes at the same time does
\* not keep it from being taken.
SendHeartbeat(p) ==
  /\ agent[p].beat = "idle"
  /\ Post(p, agent[p].addr, "beat", "heartbeat")
  /\ agent' = [agent EXCEPT ![p].beat = "heartbeat"]
  /\ UNCHANGED <<row, sweep, guest, starts, history>>

\* After a heartbeat that failed.
RegisterAgain(p) ==
  /\ agent[p].beat = "retry"
  /\ Post(p, agent[p].addr, "beat", "register")
  /\ agent' = [agent EXCEPT ![p].beat = "register"]
  /\ UNCHANGED <<row, sweep, guest, starts, history>>

\* A signal: Stop, and then the end of the process.
StopAgent(p) ==
  /\ agent[p].main = "serving"
  /\ IF agent[p].registered
     THEN /\ Post(p, agent[p].addr, "main", "unregister")
          /\ agent' = [agent EXCEPT ![p].main = "unregistering"]
     ELSE /\ agent' = [agent EXCEPT ![p] = Down]
          /\ slot' = Orphaned(p)
  /\ UNCHANGED <<row, sweep, guest, starts, history>>

\* The heartbeat goroutine sees the stop.
StopBeating(p) ==
  /\ agent[p].main = "unregistering" /\ agent[p].beat = "idle"
  /\ agent' = [agent EXCEPT ![p].beat = "off"]
  /\ UNCHANGED <<row, slot, sweep, guest, starts, history>>

CrashAgent(p) ==
  /\ agent[p].main # "down"
  /\ agent' = [agent EXCEPT ![p] = Down] /\ slot' = Orphaned(p)
  /\ UNCHANGED <<row, sweep, guest, starts, history>>

\* An agent without a configured ID makes up a new one at every start: here it
\* only matters that it takes an address.
GuestMoves(a) ==
  /\ a # Nothing => ~Listening(a)
  /\ guest' = a
  /\ UNCHANGED <<row, agent, slot, sweep, starts, history>>

-----------------------------------------------------------------------------
(* The server's handlers.                                                   *)

FindProxy(p) == IF row[p].status = "absent" THEN "no" ELSE "yes"

\* RegisterProxy looks for the row ...
RegisterFind(s) ==
  /\ slot[s].kind = "register" /\ slot[s].found = "unread"
  /\ slot' = [slot EXCEPT ![s].found = FindProxy(slot[s].proxy)]
  /\ UNCHANGED <<row, agent, sweep, guest, starts, history>>

\* Mistake: an existing row keeps its address.
RegisterUpdateStatus(r) ==
  [status |-> "online", addr |-> IF r.found = "yes" THEN row[r.proxy].addr ELSE r.addr]

\* The columns that the request carries.
RegisterColumns(r) == [status |-> "online", addr |-> r.addr]

\* ... and updates or inserts it; the index on proxy_id refuses an insert when
\* another request has been faster.
RegisterProxy(s) ==
  LET r == slot[s]
      ok == r.found = "yes" \/ row[r.proxy].status = "absent"
  IN
    /\ r.kind = "register" /\ r.found # "unread"
    /\ row' = IF ok THEN [row EXCEPT ![r.proxy] = RegisterColumns(r)] ELSE row
    /\ Reply(s, ok)
    /\ confirmed' = [confirmed EXCEPT ![r.proxy] = @ \/ (ok /\ r.by # Nothing)]
    /\ late' = [late EXCEPT ![r.proxy] = @ \/ (r.by = Nothing /\ r.addr # agent[r.proxy].addr)]
    /\ UNCHANGED <<sweep, guest, starts>>

\* Mistake: the number of rows is not looked at.
HeartbeatAnyRow(s) ==
  LET p == slot[s].proxy IN
    /\ slot[s].kind = "heartbeat"
    /\ row' = IF row[p].status = "absent" THEN row ELSE [row EXCEPT ![p].status = "online"]
    /\ Reply(s, TRUE)
    /\ UNCHANGED <<sweep, guest, starts, history>>

\* Mistake: a heartbeat that brings no status is written all the same.
HeartbeatClears(s) ==
  LET p == slot[s].proxy IN
    /\ slot[s].kind = "heartbeat"
    /\ row' = IF row[p].status = "absent" THEN row ELSE [row EXCEPT ![p].status = ""]
    /\ Reply(s, row[p].status # "absent")
    /\ UNCHANGED <<sweep, guest, starts, history>>

Heartbeat(s) ==
  LET p == slot[s].proxy IN
    /\ slot[s].kind = "heartbeat"
    /\ row' = IF row[p].status = "absent" THEN row ELSE [row EXCEPT ![p].status = "online"]
    /\ Reply(s, row[p].status # "absent")
    /\ UNCHANGED <<sweep, guest, starts, history>>

Unregister(s) ==
  LET p == slot[s].proxy IN
    /\ slot[s].kind = "unregister"
    /\ row' = IF row[p].status = "absent" THEN row ELSE [row EXCEPT ![p].status = "offline"]
    /\ Reply(s, TRUE)
    /\ UNCHANGED <<sweep, guest, starts, history>>

Serve(s) == RegisterFind(s) \/ RegisterProxy(s) \/ Heartbeat(s) \/ Unregister(s)

-----------------------------------------------------------------------------
(* The monitor.                                                             *)

Rows == {p \in Proxies : row[p].status # "absent"}

\* checkProxies reads the table.
CheckProxies(m) ==
  /\ sweep[m].todo = {} /\ Rows # {}
  /\ sweep' = [sweep EXCEPT ![m] = [todo |-> Rows, snap |-> row,
                                    probed |-> Nothing, up |-> FALSE]]
  /\ UNCHANGED <<row, agent, slot, guest, starts, history>>

\* Mistake: no answer in time counts as a slow agent, not as a dead one.
HealthUnlessRefused(a) == {TRUE, Listening(a)}

\* The answers a probe of address a can have: whatever agent listens there says
\* that it is well, whichever its ID, and the probe may fail on the way.
CheckProxyHealth(a) == {FALSE, Listening(a)}

ProbeProxy(m, p) ==
  /\ p \in sweep[m].todo /\ sweep[m].probed = Nothing
  /\ \E up \in CheckProxyHealth(sweep[m].snap[p].addr) :
       sweep' = [sweep EXCEPT ![m].probed = p, ![m].up = up]
  /\ UNCHANGED <<row, agent, slot, guest, starts, history>>

\* The status is written if it is another than the one the sweep began with;
\* the time of a heartbeat is not kept here.
UpdateProxyStatus(m) ==
  LET p == sweep[m].probed
      new == IF sweep[m].up THEN "online" ELSE "offline"
  IN
    /\ p # Nothing
    /\ row' = IF sweep[m].snap[p].status # new THEN [row EXCEPT ![p].status = new] ELSE row
    /\ sweep' = [sweep EXCEPT ![m].todo = @ \ {p}, ![m].snap[p] = NoRow,
                              ![m].probed = Nothing, ![m].up = FALSE]
    /\ UNCHANGED <<agent, slot, guest, starts, history>>

Monitor(m) ==
  CheckProxies(m) \/ (\E p \in Proxies : ProbeProxy(m, p)) \/ UpdateProxyStatus(m)

-----------------------------------------------------------------------------
(* The specification.                                                       *)

AgentNext(p) ==
  \/ \E a \in Addrs : StartAgent(p, a)
  \/ Listen(p) \/ SendHeartbeat(p) \/ RegisterAgain(p)
  \/ StopAgent(p) \/ StopBeating(p) \/ CrashAgent(p)

RegistryNext ==
  \/ \E p \in Proxies : AgentNext(p)
  \/ \E s \in Slots : Serve(s) \/ Lose(s) \/ TimeOut(s)
  \/ \E m \in Monitors : Monitor(m)
  \/ \E a \in SharedAddrs \cup {Nothing} : GuestMoves(a)

\* The tickers of the monitor and of the agents go on ticking and the agent gets
\* to the end of main; a request is served or lost in the end; and a request that
\* is made again and again is not lost every time.
RegistryFairness ==
  /\ \A m \in Monitors : WF_registryVars(Monitor(m))
  /\ \A p \in Proxies :
       WF_registryVars(Listen(p) \/ SendHeartbeat(p) \/ RegisterAgain(p))
  /\ \A s \in Slots : /\ WF_registryVars(Serve(s) \/ Lose(s))
                      /\ SF_registryVars(RegisterFind(s))
                      /\ SF_registryVars(RegisterProxy(s))

RegistrySpec == RegistryInit /\ [][RegistryNext]_registryVars /\ RegistryFairness

-----------------------------------------------------------------------------
(* The properties.                                                          *)

\* An agent that takes itself for registered has a row: whatever was lost, came
\* late or collided, no heartbeat and no registration was answered well without.
RegisteredHasRow == \A p \in Proxies : agent[p].registered => row[p].status # "absent"

\* A registration that was answered well puts the agent's address into the row,
\* and only a registration of an earlier run that is served late replaces it:
\* neither a heartbeat nor the monitor nor a collision of two registrations does.
AddressCurrent ==
  \A p \in Proxies :
    agent[p].main # "down" /\ confirmed[p] /\ ~late[p] => row[p].addr = agent[p].addr

\* The registry and the agents' own view of it are sound: who is registered has
\* a row, with the address last registered.
RegistrySound == RegistryTypeOK /\ RegisteredHasRow /\ AddressCurrent

\* An agent that stays down does not stay online: the monitor takes back what a
\* late heartbeat or a farewell that got lost has left in the row.  But it asks
\* the address and not the agent, so that another agent that has taken over the
\* address keeps the row online.
StoppedGoesOffline ==
  \A p \in Proxies :
    <>[](agent[p].main = "down") =>
      []<>(row[p].status # "online" \/ Listening(row[p].addr))

\* An agent that stays up gets its row, even if its first registration is lost.
ServingGetsRow ==
  \A p \in Proxies : <>[](agent[p].main = "serving") => <>(row[p].status # "absent")
=============================================================================

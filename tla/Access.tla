------------------------------- MODULE Access -------------------------------
(***************************************************************************)
(* From a request to an open connection: the web handler (token, system    *)
(* user, route, upgrade), the SSH gateway (host from the menu, system      *)
(* user) and the file handler (list, upload, download), read by read,      *)
(* while administrators edit the tables of module Permissions, proxies     *)
(* come and go (module ProxyRegistry), and the routing settings change.    *)
(***************************************************************************)
EXTENDS Permissions

CONSTANTS Clients,   \* requests under way
          Tickets,   \* session tokens
          StartOnline,  \* proxies online at the start
          StartProxy    \* the default proxy at the start

ASSUME AccessAssumption ==
  /\ None \notin Proxies /\ StartOnline \subseteq Proxies /\ StartProxy \in Proxies \cup {None}

VARIABLES
  req,      \* req[c]: the request of client c
  ticket,   \* ticket[t]: a session token and the user it was made for
  online,   \* proxies whose row says online
  routing,  \* the two routing settings, and the update under way
  transfer, \* transfer[c]: the file_transfers row of c's request: none (or one
            \* that says how it ended), moving, or stale
  seen,     \* seen[c]: what has held at some time since c's request began
  steady    \* steady[c]: c's host has had its proxy all along

accessVars == <<req, ticket, online, routing, transfer>>
vars == <<permVars, accessVars, seen, steady>>

NoRequest == [at |-> "idle", kind |-> None, by |-> None, user |-> None,
              host |-> None, sys |-> None, offer |-> {}, tagged |-> FALSE,
              bound |-> FALSE, proxy |-> None, failed |-> FALSE]
NothingSeen == [rule |-> {}, usable |-> {}, host |-> FALSE]
NoTicket == [token |-> "new", login |-> FALSE, user |-> None]

Init ==
  /\ PermInit
  /\ req = [c \in Clients |-> NoRequest]
  /\ ticket = [t \in Tickets |-> NoTicket]
  /\ online = StartOnline
  /\ routing = [tagged |-> TRUE, proxy |-> StartProxy,
                at |-> "idle", newTagged |-> FALSE, newProxy |-> None]
  /\ transfer = [c \in Clients |-> "none"]
  /\ seen = [c \in Clients |-> NothingSeen]
  /\ steady = [c \in Clients |-> FALSE]

Goto(c, at) == req' = [req EXCEPT ![c].at = at]
Refuse(c) == req' = [req EXCEPT ![c] = NoRequest]

-----------------------------------------------------------------------------
(* Session tokens: POST /sessions, and the collector of expired ones.       *)

\* Mistake: the token is handed out before its login record is written.
CreateSessionTokenFirst(t, u) ==
  /\ Edit /\ ticket[t].token = "new"
  /\ ticket' = [ticket EXCEPT ![t].token = "valid", ![t].user = u]
  /\ UNCHANGED <<tables, task, conf, sweep, req, online, routing, transfer>>

\* The login record is written (or nothing is), then the token is stored.
CreateSession(t, u) ==
  /\ Edit /\ ticket[t].token = "new" /\ ~ticket[t].login
  /\ ticket' = [ticket EXCEPT ![t].login = TRUE, ![t].user = u]
  /\ UNCHANGED <<tables, task, conf, sweep, req, online, routing, transfer>>
StoreToken(t) ==
  /\ ticket[t].token = "new" /\ ticket[t].login
  /\ ticket' = [ticket EXCEPT ![t].token = "valid"]
  /\ UNCHANGED <<permVars, req, online, routing, transfer>>

\* Five minutes pass; whoever looks first removes the token.
ExpireToken(t) ==
  /\ ticket[t].token = "valid"
  /\ ticket' = [ticket EXCEPT ![t].token = "gone"]
  /\ UNCHANGED <<permVars, req, online, routing, transfer>>

\* validateToken: a login token (module Account), or a session token, which
\* names a user; the host it was made for is not compared.
ValidateToken(u, t) ==
  t # None => ticket[t].token = "valid" /\ ticket[t].user = u

-----------------------------------------------------------------------------
(* The web handler.                                                         *)

\* HandleConnection, with a system user or without.
HandleConnection(c, u, h, s, t) ==
  /\ req[c].at = "idle" /\ ValidateToken(u, t)
  /\ req' = [req EXCEPT ![c] = [NoRequest EXCEPT
       !.by = t, !.user = u, !.host = h, !.sys = s,
       !.kind = IF s = None THEN "web" ELSE "named",
       !.at = IF s = None THEN "list" ELSE "check"]]
  /\ transfer' = [transfer EXCEPT ![c] = "none"]
  /\ UNCHANGED <<permVars, ticket, online, routing>>

\* A named system user is checked, and then read by its id.  What comes next
\* is the route, the listing, the row of the transfer or the size of the file.
AfterFind == [named |-> "route", files |-> "open", upload |-> "row", download |-> "size"]
CheckPermission(c) ==
  /\ req[c].at = "check"
  /\ IF CheckUserHasPermission(req[c].user, req[c].host, req[c].sys)
     THEN Goto(c, IF req[c].kind = "named" THEN "find" ELSE "host") ELSE Refuse(c)
  /\ UNCHANGED <<permVars, ticket, online, routing, transfer>>
FindSystemUser(c) ==
  /\ req[c].at = "find"
  /\ IF sys[req[c].sys] \in Statuses THEN Goto(c, AfterFind[req[c].kind]) ELSE Refuse(c)
  /\ UNCHANGED <<permVars, ticket, online, routing, transfer>>

\* Otherwise the choice must be plain; of several, the page asks, and comes
\* back with one.
ListSystemUsers(c) ==
  /\ req[c].at = "list" /\ req[c].kind = "web"
  /\ LET offer == GetAvailableSystemUsersForUser(req[c].user, req[c].host)
     IN  \/ \E s \in offer : /\ offer = {s}
                             /\ req' = [req EXCEPT ![c].sys = s, ![c].at = "route"]
         \/ ~(\E s \in offer : offer = {s}) /\ Refuse(c)
  /\ UNCHANGED <<permVars, ticket, online, routing, transfer>>

\* The route is known: the connection is upgraded, or the client has left.
Upgrade(c) ==
  /\ req[c].at = "routed"
  /\ \/ Goto(c, "open")
     \/ Refuse(c)
  /\ UNCHANGED <<permVars, ticket, online, routing, transfer>>

\* A read that fails ends the request.
QueryFails(c) ==
  /\ req[c].at \in {"check", "host", "find", "list", "route"}
  /\ Refuse(c)
  /\ UNCHANGED <<permVars, ticket, online, routing, transfer>>

Close(c) ==
  /\ req[c].at = "open" /\ req[c].kind \notin {"upload", "download"}
  /\ Refuse(c)
  /\ UNCHANGED <<permVars, ticket, online, routing, transfer>>

-----------------------------------------------------------------------------
(* The SSH gateway.                                                         *)

\* A host was chosen from a menu that may be out of date in every respect.
HandleHostConnection(c, u, h) ==
  /\ req[c].at = "idle"
  /\ req' = [req EXCEPT ![c] = [NoRequest EXCEPT
       !.kind = "ssh", !.user = u, !.host = h, !.at = "list"]]
  /\ transfer' = [transfer EXCEPT ![c] = "none"]
  /\ UNCHANGED <<permVars, ticket, online, routing>>

\* Of several system users the user picks one, and may take long over it.
OfferSystemUsers(c) ==
  /\ req[c].at = "list" /\ req[c].kind = "ssh"
  /\ LET offer == GetAvailableSystemUsersForUser(req[c].user, req[c].host)
     IN  \/ offer = {} /\ Refuse(c)
         \/ \E s \in offer : /\ offer = {s}
                             /\ req' = [req EXCEPT ![c].sys = s, ![c].at = "open"]
         \/ /\ \E s, t \in offer : s # t
            /\ req' = [req EXCEPT ![c].offer = offer, ![c].at = "prompt"]
  /\ UNCHANGED <<permVars, ticket, online, routing, transfer>>

\* Mistake: the number is looked up among all system users.
SelectAnySystemUser(c) ==
  /\ req[c].at = "prompt"
  /\ \/ \E s \in SysUsers : req' = [req EXCEPT ![c].sys = s, ![c].offer = {}, ![c].at = "open"]
     \/ Refuse(c)
  /\ UNCHANGED <<permVars, ticket, online, routing, transfer>>

SelectSystemUser(c) ==
  /\ req[c].at = "prompt"
  /\ \/ \E s \in req[c].offer : req' = [req EXCEPT ![c].sys = s, ![c].offer = {}, ![c].at = "open"]
     \/ Refuse(c)
  /\ UNCHANGED <<permVars, ticket, online, routing, transfer>>

-----------------------------------------------------------------------------
(* The file handler: ListFiles, UploadFile, DownloadFile.  Its connections  *)
(* are the server's own, whatever proxy the host has.                       *)

FileKinds == {"files", "upload", "download"}

\* resolveAuthorizedTarget goes on in CheckPermission, FindHost and
\* FindSystemUser (one whose protocol is not SSH is refused like a failed read).
ResolveAuthorizedTarget(c, u, h, s, kind) ==
  /\ req[c].at = "idle"
  /\ req' = [req EXCEPT ![c] = [NoRequest EXCEPT
       !.kind = kind, !.user = u, !.host = h, !.sys = s, !.at = "check"]]
  /\ transfer' = [transfer EXCEPT ![c] = "none"]
  /\ UNCHANGED <<permVars, ticket, online, routing>>
FindHost(c) ==
  /\ req[c].at = "host"
  /\ IF host[req[c].host].row = "active" THEN Goto(c, "find") ELSE Refuse(c)
  /\ UNCHANGED <<permVars, ticket, online, routing, transfer>>

\* A download asks for the size over a connection of its own.
GetRemoteFileSize(c) ==
  /\ req[c].at = "size"
  /\ Goto(c, "row") \/ Refuse(c)
  /\ UNCHANGED <<permVars, ticket, online, routing, transfer>>

\* The row is inserted; an INSERT that fails is logged and does not stop it.
CreateTransfer(c) ==
  /\ req[c].at = "row"
  /\ Goto(c, "open")
  /\ \/ transfer' = [transfer EXCEPT ![c] = "moving"]
     \/ UNCHANGED transfer
  /\ UNCHANGED <<permVars, ticket, online, routing>>

\* The request is over and its row says so, completed or failed; an UPDATE that
\* fails is ignored and leaves the row behind (stale).
Ends(c) ==
  /\ \/ transfer' = [transfer EXCEPT ![c] = "none"]
     \/ transfer[c] = "moving" /\ transfer' = [transfer EXCEPT ![c] = "stale"]
  /\ Refuse(c)
  /\ UNCHANGED <<permVars, ticket, online, routing>>

UploadFile(c) == req[c].at = "open" /\ req[c].kind = "upload" /\ Ends(c)

\* A stream that breaks after its first byte is answered no more, and recorded.
StreamDownloadFile(c) == req[c].at = "open" /\ req[c].kind = "download" /\ Ends(c)

-----------------------------------------------------------------------------
(* The router.                                                              *)

Direct(c) == req' = [req EXCEPT ![c].at = "routed", ![c].proxy = None,
                                ![c].tagged = FALSE]

\* MakeRoutingDecision reads the host, whose own mode comes first.
MakeRoutingDecision(c) ==
  /\ req[c].at = "route"
  /\ LET h == host[req[c].host]
     IN  \/ h.row # "active" /\ Refuse(c)
         \/ h.row = "active" /\ h.columns.mode = "direct" /\ Direct(c)
         \/ /\ h.row = "active" /\ h.columns.mode = "proxy"
            /\ req' = [req EXCEPT ![c].at = "proxy", ![c].bound = TRUE,
                                  ![c].proxy = h.columns.proxy]
         \/ /\ h.row = "active" /\ h.columns.mode = "auto"
            /\ req' = [req EXCEPT ![c].at = "proxies", ![c].bound = FALSE,
                                  ![c].tagged = h.columns.tagged]
  /\ UNCHANGED <<permVars, ticket, online, routing, transfer>>

\* checkTagBasedRouting: with no proxy online the tags are not looked at ...
FindOnlineProxies(c) ==
  /\ req[c].at = "proxies"
  /\ IF online = {} THEN Direct(c) ELSE Goto(c, "tags")
  /\ UNCHANGED <<permVars, ticket, online, routing, transfer>>

\* ... then a tag of the host has to be in the first setting ...
CheckTags(c) ==
  /\ req[c].at = "tags"
  /\ IF routing.tagged /\ req[c].tagged THEN Goto(c, "default") ELSE Direct(c)
  /\ UNCHANGED <<permVars, ticket, online, routing, transfer>>

\* ... and the second names the proxy.
ReadDefaultProxy(c) ==
  /\ req[c].at = "default"
  /\ IF routing.proxy = None THEN Direct(c)
     ELSE req' = [req EXCEPT ![c].at = "proxy", ![c].proxy = routing.proxy]
  /\ UNCHANGED <<permVars, ticket, online, routing, transfer>>

\* Mistake: only the host's own proxy is used, a tag's never.
UseOwnProxyOnly(c) ==
  /\ req[c].at = "proxy"
  /\ IF req[c].bound THEN (IF req[c].proxy \in online THEN Goto(c, "routed") ELSE Refuse(c))
     ELSE Direct(c)
  /\ UNCHANGED <<permVars, ticket, online, routing, transfer>>

\* A proxy that is not online fails the request of a host bound to it; a host
\* that only its tags led here is connected directly.
UseSpecifiedProxy(c) ==
  /\ req[c].at = "proxy"
  /\ IF req[c].proxy \in online THEN Goto(c, "routed")
     ELSE IF req[c].bound THEN Refuse(c) ELSE Direct(c)
  /\ UNCHANGED <<permVars, ticket, online, routing, transfer>>

\* A read that fails on the way through the tags means: directly.
RoutingQueryFails(c) ==
  /\ req[c].at \in {"proxies", "tags", "default", "proxy"}
  /\ IF req[c].bound THEN Refuse(c)
     ELSE req' = [req EXCEPT ![c].at = "routed", ![c].proxy = None,
                             ![c].tagged = FALSE, ![c].failed = TRUE]
  /\ UNCHANGED <<permVars, ticket, online, routing, transfer>>

\* The settings: two rows, saved one after the other.
UpdateRoutingConfig(tagged, p) ==
  /\ Edit /\ routing.at = "idle"
  /\ routing' = [routing EXCEPT !.at = "tags", !.newTagged = tagged, !.newProxy = p]
  /\ UNCHANGED <<tables, task, conf, sweep, req, ticket, online, transfer>>
SaveTags ==
  /\ routing.at = "tags"
  /\ routing' = [routing EXCEPT !.at = "proxy", !.tagged = routing.newTagged]
  /\ UNCHANGED <<permVars, req, ticket, online, transfer>>
SaveDefaultProxy ==
  /\ routing.at = "proxy"
  /\ routing' = [routing EXCEPT !.at = "idle", !.proxy = routing.newProxy,
                                !.newTagged = FALSE, !.newProxy = None]
  /\ UNCHANGED <<permVars, req, ticket, online, transfer>>

\* A proxy's row changes its status: module ProxyRegistry.
ProxyStatus(p) ==
  /\ Edit
  /\ online' = IF p \in online THEN online \ {p} ELSE online \cup {p}
  /\ UNCHANGED <<tables, task, conf, sweep, req, ticket, routing, transfer>>

-----------------------------------------------------------------------------
Route(c) ==
  \/ MakeRoutingDecision(c) \/ FindOnlineProxies(c) \/ CheckTags(c)
  \/ ReadDefaultProxy(c) \/ UseSpecifiedProxy(c) \/ RoutingQueryFails(c)

Arrive(c) ==
  \E u \in Users, h \in Hosts :
    \/ HandleHostConnection(c, u, h)
    \/ \E s \in SysUsers \cup {None}, t \in Tickets \cup {None} : HandleConnection(c, u, h, s, t)
    \/ \E s \in SysUsers, kind \in FileKinds : ResolveAuthorizedTarget(c, u, h, s, kind)

Connect(c) ==
  \/ Arrive(c) \/ Route(c)
  \/ CheckPermission(c) \/ FindSystemUser(c) \/ ListSystemUsers(c)
  \/ OfferSystemUsers(c) \/ SelectSystemUser(c)
  \/ FindHost(c) \/ GetRemoteFileSize(c) \/ CreateTransfer(c)
  \/ UploadFile(c) \/ StreamDownloadFile(c)
  \/ QueryFails(c) \/ Upgrade(c) \/ Close(c)

Tokens ==
  \E t \in Tickets : \/ \E u \in Users : CreateSession(t, u)
                     \/ StoreToken(t) \/ ExpireToken(t)

Settings ==
  \/ \E tagged \in BOOLEAN, p \in Proxies \cup {None} : UpdateRoutingConfig(tagged, p)
  \/ SaveTags \/ SaveDefaultProxy
  \/ \E p \in Proxies : ProxyStatus(p)

\* Host h has a proxy it is to go through, by its own mode or by its tags.
HasProxy(h) ==
  LET columns == host[h].columns
  IN  /\ host[h].row = "active"
      /\ \/ columns.mode = "proxy" /\ columns.proxy \in online
         \/ /\ columns.mode = "auto" /\ columns.tagged /\ routing.tagged
            /\ routing.proxy \in online

\* What c's request has seen in this state.
Observed(c) ==
  LET u == req[c].user
      h == req[c].host
  IN  [rule |-> {s \in SysUsers : CheckUserHasPermission(u, h, s)},
       usable |-> GetAvailableSystemUsersForUser(u, h),
       host |-> host[h].row = "active"]
Joined(a, b) == [rule |-> a.rule \cup b.rule, usable |-> a.usable \cup b.usable,
                 host |-> a.host \/ b.host]

\* Every request takes note until it is through; it is steady while its host,
\* the settings and the proxy they lead to stay what they are.
Routing == {"proxies", "tags", "default", "proxy"}
Watch ==
  /\ seen' = [c \in Clients |->
       IF req'[c].at = "idle" THEN NothingSeen
       ELSE IF req[c].at = "open" THEN seen[c]
       ELSE Joined(seen[c], Observed(c)')]
  /\ steady' = [c \in Clients |->
       IF req'[c].at = "route" THEN HasProxy(req[c].host)'
       ELSE IF req'[c].at \in Routing \/ req[c].at \in Routing \cup {"route"}
       THEN /\ steady[c] /\ req'[c].at # "idle" /\ HasProxy(req[c].host)'
            /\ host' = host /\ routing'.tagged = routing.tagged
            /\ routing'.proxy = routing.proxy
       ELSE steady[c] /\ req'[c].at # "idle"]

Next ==
  /\ \/ (Administration \/ LongEdits \/ Expiration) /\ UNCHANGED accessVars
     \/ (\E c \in Clients : Connect(c)) \/ Tokens \/ Settings
  /\ Remember /\ Watch

Spec == Init /\ [][Next]_vars

-----------------------------------------------------------------------------
(* Properties.                                                              *)

Stages == Routing \cup {"idle", "check", "host", "find", "list", "prompt", "route", "routed",
                       "size", "row", "open"}
Requests == [at : Stages, kind : FileKinds \cup {"web", "named", "ssh", None},
             by : Tickets \cup {None}, user : Users \cup {None}, host : Hosts \cup {None},
             sys : SysUsers \cup {None}, offer : SUBSET SysUsers, tagged : BOOLEAN,
             bound : BOOLEAN, proxy : Proxies \cup {None}, failed : BOOLEAN]
Observations == [rule : SUBSET SysUsers, usable : SUBSET SysUsers, host : BOOLEAN]
TypeOK ==
  /\ PermTypeOK
  /\ req \in [Clients -> Requests] /\ transfer \in [Clients -> {"none", "moving", "stale"}]
  /\ ticket \in [Tickets -> [token : {"new", "valid", "gone"}, login : BOOLEAN,
                             user : Users \cup {None}]]
  /\ online \subseteq Proxies
  /\ routing \in [tagged : BOOLEAN, proxy : Proxies \cup {None},
                  at : {"idle", "tags", "proxy"}, newTagged : BOOLEAN,
                  newProxy : Proxies \cup {None}]
  /\ seen \in [Clients -> Observations] /\ steady \in [Clients -> BOOLEAN]

\* No connection is opened on a permission that had gone before it was asked
\* for: at some time since the request began, a rule in force gave this user
\* this system user on this host (however stale the page or the menu the
\* choice was made from); if the request did not name the system user itself,
\* that system user was active, too; and over the web the host existed.  The
\* same goes for the connections of file transfers.
OpenedByGrant ==
  \A c \in Clients : req[c].at \in {"open", "size"} =>
    /\ req[c].sys \in seen[c].rule
    /\ req[c].kind \in {"web", "ssh"} => req[c].sys \in seen[c].usable
    /\ req[c].kind # "ssh" => seen[c].host

\* A web request does not go around the proxy of its host: if, all the time
\* the router took, the host had a proxy online by one configuration and no
\* read failed, the connection goes through a proxy.
NeverAroundProxy ==
  \A c \in Clients :
    /\ req[c].at \in {"routed", "open"} /\ req[c].kind \in {"web", "named"}
    /\ steady[c] /\ ~req[c].failed
    => req[c].proxy # None

\* A request let in on a session token has a login record of its user.
TicketVouches ==
  \A c \in Clients : req[c].by # None =>
    ticket[req[c].by].login /\ ticket[req[c].by].user = req[c].user

\* A transfer that its row calls under way is under way, whichever way the
\* handler was left, unless the last UPDATE failed.
TransfersSettled ==
  \A c \in Clients : transfer[c] = "moving" =>
    req[c].at = "open" /\ req[c].kind \in {"upload", "download"}

\* What decides about access is sound: the tables and requests have their types,
\* the lists agree with what is let in, the sweep disables what has run out, a
\* session token stands for its user and a transfer's row is settled.
GrantsSound ==
  /\ TypeOK /\ ReachableIsListed /\ SweepListsExpired
  /\ TicketVouches /\ TransfersSettled

-----------------------------------------------------------------------------
(* Inductive strengthenings, used by Access_proofs.                         *)

\* A session token in use has its login record.
TicketsInv == \A t \in Tickets : ticket[t].token # "new" => ticket[t].login

\* Which requests are at a stage, and a transfer's row says it is under way only
\* while it is.
StageInv(c) ==
  /\ req[c].at # "idle" => /\ req[c].user \in Users /\ req[c].host \in Hosts
                           /\ req[c].kind \in FileKinds \cup {"web", "named", "ssh"}
  /\ req[c].at = "check" => req[c].sys \in SysUsers
  /\ req[c].at \in {"check", "find"} => req[c].kind \in FileKinds \cup {"named"}
  /\ req[c].at = "host" => req[c].kind \in FileKinds
  /\ req[c].at = "list" => req[c].kind \in {"web", "ssh"}
  /\ req[c].at = "prompt" => req[c].kind = "ssh"
  /\ req[c].at \in Routing \cup {"route", "routed"} => req[c].kind \in {"web", "named"}
  /\ req[c].at = "size" => req[c].kind = "download"
  /\ req[c].at = "row" => req[c].kind \in {"upload", "download"}
  /\ transfer[c] = "moving" => req[c].at = "open" /\ req[c].kind \in {"upload", "download"}
RequestsInv ==
  /\ req \in [Clients -> Requests] /\ transfer \in [Clients -> {"none", "moving", "stale"}]
  /\ \A c \in Clients : StageInv(c)

\* Until a request is through, what holds now has been seen; a request that was
\* granted its system user has seen the grant, and what it is offered, too.
Granted == Routing \cup {"host", "find", "route", "routed", "size", "row", "open"}
HostFound(c) ==
  \/ req[c].kind \in FileKinds /\ req[c].at \in {"find", "size", "row", "open"}
  \/ req[c].kind \in {"web", "named"} /\ req[c].at \in Routing \cup {"routed", "open"}
SeenInv(c) ==
  /\ req[c].at \notin {"idle", "open"} =>
       LET now == Observed(c)
       IN  /\ now.rule \subseteq seen[c].rule /\ now.usable \subseteq seen[c].usable
           /\ now.host => seen[c].host
  /\ req[c].at \in Granted => req[c].sys \in seen[c].rule
  /\ req[c].at \in Granted /\ req[c].kind \in {"web", "ssh"} => req[c].sys \in seen[c].usable
  /\ req[c].at = "prompt" => req[c].offer \subseteq seen[c].rule \cap seen[c].usable
  /\ HostFound(c) => seen[c].host

\* While nothing that leads to the proxy changes, what the router has read of it
\* is what is on file.
RouteInv(c) ==
  /\ req[c].at \in {"routed", "open"} /\ req[c].kind \in {"web", "named"}
     /\ steady[c] /\ ~req[c].failed => req[c].proxy # None
  /\ req[c].at \in Routing /\ ~req[c].bound /\ steady[c] =>
       LET h == req[c].host
       IN  /\ HasProxy(h) /\ host[h].columns.mode = "auto"
           /\ req[c].tagged = host[h].columns.tagged
           /\ req[c].at = "proxy" => req[c].proxy = routing.proxy
  /\ req[c].at = "route" /\ steady[c] => HasProxy(req[c].host)
  /\ req[c].at \in Routing /\ req[c].bound => req[c].at = "proxy"

\* The rows of the relations and the rules refer to rows that exist.
ReferencesInv ==
  /\ \A g \in Groups : member[g] # {} => group[g] \in Statuses
  /\ \A k \in HostGroups : \A h \in hostMember[k] :
       hostGroup[k] = "active" /\ host[h].row = "active"
  /\ \A r \in Rules : rule[r].row = "active" => Referenced(rule[r].columns)

\* Between its DELETE and its INSERT an assignment's user is in no group but
\* those the user was put into meanwhile.
AssignInv ==
  \A a \in Admins : task[a].at = "insert" =>
    {g \in Groups : task[a].user \in member[g]} \subseteq drift[a]

AccessInv ==
  /\ TicketsInv /\ TicketVouches /\ ReferencesInv /\ SweepListsExpired /\ AssignInv /\ RequestsInv
  /\ \A c \in Clients : SeenInv(c) /\ RouteInv(c)

=============================================================================

------------------------------ MODULE Gateway -------------------------------
(***************************************************************************)
(* The SSH gateway server: instances that come and go with their host keys *)
(* (module HostKey), password and key authentication, the session's second *)
(* factor, the menu (module HostMenu), the registry of sessions and its    *)
(* sweep.  Users and the global two-factor setting change meanwhile        *)
(* (module Account has their handlers).                                    *)
(***************************************************************************)
EXTENDS HostKey, HostMenu, FiniteSets

CONSTANTS UserForms,      \* rows of the user that logs in, as they may be
          StartCatalog,
          MaxAuthTries,   \* the SSH library's limit for one connection
          MaxMfaAttempts,
          SessionTimeout, Now,  \* hours; the zero time is 0
          MaxEdits        \* bound: changes by administrators

ASSUME GatewayAssumption ==
  /\ MaxAuthTries \in Nat \ {0} /\ MaxMfaAttempts \in Nat \ {0}
  /\ SessionTimeout \in Nat /\ Now \in Nat /\ MaxEdits \in Nat
  /\ StartCatalog \in Catalogs
  \* auth_handler.go 226 and 776 accept no other method.
  /\ UserForms \subseteq [known : {TRUE}, active : BOOLEAN, method : {"password", "publickey"},
                          key : {"", "k1", "k2"}, twoFactor : BOOLEAN]

VARIABLES
  sess,       \* sess[s]: the connection and its session
  registry,   \* sessions in the servers' maps
  cancelled,  \* sessions whose context is cancelled
  user,       \* the row of the user
  globalMFA,  \* two_factor_config.enabled
  edits,      \* changes so far
  seen,       \* seen[s]: of the account, since s's present attempt to log in
  held        \* held[s]: demanded all along from s's login to its menu

serverVars == <<sess, registry, cancelled>>
accountVars == <<user, globalMFA, edits>>
vars == <<keyVars, faults, menuVars, serverVars, accountVars, seen, held>>

NoUser == [known |-> FALSE, active |-> FALSE, method |-> "", key |-> "", twoFactor |-> FALSE]
NoSession == [at |-> "idle", instance |-> "", online |-> FALSE, tries |-> 0,
              codes |-> 0, copy |-> NoUser, proof |-> "", verified |-> FALSE,
              blind |-> FALSE]
AuthStates == {"auth", "method", "status", "key"}
Running(s) == sess[s].at \in {"user", "config", "code", "menu"}

Account == [active |-> user.active, key |-> user.method = "publickey" /\ user.key # ""]
NothingSeen == [active |-> FALSE, key |-> FALSE]
Demands == [global |-> user.known /\ globalMFA, own |-> user.twoFactor]

Init ==
  /\ HostKeyInit /\ MenuInit(StartCatalog)
  /\ sess = [s \in Sessions |-> NoSession]
  /\ registry = {} /\ cancelled = {}
  /\ user \in UserForms \cup {NoUser} /\ globalMFA \in BOOLEAN
  /\ edits = 0
  /\ seen = [s \in Sessions |-> NothingSeen]
  /\ held = [s \in Sessions |-> Demands]

Goto(s, at) == sess' = [sess EXCEPT ![s].at = at]
Alone == UNCHANGED <<registry, cancelled, menuVars, keyVars, faults, accountVars>>

-----------------------------------------------------------------------------
(* Authentication.  The library's handlers read the user again and again.   *)

Connect(s, i) ==
  /\ sess[s].at = "idle" /\ instance[i] = "up"
  /\ sess' = [sess EXCEPT ![s].at = "auth", ![s].instance = i, ![s].online = TRUE]
  /\ Alone

\* The library lets the client try again, up to its limit.
Rejected(s) ==
  sess' = [sess EXCEPT ![s].tries = @ + 1,
             ![s].at = IF sess[s].tries + 1 < MaxAuthTries THEN "auth" ELSE "refused"]
Accepted(s, proof) ==
  sess' = [sess EXCEPT ![s].at = "open", ![s].proof = proof]

\* handlePasswordAuth: one read, status and password.
ValidatePassword(right) == user.active /\ right
HandlePasswordAuth(s, right) ==
  /\ sess[s].at = "auth" /\ sess[s].online
  /\ IF user.known /\ ValidatePassword(right) THEN Accepted(s, "password") ELSE Rejected(s)
  /\ Alone

\* handlePublicKeyAuth reads the method; CanHandle reads it again.
HandlePublicKeyAuth(s) ==
  /\ sess[s].at = "auth" /\ sess[s].online
  /\ IF user.known /\ user.method # "password" THEN Goto(s, "method") ELSE Rejected(s)
  /\ Alone
CanHandle(s) ==
  /\ sess[s].at = "method"
  /\ IF user.known /\ user.method \in {"publickey", "all"}
     THEN Goto(s, "status") ELSE Rejected(s)
  /\ Alone

\* Authenticate reads the row whose status it will look at, then the key,
\* which GetUserPublicKey gives out for its own list of methods.
ReadStatus(s) ==
  /\ sess[s].at = "status"
  /\ IF user.known THEN sess' = [sess EXCEPT ![s].copy = user, ![s].at = "key"]
     ELSE Rejected(s)
  /\ Alone
GetUserPublicKey ==
  IF user.known /\ user.method \in {"publickey", "both"} THEN user.key ELSE ""

\* Mistake: the key is compared and the status is not looked at.
AuthenticateAnyStatus(s, offered) ==
  /\ sess[s].at = "key"
  /\ IF GetUserPublicKey # "" /\ GetUserPublicKey = offered
     THEN Accepted(s, "key") ELSE Rejected(s)
  /\ Alone

Authenticate(s, offered) ==
  /\ sess[s].at = "key"
  /\ IF GetUserPublicKey # "" /\ GetUserPublicKey = offered /\ sess[s].copy.active
     THEN Accepted(s, "key") ELSE Rejected(s)
  /\ Alone

-----------------------------------------------------------------------------
(* The session.                                                             *)

\* Its end: the deferred unregisterSession, which cancels what is still
\* registered.
Unregister(s) ==
  /\ registry' = registry \ {s}
  /\ cancelled' = IF s \in registry THEN cancelled \cup {s} ELSE cancelled
Ended(s) ==
  /\ sess' = [sess EXCEPT ![s] = [NoSession EXCEPT !.at = "ended"]]
  /\ menu' = [menu EXCEPT ![s] = NoMenu]
  /\ Unregister(s)

\* handleSSHSession, to the registration.
BeginSession(s) ==
  /\ sess[s].at = "open"
  /\ sess' = [sess EXCEPT ![s].at = "user", ![s].copy = NoUser]
  /\ registry' = registry \cup {s}
  /\ cancelled' = IF instance[sess[s].instance] = "stopping"
                  THEN cancelled \cup {s} ELSE cancelled
  /\ UNCHANGED <<menuVars, keyVars, faults, accountVars>>

\* HandleTerminal; what was read for the second factor is out of scope.
OpenMenu(s, verified, blind) ==
  /\ menu' = [menu EXCEPT ![s] = [NoMenu EXCEPT !.at = "load"]]
  /\ sess' = [sess EXCEPT ![s].at = "menu", ![s].verified = verified, ![s].blind = blind,
                 ![s].tries = 0, ![s].codes = 0, ![s].copy = NoUser, ![s].proof = ""]

\* The user is read once more; if that fails, no second factor is asked for.
ReadSessionUser(s) ==
  /\ sess[s].at = "user"
  /\ \/ /\ user.known /\ UNCHANGED <<menu, faults>>
        /\ sess' = [sess EXCEPT ![s].at = "config", ![s].copy = user]
     \/ ~user.known /\ OpenMenu(s, FALSE, FALSE) /\ UNCHANGED faults
     \/ Fault /\ OpenMenu(s, FALSE, TRUE)
  /\ UNCHANGED <<catalog, registry, cancelled, keyVars, accountVars>>

\* Mistake: a user's own second factor counts only where the global one is on.
CheckMFAGlobalOnly(s) ==
  /\ sess[s].at = "config"
  /\ \/ globalMFA /\ ~sess[s].copy.twoFactor /\ Ended(s) /\ UNCHANGED faults
     \/ /\ globalMFA /\ sess[s].copy.twoFactor /\ Goto(s, "code")
        /\ UNCHANGED <<menu, registry, cancelled, faults>>
     \/ /\ ~globalMFA /\ OpenMenu(s, FALSE, FALSE)
        /\ UNCHANGED <<registry, cancelled, faults>>
  /\ UNCHANGED <<catalog, keyVars, accountVars>>

\* The global setting (a failed read counts as off), then the user's own.
CheckMFA(s) ==
  /\ sess[s].at = "config"
  /\ \E failed \in BOOLEAN :
       /\ IF failed THEN Fault ELSE UNCHANGED faults
       /\ LET global == globalMFA /\ ~failed
              own == sess[s].copy.twoFactor
          IN  \/ global /\ ~own /\ Ended(s)
              \/ own /\ Goto(s, "code") /\ UNCHANGED <<menu, registry, cancelled>>
              \/ /\ ~global /\ ~own /\ OpenMenu(s, FALSE, failed)
                 /\ UNCHANGED <<registry, cancelled>>
  /\ UNCHANGED <<catalog, keyVars, accountVars>>

\* performSessionMFA: a code that is right for the copy of the user, or one
\* more attempt that is not (an empty line counts).
PerformSessionMFA(s, right) ==
  /\ sess[s].at = "code" /\ sess[s].online
  /\ \/ right /\ OpenMenu(s, TRUE, FALSE) /\ UNCHANGED <<registry, cancelled>>
     \/ /\ ~right /\ sess[s].codes + 1 < MaxMfaAttempts
        /\ sess' = [sess EXCEPT ![s].codes = @ + 1]
        /\ UNCHANGED <<menu, registry, cancelled>>
     \/ /\ ~right /\ sess[s].codes + 1 = MaxMfaAttempts /\ Ended(s)
  /\ UNCHANGED <<catalog, keyVars, faults, accountVars>>

\* Mistake: the registry is cleared only when the terminal handler returns.
CodeReadFailsEarly(s) ==
  /\ sess[s].at = "code" /\ ~sess[s].online
  /\ Goto(s, "ended")
  /\ Alone

\* The client is gone while a code is read, or before it was let in.
CodeReadFails(s) ==
  /\ sess[s].at = "code" /\ ~sess[s].online
  /\ Ended(s)
  /\ UNCHANGED <<catalog, keyVars, faults, accountVars>>
GiveUp(s) ==
  /\ sess[s].at = "auth" /\ ~sess[s].online
  /\ Goto(s, "refused")
  /\ Alone

\* HandleTerminal returns.
LeaveMenu(s) ==
  /\ sess[s].at = "menu" /\ menu[s].at = "left"
  /\ Ended(s)
  /\ UNCHANGED <<catalog, keyVars, faults, accountVars>>

HangUp(s) ==
  /\ sess[s].online
  /\ sess' = [sess EXCEPT ![s].online = FALSE]
  /\ Alone

-----------------------------------------------------------------------------
(* The menu.  A query is answered, or is one of the faults; a command comes *)
(* from a client that is there.  Afterwards readCommand returns empty lines,*)
(* which no prompt takes for an answer.                                     *)

Query(reply) == IF reply THEN UNCHANGED faults ELSE Fault

MenuQuery(s) ==
  \/ \E reply, again \in BOOLEAN :
       (reply => again) /\ Query(reply) /\ LoadGroups(s, reply, again)
  \/ \E hosts \in ListAvailableHosts : Query(TRUE) /\ LoadAllHosts(s, hosts)
  \/ Query(FALSE) /\ \E hosts \in SetToAllKPermutations(Available) : LoadAllHosts(s, hosts)
  \/ \E reply \in BOOLEAN : Query(reply) /\ ReloadPage(s, reply)
  \/ \E ok \in BOOLEAN : Query(TRUE) /\ Returned(s, ok)

MenuCommand(s) ==
  /\ sess[s].online
  /\ \/ /\ Query(TRUE)
        /\ \/ PressToContinue(s) \/ Quit(s) \/ ShowGroups(s) \/ BackToMain(s) \/ LeaveGroup(s) \/ Help(s)
           \/ \E n \in 1..Len(menu[s].hosts) : PickHost(s, n)
     \/ \E reply \in BOOLEAN :
          /\ Query(reply)
          /\ \/ \E n \in 1..Len(menu[s].groups) : OpenGroup(s, n, reply)
             \/ Refresh(s, reply) \/ NextPage(s, reply) \/ PrevPage(s, reply)

\* The pause ends with the input, too.
InMenu(s) ==
  /\ sess[s].at = "menu"
  /\ MenuQuery(s) \/ (~sess[s].online /\ Query(TRUE) /\ PressToContinue(s))
  /\ UNCHANGED <<keyVars, serverVars, accountVars>>
Command(s) ==
  /\ sess[s].at = "menu" /\ MenuCommand(s)
  /\ UNCHANGED <<keyVars, serverVars, accountVars>>

-----------------------------------------------------------------------------
(* The server.                                                              *)

\* registerSession is given a session whose StartTime nobody sets.
StartTime(s) == 0
Expired(s) == SessionTimeout > 0 /\ Now - StartTime(s) > SessionTimeout

CleanupExpiredSessions(i) ==
  /\ instance[i] = "up"
  /\ LET due == {s \in registry : sess[s].instance = i /\ Expired(s)}
     IN  registry' = registry \ due /\ cancelled' = cancelled \cup due
  /\ UNCHANGED <<sess, menuVars, keyVars, faults, accountVars>>

\* Stop cancels every context and closes every connection; it returns before
\* it gets to the sessions.
Stop(i) ==
  /\ instance[i] = "up"
  /\ instance' = [instance EXCEPT ![i] = "stopping"]
  /\ cancelled' = cancelled \cup {s \in registry : sess[s].instance = i}
  /\ sess' = [s \in Sessions |-> IF sess[s].instance = i
                                 THEN [sess[s] EXCEPT !.online = FALSE] ELSE sess[s]]
  /\ UNCHANGED <<hostKey, startNo, starts, hostKeyRow, hostKeyFile, faults, registry,
                 menuVars, accountVars>>

\* The process ends and takes its sessions along.
Exit(i) ==
  /\ ProcessEnds(i)
  /\ LET mine == {s \in Sessions : sess[s].instance = i}
     IN  /\ sess' = [s \in Sessions |-> IF s \in mine
                       THEN [NoSession EXCEPT !.at = "gone"] ELSE sess[s]]
         /\ menu' = [s \in Sessions |-> IF s \in mine THEN NoMenu ELSE menu[s]]
         /\ registry' = registry \ mine
         /\ cancelled' = cancelled \ mine
  /\ UNCHANGED <<catalog, accountVars>>

-----------------------------------------------------------------------------
(* Administrators.                                                          *)

Edit == edits < MaxEdits /\ edits' = edits + 1

\* The account is created or one of module Account's handlers changes it, in
\* any way: its row is never deleted.
EditUser ==
  /\ Edit
  /\ user' \in UserForms \ {user}
  /\ UNCHANGED <<globalMFA, serverVars, menuVars, keyVars, faults>>
UpdateGlobalConfig ==
  /\ Edit
  /\ globalMFA' = ~globalMFA
  /\ UNCHANGED <<user, serverVars, menuVars, keyVars, faults>>
EditLists ==
  /\ Edit /\ EditCatalog
  /\ UNCHANGED <<user, globalMFA, serverVars, keyVars, faults>>

-----------------------------------------------------------------------------
(* History: what was true of the account at some time since the attempt to  *)
(* log in began, and what has been from the login to the menu.              *)

Remember ==
  /\ seen' = [s \in Sessions |->
       CASE sess'[s].at = "auth" -> Account'
         [] sess'[s].at \in AuthStates \ {"auth"} ->
              [f \in DOMAIN Account |-> seen[s][f] \/ Account'[f]]
         [] sess'[s].at \in {"menu", "ended", "gone"} -> NothingSeen
         [] OTHER -> seen[s]]
  /\ held' = [s \in Sessions |->
       IF sess'[s].at \in AuthStates \cup {"idle", "open"} THEN Demands'
       ELSE IF sess[s].at = "menu" THEN held[s]
       ELSE [f \in DOMAIN Demands |-> held[s][f] /\ Demands'[f]]]

\* What a connection's goroutine does by itself, and what its client sends.
Session(s) ==
  \/ CanHandle(s) \/ ReadStatus(s)
  \/ \E offered \in {"k1", "k2"} : Authenticate(s, offered)
  \/ BeginSession(s) \/ ReadSessionUser(s) \/ CheckMFA(s)
  \/ CodeReadFails(s) \/ GiveUp(s) \/ InMenu(s) \/ LeaveMenu(s)
Client(s) ==
  \/ \E right \in BOOLEAN : HandlePasswordAuth(s, right) \/ PerformSessionMFA(s, right)
  \/ HandlePublicKeyAuth(s) \/ Command(s) \/ HangUp(s)

Elsewhere == UNCHANGED <<menuVars, serverVars, accountVars>>
Next ==
  /\ \/ \E i \in Instances : SetupHostKey(i) /\ Elsewhere
     \/ \E i \in Instances : CleanupExpiredSessions(i) \/ Stop(i) \/ Exit(i)
     \/ \E s \in Sessions, i \in Instances : Connect(s, i)
     \/ \E s \in Sessions : Session(s) \/ Client(s)
     \/ EditUser \/ UpdateGlobalConfig \/ EditLists
  /\ Remember

Spec == Init /\ [][Next]_vars

-----------------------------------------------------------------------------
(* Properties.                                                              *)

SessionStates == AuthStates \cup {"idle", "refused", "open", "user", "config", "code",
                                  "menu", "ended", "gone"}
Connections == [at : SessionStates, instance : Instances \cup {""}, online : BOOLEAN,
                tries : 0..MaxAuthTries, codes : 0..MaxMfaAttempts - 1,
                copy : UserForms \cup {NoUser}, proof : {"", "password", "key"},
                verified : BOOLEAN, blind : BOOLEAN]
TypeOK ==
  /\ HostKeyTypeOK /\ MenuTypeOK
  /\ sess \in [Sessions -> Connections]
  /\ \A s \in Sessions : menu[s].at = "closed" <=> sess[s].at # "menu"
  /\ registry \subseteq Sessions /\ cancelled \subseteq Sessions
  /\ user \in UserForms \cup {NoUser} /\ globalMFA \in BOOLEAN
  /\ seen \in [Sessions -> [active : BOOLEAN, key : BOOLEAN]]
  /\ held \in [Sessions -> [global : BOOLEAN, own : BOOLEAN]]

\* Instances that share a host key all present the one in the database,
\* however their first starts interleave and whatever fails; one with a file
\* to fall back on presents its file.
SharedKeysAgree ==
  \A i \in SharedInstances : instance[i] \in {"up", "stopping"} =>
    \/ hostKey[i] = hostKeyRow
    \/ i \in FileInstances /\ hostKey[i] = hostKeyFile[i]

\* Whoever is let in had an active account at some time since the attempt
\* began, and if by key, one that had a key and was to use it, although the
\* row is read four times.
LoginEntitled ==
  \A s \in Sessions : sess[s].at \in {"open", "user", "config", "code"} =>
    /\ seen[s].active
    /\ sess[s].proof = "key" => seen[s].key

\* No menu without a right code for a session from whose login to whose menu
\* a second factor was demanded all along, by the global setting or by the
\* user's own, provided the session's reads were answered.
SecondFactorHeld ==
  \A s \in Sessions :
    /\ sess[s].at = "menu" /\ ~sess[s].blind
    /\ held[s].global \/ held[s].own
    => sess[s].verified

\* A login is worth what it was asked for: both the account's state at the time
\* of the login and the second factor hold, whatever changes between the reads
\* of handlePublicKeyAuth, CanHandle, Authenticate and handleSSHSession.
LoginGuarded == LoginEntitled /\ SecondFactorHeld

\* The registry has no session that is over, and a session that runs outside
\* it has been cancelled, as has one that is over.
RegistryHoldsLive ==
  \A s \in Sessions :
    /\ s \in registry => Running(s)
    /\ Running(s) /\ s \notin registry => s \in cancelled
    /\ sess[s].at = "ended" => s \in cancelled

\* The server's own state: everything has its type, and registerSession, the
\* sweep, Stop and the deferred unregisterSession keep the registry right in
\* every order.
GatewaySound == TypeOK /\ RegistryHoldsLive

\* A number picks the host that bore it in the list last shown, through
\* paging, failed queries, and returns to the first prompt.
PickedIsShown ==
  \A s \in Sessions : menu[s].at = "picked" =>
    /\ menu[s].typed \in 1..Len(menu[s].shown)
    /\ menu[s].picked = menu[s].shown[menu[s].typed]

-----------------------------------------------------------------------------
(* Inductive strengthenings, used by Gateway_proofs.                        *)

\* A start has a number, a shared instance looks for a local key only if it has
\* a file, and the row that an instance took its key from is filled for good.
KeysInv ==
  /\ \A i \in Instances : instance[i] # "down" => startNo[i] # NoKey
  /\ \A i \in SharedInstances : instance[i] = "local" => i \in FileInstances
  /\ \A i \in SharedInstances : instance[i] \in {"up", "stopping"} =>
       \/ hostKeyRow # NoKey /\ hostKey[i] = hostKeyRow
       \/ i \in FileInstances /\ hostKey[i] = hostKeyFile[i]

\* A menu: its type, and the list it keeps is the one shown, or empty.
GoodMenu(m) ==
  /\ m \in Menus
  /\ m.at \in {"hosts", "again"} => m.group # None
  /\ m.at # "left" => m.hosts = m.shown \/ m.hosts = <<>>
  /\ m.at = "picked" => m.typed \in 1..Len(m.shown) /\ m.picked = m.shown[m.typed]

\* A session: who may still try has a try left, and the registry is right.
GoodSession(s) ==
  /\ sess[s] \in Connections /\ GoodMenu(menu[s])
  /\ menu[s].at = "closed" <=> sess[s].at # "menu"
  /\ sess[s].at \in AuthStates \cup {"idle"} => sess[s].tries < MaxAuthTries
  /\ s \in registry => Running(s)
  /\ Running(s) /\ s \notin registry => s \in cancelled
  /\ sess[s].at = "ended" => s \in cancelled

ServerInv ==
  /\ sess \in [Sessions -> Connections] /\ menu \in [Sessions -> Menus] /\ catalog \in Catalogs
  /\ registry \subseteq Sessions /\ cancelled \subseteq Sessions
  /\ user \in UserForms \cup {NoUser} /\ globalMFA \in BOOLEAN
  /\ \A s \in Sessions : GoodSession(s)

\* A login: during an attempt what the account is has been seen, and so has the
\* status that was copied; a user's own second factor that was demanded all
\* along is in the copy.
GoodLogin(s) ==
  /\ sess[s].at \in AuthStates =>
       /\ Account.active => seen[s].active
       /\ Account.key => seen[s].key
       /\ sess[s].at = "key" /\ sess[s].copy.active => seen[s].active
  /\ sess[s].at \in {"open", "user", "config", "code"} =>
       seen[s].active /\ (sess[s].proof = "key" => seen[s].key)
  /\ sess[s].at \in {"config", "code"} /\ held[s].own => sess[s].copy.twoFactor
  /\ sess[s].at = "menu" /\ ~sess[s].blind /\ (held[s].global \/ held[s].own) => sess[s].verified

HistoryTypeOK ==
  /\ seen \in [Sessions -> [active : BOOLEAN, key : BOOLEAN]]
  /\ held \in [Sessions -> [global : BOOLEAN, own : BOOLEAN]]
LoginStateInv == HistoryTypeOK /\ \A s \in Sessions : GoodLogin(s)

GatewayInv == KeysInv /\ ServerInv /\ LoginStateInv

=============================================================================

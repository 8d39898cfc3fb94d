-------------------------------- MODULE Account --------------------------------
(***************************************************************************)
(* One account: its row in the users table, the requests that change it     *)
(* (api/handler/auth_handler.go and twofactor_handler.go over               *)
(* service/auth_service.go and repository/user_repository.go), the logins   *)
(* that read it, their tokens (api/middleware/auth.go), and the periodic     *)
(* check of service/expiration_service.go that warns and disables, one on    *)
(* every instance of the server.                                            *)
(*                                                                         *)
(* The database has no transactions here.  A request reads the row, works    *)
(* on its copy and then either saves the whole copy (gorm's Save) or         *)
(* updates single columns; anything may happen in between.  Which operation  *)
(* a request is matters only from its write on, so that a request in flight   *)
(* is a copy of the row and the rights it came with.                         *)
(*                                                                         *)
(* Time counts in days.  A request does not last over midnight; the check    *)
(* may.                                                                     *)
(***************************************************************************)
EXTENDS Naturals, FiniteSets

CONSTANTS
  Requests,     \* requests that can be in flight at a time
  Checks,       \* the servers' periodic checks
  Secrets,      \* TOTP secrets
  WarningDays,  \* how long before the date the warning is sent
  TokenLife,    \* days a token is good for (seven in the code)
  MaxTime,      \* days that pass (bound)
  MaxRequests,  \* requests made (bound)
  MaxFaults     \* statements of a check that fail, and restarts (bound)

ASSUME AccountAssumption ==
  /\ Secrets # {} /\ "none" \notin Secrets
  /\ WarningDays \in Nat /\ TokenLife \in Nat
  /\ MaxTime \in Nat \ {0} /\ MaxRequests \in Nat /\ MaxFaults \in Nat

VARIABLES
  clock,
  row,       \* the account in the table
  policy,    \* what the settings make of an expired account
  tokens,    \* the tokens ever given out
  req,       \* the requests in flight
  sweep,     \* the periodic checks
  count,     \* requests made
  faults,
  \* The rest is history, for the properties only.
  created,   \* how often a row was inserted
  keyless,   \* whether it was created for public keys and without one
  lastAdmin, \* the last day on which the row said admin
  told,      \* the dates that a warning has gone out about
  crossed,   \* the dates written while a check was about to warn or to mark
  unmarked   \* the dates told about whose mark was lost or written over

history == <<created, keyless, lastAdmin, told, crossed, unmarked>>
vars == <<clock, row, policy, tokens, req, sweep, count, faults, history>>

Days    == 1 .. MaxTime
YesNo   == {"yes", "no"}
Methods == {"password", "publickey"}
Roles   == {"admin", "user"}

User ==
  [status : {"absent", "active", "inactive"}, role : Roles,
   method : Methods, key : {"none", "set"},
   expires : Days \cup {0},            \* 0: never
   warned : YesNo, auto : YesNo,
   enabled : YesNo, secret : Secrets \cup {"none"}, backup : {"none", "set"}]

\* The password, the names and the e-mail address are columns like the others;
\* no property is about them and User leaves them out.

\* What a request may do: anonymous requests log in or register, "self" is the
\* owner's token, "selfAdmin" the same with the role admin in it, and "admin" is
\* another administrator.
Rights == {"anonymous", "self", "selfAdmin", "admin"}

Token == [role : Roles, at : 0 .. MaxTime]

TypeOK ==
  /\ clock \in 0 .. MaxTime
  /\ row \in User
  /\ policy \in {"disable", "notify"}
  /\ tokens \subseteq Token
  /\ req \in [Requests -> [stage : {"idle", "read", "info", "date"},
                           by : Rights, user : User]]
  /\ sweep \in [Checks -> [stage : {"idle", "warn", "mark", "list", "due"},
                           now : 0 .. MaxTime, expires : 0 .. MaxTime, auto : YesNo]]
  /\ count \in 0 .. MaxRequests /\ faults \in 0 .. MaxFaults
  /\ created \in Nat /\ keyless \in YesNo
  /\ lastAdmin \in 0 .. MaxTime
  /\ told \subseteq 0 .. MaxTime /\ crossed \subseteq 0 .. MaxTime
  /\ unmarked \subseteq 0 .. MaxTime

\* The row before it is inserted, and what an insert fills in.
NewUser(role, method) ==
  [status |-> "active", role |-> role,
   method |-> method, key |-> "none", expires |-> 0, warned |-> "no",
   auto |-> "yes", enabled |-> "no", secret |-> "none", backup |-> "none"]

Nobody == [NewUser("user", "password") EXCEPT !.status = "absent"]

Idle == [stage |-> "idle", by |-> "anonymous", user |-> Nobody]

Waiting == [stage |-> "idle", now |-> 0, expires |-> 0, auto |-> "no"]

\* Nobody is registered yet, or an administrator, or a user with a date.
Init ==
  /\ clock = 0
  /\ row \in {Nobody, NewUser("admin", "password"),
              [NewUser("user", "password") EXCEPT !.expires = MaxTime - 1]}
  /\ policy \in {"disable", "notify"}
  /\ tokens = {} /\ req = [r \in Requests |-> Idle]
  /\ sweep = [k \in Checks |-> Waiting] /\ count = 0 /\ faults = 0
  /\ created = (IF row.status = "absent" THEN 0 ELSE 1) /\ keyless = "no"
  /\ lastAdmin = 0 /\ told = {} /\ crossed = {} /\ unmarked = {}

-----------------------------------------------------------------------------
(* The repository.                                                          *)

Exists == row.status # "absent"

\* A check has listed the account for a warning and not marked it yet.
Warns(k) == sweep[k].stage \in {"warn", "mark"}

\* The bookkeeping of a write that leaves u in the table: of the date, its mark
\* and the role.
Wrote(u) ==
  /\ crossed' = IF u.expires # row.expires /\ \E k \in Checks : Warns(k)
                THEN crossed \cup {u.expires} ELSE crossed
  /\ unmarked' = IF /\ u.warned = "no" /\ u.expires \in told
                    /\ row.warned = "yes" \/ u.expires # row.expires
                 THEN unmarked \cup {u.expires} ELSE unmarked
  /\ lastAdmin' = IF u.status # "absent" /\ u.role = "admin" THEN clock ELSE lastAdmin
  /\ UNCHANGED told

Finish(r) == req' = [req EXCEPT ![r] = Idle]

\* Mistake: only the columns of the operation are written.
SaveChangedColumns(r, u) ==
  /\ row' = [c \in DOMAIN row |-> IF u[c] # req[r].user[c] THEN u[c] ELSE row[c]]
  /\ Wrote(row')
  /\ UNCHANGED <<clock, policy, tokens, sweep, count, faults, created, keyless>>

\* db.Save: every column of the copy is written.
UpdateUser(r, u) ==
  /\ row' = u
  /\ Wrote(u)
  /\ UNCHANGED <<clock, policy, tokens, sweep, count, faults, created, keyless>>

\* Model(&User{}).Where("id = ?").Update: one column of whatever is there now.
UpdateUserStatus(r, status) ==
  /\ row' = [row EXCEPT !.status = status]
  /\ Wrote(row')
  /\ UNCHANGED <<clock, policy, tokens, sweep, count, faults, created, keyless>>

UpdateUserRole(r, role) ==
  /\ row' = [row EXCEPT !.role = role]
  /\ Wrote(row')
  /\ UNCHANGED <<clock, policy, tokens, sweep, count, faults, created, keyless>>

\* Mistake: the table has no unique index.
CreateUserAnyway(r, u) ==
  /\ row' = u
  /\ Wrote(u)
  /\ created' = created + 1
  /\ keyless' = IF u.method = "publickey" THEN "yes" ELSE "no"
  /\ UNCHANGED <<clock, policy, tokens, sweep, count, faults>>

\* The insert of a second row with the same name violates a unique index.
CreateUser(r, u) ==
  /\ ~Exists
  /\ row' = u
  /\ Wrote(u)
  /\ created' = created + 1
  /\ keyless' = IF u.method = "publickey" THEN "yes" ELSE "no"
  /\ UNCHANGED <<clock, policy, tokens, sweep, count, faults>>

\* A request is answered without a write.
Refuse(r) ==
  /\ Finish(r)
  /\ UNCHANGED <<clock, row, policy, tokens, sweep, count, faults, history>>

-----------------------------------------------------------------------------
(* A request arrives and reads the row.                                      *)

\* Mistake: the age of a token is not looked at.
AnyToken(t) == TRUE

\* The signature is good for TokenLife days; the table is not consulted.
ValidateToken(t) == clock < t.at + TokenLife

AuthMiddleware == \E t \in tokens : ValidateToken(t)

AdminMiddleware == \E t \in tokens : ValidateToken(t) /\ t.role = "admin"

Receive(r, by) ==
  /\ req[r].stage = "idle" /\ count < MaxRequests
  /\ by = "self" => AuthMiddleware
  /\ by = "selfAdmin" => AdminMiddleware
  /\ by \in {"self", "selfAdmin"} => Exists
  /\ count' = count + 1
  /\ req' = [req EXCEPT ![r] = [stage |-> "read", by |-> by, user |-> row]]
  /\ UNCHANGED <<clock, row, policy, tokens, sweep, faults, history>>

\* The request is the one of r, its account was found and it has the rights.
Handles(r, rights) ==
  /\ req[r].stage = "read" /\ req[r].by \in rights
  /\ req[r].user.status # "absent"

ByAdmin  == {"admin", "selfAdmin"}
BySelf   == {"self", "selfAdmin"}
ByEither == {"admin", "selfAdmin", "self"}

\* The account is not there, or the operation's own checks fail, or the body
\* cannot be read: every handler may answer with an error after its read.
Answer(r) == req[r].stage # "idle" /\ req[r].stage # "info" /\ Refuse(r)

-----------------------------------------------------------------------------
(* Accounts are made.                                                       *)

\* The name is looked for first and inserted afterwards.
Insert(r, role, method) ==
  /\ req[r].stage = "read" /\ req[r].user.status = "absent"
  /\ CreateUser(r, NewUser(role, method))
  /\ Finish(r)

Register(r) == req[r].by = "anonymous" /\ Insert(r, "user", "password")

CreateUserByAdmin(r) ==
  /\ req[r].by \in ByAdmin
  /\ \E role \in Roles, method \in Methods : Insert(r, role, method)

-----------------------------------------------------------------------------
(* Accounts are managed.                                                    *)

\* Name and e-mail, then, with a second read, the date.
UpdateUserInfo(r) ==
  /\ Handles(r, ByAdmin)
  /\ UpdateUser(r, req[r].user)
  /\ req' = [req EXCEPT ![r] = [@ EXCEPT !.stage = "info", !.user = Nobody]]

UpdateUserByAdmin(r) ==
  /\ req[r].stage = "info"
  /\ req' = [req EXCEPT ![r].stage = "date", ![r].user = row]
  /\ UNCHANGED <<clock, row, policy, tokens, sweep, count, faults, history>>

\* Mistake: a new date keeps the mark of the old one.
ExpirationKeepsMark(r) ==
  /\ req[r].stage = "date"
  /\ \E auto \in YesNo, d \in Days \cup {0} :
       UpdateUser(r, [req[r].user EXCEPT !.expires = d, !.auto = auto])
  /\ Finish(r)

\* No date in the request, an empty one, or one that can be read.
UpdateUserExpiration(r) ==
  /\ req[r].stage = "date"
  /\ \E auto \in YesNo :
       \/ UpdateUser(r, [req[r].user EXCEPT !.auto = auto])
       \/ \E d \in Days \cup {0} :
            UpdateUser(r, [req[r].user EXCEPT !.expires = d, !.warned = "no",
                                              !.auto = auto])
  /\ Finish(r)

ChangeRole(r) ==
  /\ Handles(r, ByAdmin)
  /\ \E role \in Roles : UpdateUserRole(r, role)
  /\ Finish(r)

\* Mistake: any word is taken for a status.
ChangeStatusUnchecked(r) ==
  /\ Handles(r, ByAdmin)
  /\ \E status \in {"active", "inactive", "locked"} : UpdateUserStatus(r, status)
  /\ Finish(r)

ChangeStatus(r) ==
  /\ Handles(r, ByAdmin)
  /\ \E status \in {"active", "inactive"} : UpdateUserStatus(r, status)
  /\ Finish(r)

\* A deleted user stays in the table.  Nobody deletes himself.
DeleteUser(r) ==
  /\ Handles(r, {"admin"})
  /\ UpdateUserStatus(r, "inactive")
  /\ Finish(r)

\* The new password is in a column that is not modelled; the others are
\* written back as they were read.
WithNewPassword(u) == u

ResetUserPassword(r) ==
  /\ Handles(r, ByAdmin)
  /\ UpdateUser(r, WithNewPassword(req[r].user))
  /\ Finish(r)

\* The service's RenewUserExpiration, for an administrator, though no route
\* leads to it yet, also wakes an account that is inactive in the copy.
RenewUserExpiration(r) ==
  /\ Handles(r, ByAdmin)
  /\ \E d \in Days \cup {0} :
       /\ row' = [row EXCEPT !.expires = d, !.warned = "no",
                    !.status = IF d > clock /\ req[r].user.status = "inactive"
                               THEN "active" ELSE @]
       /\ Wrote(row')
  /\ Finish(r)
  /\ UNCHANGED <<clock, policy, tokens, sweep, count, faults, created, keyless>>

-----------------------------------------------------------------------------
(* Keys.                                                                    *)

WithKey(u) == [u EXCEPT !.key = "set"]

\* Without a key the account goes back to its password.
WithoutKey(u) == [u EXCEPT !.key = "none", !.method = "password"]

MayUse(u, method) == method = "publickey" => u.key = "set"

GenerateSSHKey(r) ==
  /\ Handles(r, ByEither)
  /\ UpdateUser(r, WithKey(req[r].user))
  /\ Finish(r)

DeleteSSHKey(r) ==
  /\ Handles(r, ByEither)
  /\ UpdateUser(r, WithoutKey(req[r].user))
  /\ Finish(r)

UpdateUserAuthMethod(r) ==
  /\ Handles(r, ByEither)
  /\ \E method \in Methods :
       /\ MayUse(req[r].user, method)
       /\ UpdateUser(r, [req[r].user EXCEPT !.method = method])
  /\ Finish(r)

-----------------------------------------------------------------------------
(* The second factor.                                                       *)

\* SetupTwoFactor hands out a secret where there is none and keeps nothing.
SetupTwoFactor(r) ==
  /\ Handles(r, BySelf) /\ req[r].user.enabled = "no"
  /\ Finish(r)
  /\ UNCHANGED <<clock, row, policy, tokens, sweep, count, faults, history>>

\* The request that verifies brings a secret, the one handed out or another,
\* and a code that fits it.
VerifyTwoFactor(r) ==
  /\ Handles(r, BySelf)
  /\ \E s \in Secrets :
       UpdateUser(r, [req[r].user EXCEPT !.enabled = "yes", !.secret = s,
                                         !.backup = "set"])
  /\ Finish(r)

\* Mistake: the backup codes stay.
CodesKept(u) == [u EXCEPT !.enabled = "no", !.secret = "none"]

WithoutTwoFactor(u) == [u EXCEPT !.enabled = "no", !.secret = "none", !.backup = "none"]

\* Here the role in the table counts, not the one in the token.
DisableTwoFactor(r) ==
  /\ Handles(r, BySelf) /\ req[r].user.role = "admin"
  /\ UpdateUser(r, WithoutTwoFactor(req[r].user))
  /\ Finish(r)

ResetUserTwoFactor(r) ==
  /\ Handles(r, ByAdmin)
  /\ req[r].by = "selfAdmin" => req[r].user.role = "admin"
  /\ UpdateUser(r, WithoutTwoFactor(req[r].user))
  /\ Finish(r)

RegenerateBackupCodes(r) ==
  /\ Handles(r, BySelf) /\ req[r].user.enabled = "yes"
  /\ UpdateUser(r, [req[r].user EXCEPT !.backup = "set"])
  /\ Finish(r)

-----------------------------------------------------------------------------
(* Logins.                                                                  *)

\* The role goes into the token as the login read it.
GenerateToken(u) == tokens' = tokens \cup {[role |-> u.role, at |-> clock]}

Expired(u) == u.expires # 0 /\ u.expires < clock

\* The row was active when it was read, and the password right.
AuthenticateWithPassword(u) == u.status = "active"

\* If the second factor is on, a code of the request fitted as well; where one
\* is required of everybody, an account without one gets in to set it up.  A
\* wrong or missing code, and any login while LDAP or sign-on is configured,
\* end in Answer.
Login(r) ==
  /\ req[r].stage = "read" /\ req[r].by = "anonymous"
  /\ AuthenticateWithPassword(req[r].user) /\ ~Expired(req[r].user)
  /\ GenerateToken(req[r].user)
  /\ Finish(r)
  /\ UNCHANGED <<clock, row, policy, sweep, count, faults, history>>

\* What the sign-on service answers when the browser's code is to be exchanged,
\* and then about the user: either may be an error, of the transport, in the
\* status, in the body or for a field that is missing.
ExchangeCodeForToken == {"accessToken", "error"}
GetSSOUserInfo       == {"userInfo", "error"}

\* The account is read, by address or by name, only when both have answered.
SSOCallback(r) ==
  \E token \in ExchangeCodeForToken, info \in GetSSOUserInfo :
    \/ token # "error" /\ info # "error" /\ Receive(r, "anonymous")
    \/ /\ "error" \in {token, info}
       /\ req[r].stage = "idle" /\ count < MaxRequests
       /\ count' = count + 1
       /\ UNCHANGED <<clock, row, policy, tokens, req, sweep, faults, history>>

\* A sign-on makes the account, or saves its copy whole, and then looks at the
\* date of that copy.
SSOUser(u) == IF u.status = "absent" THEN NewUser("user", "password") ELSE u

CreateOrUpdateSSOUser(r) ==
  LET u == SSOUser(req[r].user)
  IN /\ row' = u
     /\ Wrote(u)
     /\ \/ req[r].user.status # "absent" /\ UNCHANGED <<created, keyless>>
        \/ req[r].user.status = "absent" /\ ~Exists
             /\ created' = created + 1 /\ keyless' = "no"

LoginWithSSO(r) ==
  /\ req[r].stage = "read" /\ req[r].by = "anonymous"
  /\ CreateOrUpdateSSOUser(r)
  /\ IF Expired(SSOUser(req[r].user)) THEN UNCHANGED tokens
                                      ELSE GenerateToken(SSOUser(req[r].user))
  /\ Finish(r)
  /\ UNCHANGED <<clock, policy, sweep, count, faults>>

-----------------------------------------------------------------------------
(* The periodic check.                                                      *)

ToWarn(u, now) ==
  /\ u.status = "active" /\ u.warned = "no"
  /\ u.expires # 0 /\ now < u.expires /\ u.expires <= now + WarningDays

Due(u, now) == u.status = "active" /\ u.expires # 0 /\ u.expires <= now

\* The k-th check goes on.
Goes(k, e) ==
  /\ sweep' = [sweep EXCEPT ![k] = e]
  /\ UNCHANGED <<clock, policy, tokens, req, count, created, keyless, lastAdmin, crossed>>

\* A check starts; one time is taken for all of it, and the accounts to warn
\* are listed.
PerformCheck(k) ==
  /\ sweep[k].stage = "idle"
  /\ Goes(k, IF ToWarn(row, clock)
             THEN [Waiting EXCEPT !.stage = "warn", !.now = clock, !.expires = row.expires]
             ELSE [Waiting EXCEPT !.stage = "list", !.now = clock])
  /\ UNCHANGED <<row, faults, told, unmarked>>

\* The warning goes out, about the date that was listed.
Warn(k) ==
  /\ sweep[k].stage = "warn"
  /\ Goes(k, [sweep[k] EXCEPT !.stage = "mark"])
  /\ told' = told \cup {sweep[k].expires}
  /\ UNCHANGED <<row, faults, unmarked>>

\* Mistake: the account is not marked.
MarkNothing(k) ==
  /\ sweep[k].stage = "mark"
  /\ Goes(k, [sweep[k] EXCEPT !.stage = "list", !.expires = 0])
  /\ UNCHANGED <<row, faults, told, unmarked>>

\* The account as it is now is marked.  Whether the UPDATE succeeds is not
\* looked at.
Mark(k) ==
  /\ sweep[k].stage = "mark"
  /\ Goes(k, [sweep[k] EXCEPT !.stage = "list", !.expires = 0])
  /\ \/ row' = [row EXCEPT !.warned = "yes"] /\ UNCHANGED <<faults, unmarked>>
     \/ /\ faults < MaxFaults /\ faults' = faults + 1
        /\ unmarked' = unmarked \cup {sweep[k].expires}
        /\ UNCHANGED row
  /\ UNCHANGED told

\* Mistake: the accounts to disable are looked for among the warned ones.
ListWarned(k) ==
  /\ sweep[k].stage = "list"
  /\ Goes(k, IF Due(row, sweep[k].now) /\ row.warned = "yes"
             THEN [sweep[k] EXCEPT !.stage = "due", !.expires = row.expires,
                                   !.auto = row.auto]
             ELSE Waiting)
  /\ UNCHANGED <<row, faults, told, unmarked>>

\* Mistake: an account without a date counts as expired.
ListUndated(k) ==
  /\ sweep[k].stage = "list"
  /\ Goes(k, IF row.status = "active" /\ row.expires <= sweep[k].now
             THEN [sweep[k] EXCEPT !.stage = "due", !.expires = row.expires,
                                   !.auto = row.auto]
             ELSE Waiting)
  /\ UNCHANGED <<row, faults, told, unmarked>>

\* The accounts that had expired when the check began are listed.
ListExpired(k) ==
  /\ sweep[k].stage = "list"
  /\ Goes(k, IF Due(row, sweep[k].now)
             THEN [sweep[k] EXCEPT !.stage = "due", !.expires = row.expires,
                                   !.auto = row.auto]
             ELSE Waiting)
  /\ UNCHANGED <<row, faults, told, unmarked>>

\* An account of the list is disabled without another look; here, too, the
\* UPDATE may fail unnoticed.
Disable(k) ==
  /\ sweep[k].stage = "due" /\ policy = "disable" /\ sweep[k].auto = "yes"
  /\ Goes(k, Waiting)
  /\ \/ row' = [row EXCEPT !.status = "inactive"] /\ UNCHANGED faults
     \/ faults < MaxFaults /\ faults' = faults + 1 /\ UNCHANGED row
  /\ UNCHANGED <<told, unmarked>>

\* Somebody is told that the account has expired, and nothing else happens.
NotifyOnly(k) ==
  /\ sweep[k].stage = "due" /\ (policy = "notify" \/ sweep[k].auto = "no")
  /\ Goes(k, Waiting)
  /\ UNCHANGED <<row, faults, told, unmarked>>

\* A query of the check fails, which ends it, or its server is restarted.
BreakOff(k) ==
  /\ sweep[k].stage # "idle" /\ faults < MaxFaults
  /\ faults' = faults + 1
  /\ Goes(k, Waiting)
  /\ unmarked' = IF sweep[k].stage = "mark" THEN unmarked \cup {sweep[k].expires}
                                           ELSE unmarked
  /\ UNCHANGED <<row, told>>

-----------------------------------------------------------------------------

Tick ==
  /\ clock < MaxTime
  /\ \A r \in Requests : req[r].stage = "idle"
  /\ clock' = clock + 1
  /\ lastAdmin' = IF Exists /\ row.role = "admin" THEN clock' ELSE lastAdmin
  /\ UNCHANGED <<row, policy, tokens, req, sweep, count, faults, created,
                 keyless, told, crossed, unmarked>>

Manage(r) ==
  \/ Register(r) \/ CreateUserByAdmin(r) \/ UpdateUserInfo(r) \/ UpdateUserByAdmin(r)
  \/ UpdateUserExpiration(r) \/ ChangeRole(r) \/ ChangeStatus(r) \/ DeleteUser(r)
  \/ ResetUserPassword(r) \/ RenewUserExpiration(r)
  \/ GenerateSSHKey(r) \/ DeleteSSHKey(r) \/ UpdateUserAuthMethod(r)
  \/ SetupTwoFactor(r) \/ VerifyTwoFactor(r) \/ DisableTwoFactor(r) \/ ResetUserTwoFactor(r)
  \/ RegenerateBackupCodes(r)

Sweep(k) ==
  PerformCheck(k) \/ Warn(k) \/ Mark(k) \/ ListExpired(k) \/ Disable(k) \/ NotifyOnly(k)

Next ==
  \/ Tick
  \/ \E k \in Checks : Sweep(k) \/ BreakOff(k)
  \/ \E r \in Requests :
       \/ SSOCallback(r) \/ \E by \in Rights : Receive(r, by)
       \/ Answer(r) \/ Manage(r) \/ Login(r) \/ LoginWithSSO(r)

\* A check runs in a goroutine of its own, woken by a timer.
Spec == Init /\ [][Next]_vars /\ \A k \in Checks : WF_vars(Sweep(k))

-----------------------------------------------------------------------------
(* What the account promises.                                               *)

\* However the saves of concurrent requests overtake each other, the columns of
\* the second factor fit together: it is on exactly when there is a secret and
\* there are codes.  (A save writes the whole copy, and every copy is whole.)
TwoFactorWhole ==
  /\ row.enabled = "yes" <=> row.secret # "none"
  /\ row.enabled = "yes" <=> row.backup = "set"

\* An account that logs in by public key has one, whatever deletes it meanwhile,
\* unless the administrator created it for public keys and without one.
KeyBacksMethod == row.method = "publickey" /\ keyless = "no" => row.key = "set"

\* Two requests that both found the name free do not both insert it.
OneRow == created <= 1

\* The mark tells the truth about the date it stands with.  A marked date has had
\* its warning, unless it was written while a check stood between listing the
\* account and marking it (expiration_service.go 121-143): failing marks,
\* restarts and a second server never cost a warning, and neither does an old
\* copy that is saved late.  A date that was told about is marked, or about to
\* be, and so not told about again, unless its mark failed, was broken off or
\* was written over with the date; no date is moved into that by a check.
WarningsMatchDate ==
  /\ row.warned = "yes" => row.expires \in told \cup crossed
  /\ row.warned = "no" /\ row.expires \in told =>
       \/ row.expires \in unmarked
       \/ \E k \in Checks : sweep[k].stage = "mark" /\ sweep[k].expires = row.expires

\* A role that was taken away works on in tokens, but for TokenLife days at most.
AdminLag ==
  \A r \in Requests : req[r].stage # "idle" /\ req[r].by = "selfAdmin"
                        => clock <= lastAdmin + TokenLife

\* The account's row and its tokens are sound, however the handlers' reads and
\* saves, the check's updates and the inserts interleave.
UsersSound == TypeOK /\ TwoFactorWhole /\ KeyBacksMethod /\ OneRow /\ AdminLag

\* A check disables an account only when it has expired, unless its date was
\* changed after the check had listed it.
DisabledWhenDue ==
  [][\A k \in Checks :
       sweep[k].stage # "idle" /\ sweep'[k].stage = "idle" /\ row'.status # row.status
         => (row.expires # 0 /\ row.expires <= clock) \/ row.expires # sweep[k].expires]_vars

\* An expired account that is to be disabled is disabled in the end, also when
\* a request saves an old copy of it over that.
ExpiredGetsDisabled ==
  (Due(row, clock) /\ row.auto = "yes" /\ policy = "disable")
     ~> ~(Due(row, clock) /\ row.auto = "yes")
=============================================================================

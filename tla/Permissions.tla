---------------------------- MODULE Permissions ----------------------------
(***************************************************************************)
(* Who may use which system user on which host: users belong to user       *)
(* groups, a permission rule gives a user group some system users on the   *)
(* hosts of some host groups (and on hosts it lists itself), within a      *)
(* period.  The module has the tables, every handler that edits them, the  *)
(* service that disables expired rules, and the queries that read them.    *)
(*                                                                         *)
(* The schema is that of sql/init.sql, which declares what the code leaves *)
(* to it: a relation's rows refer to rows that exist and are unique, so an *)
(* INSERT that breaks this is refused, and a DELETE takes the rows that    *)
(* refer to the deleted one with it.  An id (a UUID) is not given out      *)
(* again; a user's row is never deleted (module Account).                  *)
(***************************************************************************)
EXTENDS Integers

CONSTANTS Users, Groups, SysUsers, Hosts, HostGroups, Rules, Proxies,
          Admins,      \* goroutines with an edit of several statements
          RuleForms,   \* bodies of requests that create or change a rule
          HostForms,   \* bodies of requests that change a host
          StartGroups, StartSysUsers, StartHostGroups,  \* rows on file
          StartRules,  \* StartRules[r]: rule r at the start
          MaxEdits     \* bound: changes made from outside

None == "none"
Statuses == {"active", "inactive"}
Row == Statuses \cup {"new", "deleted"}
Date == {"nil", "past", "future"}

\* A rule's columns (hg and su are the old host_group_id and system_user_id,
\* which no query reads) and its two relation tables.  In the body of a request
\* the user group may be missing.
RuleColumns(groups) ==
  [enabled : BOOLEAN, from : Date, to : Date, group : groups, ids : SUBSET Hosts,
   hg : HostGroups \cup {None}, su : SysUsers \cup {None},
   sys : SUBSET SysUsers, hgs : SUBSET HostGroups]
Columns == RuleColumns(Groups)
Stored(columns, row) == [columns |-> columns, row |-> row]
RuleRow == [columns : Columns, row : {"new", "active", "deleted"}]
HostColumns == [mode : {"direct", "proxy", "auto"}, proxy : Proxies \cup {None},
                tagged : BOOLEAN]
HostRow == [columns : HostColumns, row : {"active", "deleted"}]

ASSUME FormsAssumption ==
  /\ None \notin Groups \cup HostGroups \cup SysUsers
  /\ RuleForms \subseteq RuleColumns(Groups \cup {None})
  /\ HostForms \subseteq [mode : {"", "direct", "proxy", "auto"}, proxy : Proxies \cup {None},
                          tagged : BOOLEAN]
  /\ MaxEdits \in Nat

\* The rules on file refer to rows on file.
ASSUME StartAssumption ==
  /\ StartRules \in [Rules -> RuleRow]
  /\ \A r \in Rules : StartRules[r].row = "active" =>
       LET c == StartRules[r].columns
       IN  /\ c.group \in StartGroups
           /\ c.sys \subseteq StartSysUsers /\ c.su \in StartSysUsers \cup {None}
           /\ c.hgs \subseteq StartHostGroups /\ c.hg \in StartHostGroups \cup {None}

VARIABLES
  group,       \* group[g]: the user_groups row
  member,      \* member[g]: user_group_members
  sys,         \* sys[s]: the system_users row
  hostGroup,   \* hostGroup[k]: the host_groups row
  hostMember,  \* hostMember[k]: host_group_members
  host,        \* host[h]: the hosts row
  rule,        \* rule[r]: permission_rules and its relations
  task,        \* task[a]: the edit administrator a has under way
  drift,       \* drift[a]: groups its user was put into since a's DELETE
  conf,        \* the settings of the expiration service
  sweep,       \* its sweep: the rules it read as expired
  renewed,     \* rules given another date since the sweep read them
  edits        \* changes made so far

tables == <<group, member, sys, hostGroup, hostMember, host, rule>>
permVars == <<tables, task, drift, conf, sweep, renewed, edits>>

NoColumns == [mode |-> "auto", proxy |-> None, tagged |-> TRUE]
NoTask == [at |-> "idle", user |-> None, groups |-> {}, of |-> None,
           columns |-> NoColumns]
NoSweep == [at |-> "idle", due |-> {}]
Tasks == [at : {"idle", "host", "hostGroup", "delete", "insert"}, user : Users \cup {None},
          groups : SUBSET Groups, of : Hosts \cup HostGroups \cup {None},
          columns : HostColumns]

PermInit ==
  /\ group = [g \in Groups |-> IF g \in StartGroups THEN "active" ELSE "new"]
  /\ member = [g \in Groups |-> IF g \in StartGroups THEN Users ELSE {}]
  /\ sys = [s \in SysUsers |-> IF s \in StartSysUsers THEN "active" ELSE "new"]
  /\ hostGroup = [k \in HostGroups |-> IF k \in StartHostGroups THEN "active" ELSE "new"]
  /\ hostMember = [k \in HostGroups |-> IF k \in StartHostGroups THEN Hosts ELSE {}]
  /\ host = [h \in Hosts |-> [columns |-> NoColumns, row |-> "active"]]
  /\ rule = StartRules
  /\ task = [a \in Admins |-> NoTask]
  /\ drift = [a \in Admins |-> {}]
  /\ conf = [enabled |-> TRUE, autoDisable |-> TRUE]
  /\ sweep = NoSweep
  /\ renewed = {}
  /\ edits = 0

-----------------------------------------------------------------------------
(* The queries.                                                             *)

\* enabled, valid_from and valid_to.
InForce(r) ==
  /\ rule[r].row = "active" /\ rule[r].columns.enabled
  /\ rule[r].columns.from # "future"
  /\ rule[r].columns.to # "past"

\* The joins over user_groups and user_group_members.
AppliesTo(r, u) ==
  LET g == rule[r].columns.group IN group[g] = "active" /\ u \in member[g]

\* A host is in scope through a host group (the query does not join
\* host_groups), or because the rule lists it.
InScope(r, h) ==
  \/ \E k \in rule[r].columns.hgs : h \in hostMember[k]
  \/ h \in rule[r].columns.ids

\* The rules' word alone: system_users is not joined.
CheckUserHasPermission(u, h, s) ==
  \E r \in Rules : /\ InForce(r) /\ AppliesTo(r, u) /\ InScope(r, h)
                   /\ s \in rule[r].columns.sys

GetAvailableSystemUsersForUser(u, h) ==
  {s \in SysUsers :
     /\ sys[s] = "active"
     /\ \E r \in Rules : /\ InForce(r) /\ AppliesTo(r, u) /\ InScope(r, h)
                         /\ s \in rule[r].columns.sys}

\* Mistake: a rule with no start date is taken for one that has not started.
GetAccessibleHostIDsStarted(u) ==
  UNION {hostMember[k] : k \in UNION {rule[r].columns.hgs :
           r \in {r \in Rules : InForce(r) /\ AppliesTo(r, u)
                                /\ rule[r].columns.from # "nil"}}}

\* The list of the web pages.  The hosts a rule lists itself are missing:
\* JSON_EXTRACT returns the whole array as one string, which is no host's id.
GetAccessibleHostIDsForUser(u) ==
  UNION {hostMember[k] : k \in UNION {rule[r].columns.hgs :
           r \in {r \in Rules : InForce(r) /\ AppliesTo(r, u)}}}
FindByUserPermissions(u) ==
  {h \in GetAccessibleHostIDsForUser(u) : host[h].row = "active"}

\* The list of the SSH menu, which does not ask whether the user group is
\* active, and its pages.
GetUserHostGroupIDs(u) ==
  UNION {rule[r].columns.hgs :
           r \in {r \in Rules : InForce(r) /\ u \in member[rule[r].columns.group]}}
ListGroupsForUser(u) ==
  {k \in GetUserHostGroupIDs(u) : hostGroup[k] = "active"}
ListHostsByGroup(k) == {h \in hostMember[k] : host[h].row = "active"}

-----------------------------------------------------------------------------
(* The administrators' handlers.  Each is one statement or one transaction. *)

Edit == edits < MaxEdits /\ edits' = edits + 1
Rest == <<task, conf, sweep>>

\* The foreign keys of a rule.
Referenced(c) ==
  /\ group[c.group] \in Statuses
  /\ \A s \in c.sys \cup ({c.su} \ {None}) : sys[s] \in Statuses
  /\ \A k \in c.hgs \cup ({c.hg} \ {None}) : hostGroup[k] = "active"

\* ON DELETE CASCADE: a rule that names the deleted row in a column goes, of the
\* others only the rows of the relations do.
Cascade(r, named, columns) ==
  IF rule[r].row = "active" THEN Stored(columns, IF named THEN "deleted" ELSE "active")
  ELSE rule[r]

\* CreateSystemUser and UpdateSystemUser (a body without a usable credential
\* is refused), DeleteSystemUser.
SetSystemUser(s, status) ==
  /\ Edit
  /\ IF sys[s] = "new" THEN status = "active" ELSE sys[s] # "deleted"
  /\ sys' = [sys EXCEPT ![s] = status]
  /\ UNCHANGED <<group, member, hostGroup, hostMember, host, rule, Rest>>

DeleteSystemUser(s) ==
  /\ Edit /\ sys[s] \in Statuses
  /\ sys' = [sys EXCEPT ![s] = "deleted"]
  /\ rule' = [r \in Rules |-> Cascade(r, rule[r].columns.su = s,
                                    [rule[r].columns EXCEPT !.sys = @ \ {s}])]
  /\ UNCHANGED <<group, member, hostGroup, hostMember, host, Rest>>

SetUserGroup(g, status) ==
  /\ Edit
  /\ IF group[g] = "new" THEN status = "active" ELSE group[g] # "deleted"
  /\ group' = [group EXCEPT ![g] = status]
  /\ UNCHANGED <<member, sys, hostGroup, hostMember, host, rule, Rest>>

\* The transaction deletes the members, the cascade the group's rules.
DeleteUserGroup(g) ==
  /\ Edit /\ group[g] \in Statuses
  /\ group' = [group EXCEPT ![g] = "deleted"]
  /\ member' = [member EXCEPT ![g] = {}]
  /\ rule' = [r \in Rules |-> Cascade(r, rule[r].columns.group = g, rule[r].columns)]
  /\ UNCHANGED <<sys, hostGroup, hostMember, host, Rest>>

\* The handlers ask neither whether the group exists nor who is in it: the
\* schema refuses the INSERT, and with it the whole batch (the test for a
\* duplicate compares the error with SQLite's text, which MySQL never returns).
Join(g, new) ==
  /\ Edit /\ group[g] \in Statuses /\ new # {} /\ new \cap member[g] = {}
  /\ member' = [member EXCEPT ![g] = @ \cup new]
  /\ UNCHANGED <<group, sys, hostGroup, hostMember, host, rule, Rest>>
AddUserGroupMember(g, u) == Join(g, {u})
BatchAddMembers(g, new) == Join(g, new)

RemoveUserGroupMember(g, u) ==
  /\ Edit /\ group[g] # "new"
  /\ member' = [member EXCEPT ![g] = @ \ {u}]
  /\ UNCHANGED <<group, sys, hostGroup, hostMember, host, rule, Rest>>

CreateHostGroup(k) ==
  /\ Edit /\ hostGroup[k] = "new"
  /\ hostGroup' = [hostGroup EXCEPT ![k] = "active"]
  /\ UNCHANGED <<group, member, sys, hostMember, host, rule, Rest>>

\* Mistake: the group's members and its place in the rules stay behind.
DeleteHostGroupRow(k) ==
  /\ Edit /\ hostGroup[k] = "active"
  /\ hostGroup' = [hostGroup EXCEPT ![k] = "deleted"]
  /\ UNCHANGED <<group, member, sys, hostMember, host, rule, Rest>>

DeleteHostGroup(k) ==
  /\ Edit /\ hostGroup[k] = "active"
  /\ hostGroup' = [hostGroup EXCEPT ![k] = "deleted"]
  /\ hostMember' = [hostMember EXCEPT ![k] = {}]
  /\ rule' = [r \in Rules |-> Cascade(r, rule[r].columns.hg = k,
                                    [rule[r].columns EXCEPT !.hgs = @ \ {k}])]
  /\ UNCHANGED <<group, member, sys, host, Rest>>

\* One INSERT of all: refused if the group or a host is not there, or a host is
\* in the group already.
AddHostsToGroup(k, new) ==
  /\ Edit /\ hostGroup[k] = "active" /\ new # {} /\ new \cap hostMember[k] = {}
  /\ \A h \in new : host[h].row = "active"
  /\ hostMember' = [hostMember EXCEPT ![k] = @ \cup new]
  /\ UNCHANGED <<group, member, sys, hostGroup, host, rule, Rest>>

RemoveHostsFromGroup(k, old) ==
  /\ Edit /\ hostGroup[k] # "new" /\ old # {}
  /\ hostMember' = [hostMember EXCEPT ![k] = @ \ old]
  /\ UNCHANGED <<group, member, sys, hostGroup, host, rule, Rest>>

\* The host leaves its groups.  A rule that lists it (a text column) keeps it.
DeleteHost(h) ==
  /\ Edit /\ host[h].row = "active"
  /\ host' = [host EXCEPT ![h].row = "deleted"]
  /\ hostMember' = [k \in HostGroups |-> hostMember[k] \ {h}]
  /\ UNCHANGED <<group, member, sys, hostGroup, rule, Rest>>

\* The column's default turns a rule created with enabled = false on.  A rule and
\* its relations are one transaction, which a missing row breaks.
CreateWithRelations(form) == Stored([form EXCEPT !.enabled = TRUE], "active")

CreatePermissionRule(r, form) ==
  /\ Edit /\ rule[r].row = "new" /\ form.group # None /\ Referenced(form)
  /\ rule' = [rule EXCEPT ![r] = CreateWithRelations(form)]
  /\ UNCHANGED <<group, member, sys, hostGroup, hostMember, host, Rest>>

\* Updates() skips zero values: enabled = false, a date, a list or an id that is
\* left out are not written; the relations are.
UpdateWithRelations(old, form) ==
  [form EXCEPT !.enabled = old.enabled \/ form.enabled,
               !.group = IF form.group = None THEN old.group ELSE form.group,
               !.hg = IF form.hg = None THEN old.hg ELSE form.hg,
               !.su = IF form.su = None THEN old.su ELSE form.su,
               !.from = IF form.from = "nil" THEN old.from ELSE form.from,
               !.to = IF form.to = "nil" THEN old.to ELSE form.to,
               !.ids = IF form.ids = {} THEN old.ids ELSE form.ids]

UpdatePermissionRule(r, form) ==
  /\ Edit /\ rule[r].row = "active"
  /\ Referenced(UpdateWithRelations(rule[r].columns, form))
  /\ rule' = [rule EXCEPT ![r].columns = UpdateWithRelations(@, form)]
  /\ UNCHANGED <<group, member, sys, hostGroup, hostMember, host, Rest>>

DeletePermissionRule(r) ==
  /\ Edit /\ rule[r].row = "active"
  /\ rule' = [rule EXCEPT ![r].row = "deleted"]
  /\ UNCHANGED <<group, member, sys, hostGroup, hostMember, host, Rest>>

-----------------------------------------------------------------------------
(* Edits of several statements, without a transaction.                      *)

\* Mistake: what the body leaves empty is written all the same.
MergedBlank(old, form) == form

\* What the body leaves empty keeps its value.
Merged(old, form) ==
  [mode |-> IF form.mode = "" THEN old.mode ELSE form.mode,
   proxy |-> IF form.proxy = None THEN old.proxy ELSE form.proxy,
   tagged |-> form.tagged]

\* UpdateHost reads the row ...
UpdateHost(a, h, form) ==
  /\ Edit /\ task[a].at = "idle" /\ host[h].row = "active"
  /\ task' = [task EXCEPT ![a] = [NoTask EXCEPT
       !.at = "host", !.of = h, !.columns = Merged(host[h].columns, form)]]
  /\ UNCHANGED <<tables, conf, sweep>>

\* ... and Save writes every column, and inserts the row again if it is gone (its
\* groups stay gone).
SaveHost(a) ==
  /\ task[a].at = "host"
  /\ host' = [host EXCEPT ![task[a].of] = [columns |-> task[a].columns, row |-> "active"]]
  /\ task' = [task EXCEPT ![a] = NoTask]
  /\ UNCHANGED <<group, member, sys, hostGroup, hostMember, rule, conf, sweep, edits>>

\* UpdateGroup, of a host group, likewise.
UpdateHostGroup(a, k) ==
  /\ Edit /\ task[a].at = "idle" /\ hostGroup[k] = "active"
  /\ task' = [task EXCEPT ![a] = [NoTask EXCEPT !.at = "hostGroup", !.of = k]]
  /\ UNCHANGED <<tables, conf, sweep>>
SaveHostGroup(a) ==
  /\ task[a].at = "hostGroup"
  /\ hostGroup' = [hostGroup EXCEPT ![task[a].of] = "active"]
  /\ task' = [task EXCEPT ![a] = NoTask]
  /\ UNCHANGED <<group, member, sys, hostMember, host, rule, conf, sweep, edits>>

\* AssignGroupsToUser is a DELETE and, if there are groups to assign, an INSERT.
AssignGroupsToUser(a, u, groups) ==
  /\ Edit /\ task[a].at = "idle"
  /\ task' = [task EXCEPT ![a] = [NoTask EXCEPT !.at = "delete", !.user = u,
                                                !.groups = groups]]
  /\ UNCHANGED <<tables, conf, sweep>>

\* Mistake: the groups are added to those the user has.
AssignKeepsOld(a) ==
  /\ task[a].at = "delete"
  /\ task' = [task EXCEPT ![a].at = "insert"]
  /\ UNCHANGED <<tables, conf, sweep, edits>>

AssignDelete(a) ==
  /\ task[a].at = "delete"
  /\ member' = [g \in Groups |-> member[g] \ {task[a].user}]
  /\ task' = [task EXCEPT ![a] = IF @.groups = {} THEN NoTask ELSE [@ EXCEPT !.at = "insert"]]
  /\ UNCHANGED <<group, sys, hostGroup, hostMember, host, rule, conf, sweep, edits>>

\* One INSERT of all: it fails if a group is not there, or the user is in one
\* already, and then leaves the user without the groups assigned.
AssignInsert(a, fails) ==
  /\ task[a].at = "insert"
  /\ ~fails => \A g \in task[a].groups : group[g] \in Statuses /\ task[a].user \notin member[g]
  /\ member' = [g \in Groups |->
       IF ~fails /\ g \in task[a].groups THEN member[g] \cup {task[a].user}
       ELSE member[g]]
  /\ task' = [task EXCEPT ![a] = NoTask]
  /\ UNCHANGED <<group, sys, hostGroup, hostMember, host, rule, conf, sweep, edits>>

-----------------------------------------------------------------------------
(* Time, and the expiration service.                                        *)

\* A date comes.
Pass(r) ==
  /\ \/ rule[r].columns.to = "future" /\ rule' = [rule EXCEPT ![r].columns.to = "past"]
     \/ rule[r].columns.from = "future" /\ rule' = [rule EXCEPT ![r].columns.from = "past"]
  /\ UNCHANGED <<group, member, sys, hostGroup, hostMember, host, Rest, edits>>

ConfigureExpiration(enabled, autoDisable) ==
  /\ Edit
  /\ conf' = [enabled |-> enabled, autoDisable |-> autoDisable]
  /\ UNCHANGED <<tables, task, sweep>>

\* Mistake: the date is not looked at.
ExpiredAny(r) == rule[r].row = "active" /\ rule[r].columns.enabled

Expired(r) ==
  rule[r].row = "active" /\ rule[r].columns.enabled /\ rule[r].columns.to = "past"

\* checkPermissionExpiration reads the rules that have expired, and then
\* whether it is to disable them or only to write them down.
CheckPermissionExpiration ==
  /\ sweep.at = "idle" /\ conf.enabled
  /\ sweep' = [at |-> "listed", due |-> {r \in Rules : Expired(r)}]
  /\ sweep'.due # {}
  /\ UNCHANGED <<tables, task, conf, edits>>
ReadAutoDisable ==
  /\ sweep.at = "listed"
  /\ sweep' = IF conf.autoDisable THEN [sweep EXCEPT !.at = "disable"] ELSE NoSweep
  /\ UNCHANGED <<tables, task, conf, edits>>

\* Each is disabled by its id, as it was read.
DisableExpired(r) ==
  /\ sweep.at = "disable" /\ r \in sweep.due
  /\ sweep' = IF sweep.due = {r} THEN NoSweep ELSE [sweep EXCEPT !.due = @ \ {r}]
  /\ rule' = [rule EXCEPT ![r].columns.enabled = @ /\ rule[r].row # "active"]
  /\ UNCHANGED <<group, member, sys, hostGroup, hostMember, host, task, conf, edits>>

-----------------------------------------------------------------------------
Administration ==
  \/ \E s \in SysUsers : \/ \E status \in Statuses : SetSystemUser(s, status)
                         \/ DeleteSystemUser(s)
  \/ \E g \in Groups : \/ \E status \in Statuses : SetUserGroup(g, status)
                       \/ DeleteUserGroup(g)
                       \/ \E new \in SUBSET Users : BatchAddMembers(g, new)
                       \/ \E u \in Users : \/ AddUserGroupMember(g, u)
                                            \/ RemoveUserGroupMember(g, u)
  \/ \E k \in HostGroups : \/ CreateHostGroup(k) \/ DeleteHostGroup(k)
                           \/ \E hs \in SUBSET Hosts : \/ AddHostsToGroup(k, hs)
                                                       \/ RemoveHostsFromGroup(k, hs)
  \/ \E h \in Hosts : DeleteHost(h)
  \/ \E r \in Rules : \/ \E form \in RuleForms : \/ CreatePermissionRule(r, form)
                                                 \/ UpdatePermissionRule(r, form)
                      \/ DeletePermissionRule(r)
                      \/ Pass(r)
  \/ \E enabled, autoDisable \in BOOLEAN : ConfigureExpiration(enabled, autoDisable)

LongEdits ==
  \E a \in Admins :
    \/ \E h \in Hosts, form \in HostForms : UpdateHost(a, h, form)
    \/ \E k \in HostGroups : UpdateHostGroup(a, k)
    \/ \E u \in Users, groups \in SUBSET Groups : AssignGroupsToUser(a, u, groups)
    \/ SaveHost(a) \/ SaveHostGroup(a) \/ AssignDelete(a)
    \/ \E fails \in BOOLEAN : AssignInsert(a, fails)

Expiration == \/ CheckPermissionExpiration \/ ReadAutoDisable
              \/ \E r \in Rules : DisableExpired(r)

\* What the properties remember.
Remember ==
  /\ drift' = [a \in Admins |->
       IF task[a].at = "insert" /\ task'[a].at = "insert"
       THEN drift[a] \cup {g \in Groups : task[a].user \in member'[g] \ member[g]}
       ELSE {}]
  /\ renewed' = {r \in sweep'.due \cap sweep.due :
                   r \in renewed \/ rule'[r].columns.to # rule[r].columns.to}

-----------------------------------------------------------------------------
(* What holds of the tables.                                                *)

PermTypeOK ==
  /\ group \in [Groups -> Row] /\ member \in [Groups -> SUBSET Users]
  /\ sys \in [SysUsers -> Row]
  /\ hostGroup \in [HostGroups -> Row] /\ hostMember \in [HostGroups -> SUBSET Hosts]
  /\ host \in [Hosts -> HostRow] /\ rule \in [Rules -> RuleRow]
  /\ task \in [Admins -> Tasks]
  /\ \A a \in Admins : task[a].at \in {"delete", "insert"} => task[a].user \in Users
  /\ drift \in [Admins -> SUBSET Groups]
  /\ conf \in [enabled : BOOLEAN, autoDisable : BOOLEAN]
  /\ sweep \in [at : {"idle", "listed", "disable"}, due : SUBSET Rules]
  /\ renewed \subseteq Rules /\ edits \in 0..MaxEdits

\* The three readers of the tables agree: a host that the connection check
\* lets a user into through a host group exists, and is on the user's web page
\* and in the SSH menu under that host group, whatever has been deleted, saved
\* again or added since.  (Hosts a rule lists itself are let in and shown by
\* neither.)
ReachableIsListed ==
  \A u \in Users, r \in Rules, k \in HostGroups, h \in Hosts :
    /\ InForce(r) /\ AppliesTo(r, u) /\ k \in rule[r].columns.hgs /\ h \in hostMember[k]
    /\ \E s \in rule[r].columns.sys : CheckUserHasPermission(u, h, s)
    => /\ h \in FindByUserPermissions(u)
       /\ k \in ListGroupsForUser(u) /\ h \in ListHostsByGroup(k)

\* A rule the sweep is about to disable has run out, unless it was given another
\* date after the sweep read it (it is disabled all the same).
SweepListsExpired ==
  \A r \in sweep.due : rule[r].columns.to = "past" \/ r \in renewed

\* When an assignment ends, the user is in no group but those assigned and
\* those somebody else put the user into after the assignment's DELETE.
AssignmentRevokes ==
  [][\A a \in Admins :
       task[a].at \in {"delete", "insert"} /\ task'[a].at = "idle"
         => {g \in Groups : task[a].user \in member'[g]}
              \subseteq task[a].groups \cup drift[a]]_permVars

=============================================================================

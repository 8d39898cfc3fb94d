---------------------------- MODULE Access_proofs ----------------------------
(***************************************************************************)
(* Proofs about Access for every set of users, groups, hosts, rules,       *)
(* clients and tokens, every request body and every number of edits.       *)
(***************************************************************************)
EXTENDS Access, TLAPS

-----------------------------------------------------------------------------
(* The tables.                                                              *)

\* What a step does to the tables: an edit, or nothing.
TablesStep ==
  \/ Administration \/ LongEdits \/ Expiration
  \/ UNCHANGED <<tables, task, conf, sweep>> /\ (UNCHANGED edits \/ Edit)

\* A step of a request touches neither the tables nor the settings.
LEMMA ConnectAlone ==
  ASSUME NEW c \in Clients, Connect(c)
  PROVE  UNCHANGED <<permVars, ticket, online, routing>>
<1>1. CASE Arrive(c)
  BY <1>1 DEF Arrive, HandleHostConnection, HandleConnection, ResolveAuthorizedTarget
<1>2. CASE Route(c)
  BY <1>2 DEF Route, MakeRoutingDecision, FindOnlineProxies, CheckTags, ReadDefaultProxy,
     UseSpecifiedProxy, RoutingQueryFails
<1> QED
  BY <1>1, <1>2 DEF Connect, CheckPermission, FindSystemUser, ListSystemUsers, OfferSystemUsers,
     SelectSystemUser, FindHost, GetRemoteFileSize, CreateTransfer, UploadFile,
     StreamDownloadFile, Ends, QueryFails, Upgrade, Close

LEMMA NextTables == Next => TablesStep /\ Remember
<1> SUFFICES ASSUME Next
             PROVE  TablesStep
  BY DEF Next
<1>1. ASSUME NEW c \in Clients, Connect(c)
      PROVE  TablesStep
  <2>1. UNCHANGED permVars
    BY <1>1, ConnectAlone
  <2> QED
    BY <2>1 DEF TablesStep, permVars
<1>2. CASE Tokens
  BY <1>2 DEF Tokens, CreateSession, StoreToken, ExpireToken, TablesStep, permVars
<1>3. CASE Settings
  BY <1>3 DEF Settings, UpdateRoutingConfig, SaveTags, SaveDefaultProxy, ProxyStatus, TablesStep,
     permVars
<1> QED
  BY <1>1, <1>2, <1>3 DEF Next, TablesStep

LEMMA UpdatedColumns ==
  ASSUME NEW old \in Columns, NEW form \in RuleColumns(Groups \cup {None})
  PROVE  UpdateWithRelations(old, form) \in Columns
<1> DEFINE group_ == IF form.group = None THEN old.group ELSE form.group
           hg_ == IF form.hg = None THEN old.hg ELSE form.hg
           su_ == IF form.su = None THEN old.su ELSE form.su
           from_ == IF form.from = "nil" THEN old.from ELSE form.from
           to_ == IF form.to = "nil" THEN old.to ELSE form.to
           ids_ == IF form.ids = {} THEN old.ids ELSE form.ids
           new == [form EXCEPT !.enabled = old.enabled \/ form.enabled, !.group = group_,
                               !.hg = hg_, !.su = su_, !.from = from_, !.to = to_, !.ids = ids_]
<1>1. /\ group_ \in Groups /\ hg_ \in HostGroups \cup {None} /\ su_ \in SysUsers \cup {None}
      /\ from_ \in Date /\ to_ \in Date /\ ids_ \in SUBSET Hosts
      /\ (old.enabled \/ form.enabled) \in BOOLEAN
  BY DEF Columns, RuleColumns
<1>2. new = UpdateWithRelations(old, form)
  BY DEF UpdateWithRelations
<1> HIDE DEF group_, hg_, su_, from_, to_, ids_
<1>3. new \in Columns
  BY <1>1 DEF Columns, RuleColumns
<1> QED
  BY <1>2, <1>3

LEMMA CascadedRow ==
  ASSUME NEW r \in Rules, rule[r] \in RuleRow, NEW columns \in Columns, NEW named \in BOOLEAN
  PROVE  Cascade(r, named, columns) \in RuleRow
  BY DEF Cascade, Stored, RuleRow

LEMMA MergedColumns ==
  ASSUME NEW old \in HostColumns, NEW form \in HostForms
  PROVE  Merged(old, form) \in HostColumns
  BY FormsAssumption DEF Merged, HostColumns

\* The types of what an edit writes, its own bookkeeping apart.
TablesOK ==
  /\ group \in [Groups -> Row] /\ member \in [Groups -> SUBSET Users]
  /\ sys \in [SysUsers -> Row]
  /\ hostGroup \in [HostGroups -> Row] /\ hostMember \in [HostGroups -> SUBSET Hosts]
  /\ host \in [Hosts -> HostRow] /\ rule \in [Rules -> RuleRow]

LEMMA TablesTypeStep ==
  ASSUME PermTypeOK, TablesStep
  PROVE  TablesOK'
<1> USE DEF TablesOK
<1>0. TablesOK
  BY DEF PermTypeOK
<1>1. ASSUME UNCHANGED tables
      PROVE  TablesOK'
  BY <1>0, <1>1 DEF tables
<1>2. ASSUME NEW s \in SysUsers, NEW status \in Statuses,
             SetSystemUser(s, status) \/ DeleteSystemUser(s)
      PROVE  TablesOK'
  <2>1. CASE SetSystemUser(s, status)
    BY <1>0, <2>1 DEF SetSystemUser, Statuses, Row
  <2>2. CASE DeleteSystemUser(s)
    <3>1. ASSUME NEW r \in Rules
          PROVE  Cascade(r, rule[r].columns.su = s, [rule[r].columns EXCEPT !.sys = @ \ {s}]) \in RuleRow
      <4>1. rule[r] \in RuleRow /\ [rule[r].columns EXCEPT !.sys = @ \ {s}] \in Columns
        BY <1>0 DEF RuleRow, Columns, RuleColumns
      <4> QED
        BY <4>1, CascadedRow
    <3>2. rule' \in [Rules -> RuleRow]
      BY <2>2, <3>1 DEF DeleteSystemUser
    <3> QED
      BY <1>0, <2>2, <3>2 DEF DeleteSystemUser, Row
  <2> QED
    BY <1>2, <2>1, <2>2
<1>3. ASSUME NEW g \in Groups, NEW status \in Statuses,
             SetUserGroup(g, status) \/ DeleteUserGroup(g)
      PROVE  TablesOK'
  <2>1. CASE SetUserGroup(g, status)
    BY <1>0, <2>1 DEF SetUserGroup, Statuses, Row
  <2>2. CASE DeleteUserGroup(g)
    <3>1. ASSUME NEW r \in Rules
          PROVE  Cascade(r, rule[r].columns.group = g, rule[r].columns) \in RuleRow
      <4>1. rule[r] \in RuleRow /\ rule[r].columns \in Columns
        BY <1>0 DEF RuleRow
      <4> QED
        BY <4>1, CascadedRow
    <3>2. rule' \in [Rules -> RuleRow]
      BY <2>2, <3>1 DEF DeleteUserGroup
    <3> QED
      BY <1>0, <2>2, <3>2 DEF DeleteUserGroup, Row
  <2> QED
    BY <1>3, <2>1, <2>2
<1>4. ASSUME NEW g \in Groups, NEW new \in SUBSET Users, Join(g, new)
      PROVE  TablesOK'
  BY <1>0, <1>4 DEF Join
<1>5. ASSUME NEW g \in Groups, NEW u \in Users, RemoveUserGroupMember(g, u)
      PROVE  TablesOK'
  BY <1>0, <1>5 DEF RemoveUserGroupMember
<1>6. ASSUME NEW k \in HostGroups, CreateHostGroup(k) \/ DeleteHostGroup(k)
      PROVE  TablesOK'
  <2>1. CASE CreateHostGroup(k)
    BY <1>0, <2>1 DEF CreateHostGroup, Row, Statuses
  <2>2. CASE DeleteHostGroup(k)
    <3>1. ASSUME NEW r \in Rules
          PROVE  Cascade(r, rule[r].columns.hg = k, [rule[r].columns EXCEPT !.hgs = @ \ {k}]) \in RuleRow
      <4>1. rule[r] \in RuleRow /\ [rule[r].columns EXCEPT !.hgs = @ \ {k}] \in Columns
        BY <1>0 DEF RuleRow, Columns, RuleColumns
      <4> QED
        BY <4>1, CascadedRow
    <3>2. rule' \in [Rules -> RuleRow]
      BY <2>2, <3>1 DEF DeleteHostGroup
    <3> QED
      BY <1>0, <2>2, <3>2 DEF DeleteHostGroup, Row
  <2> QED
    BY <1>6, <2>1, <2>2
<1>7. ASSUME NEW k \in HostGroups, NEW hs \in SUBSET Hosts,
             AddHostsToGroup(k, hs) \/ RemoveHostsFromGroup(k, hs)
      PROVE  TablesOK'
  BY <1>0, <1>7 DEF AddHostsToGroup, RemoveHostsFromGroup
<1>8. ASSUME NEW h \in Hosts, DeleteHost(h)
      PROVE  TablesOK'
  BY <1>0, <1>8 DEF DeleteHost, HostRow
<1>9. ASSUME NEW r \in Rules, NEW form \in RuleForms, CreatePermissionRule(r, form)
      PROVE  TablesOK'
  <2>1. form \in Columns
    BY <1>9, FormsAssumption DEF CreatePermissionRule, RuleColumns, Columns
  <2>2. CreateWithRelations(form) \in RuleRow
    BY <2>1 DEF CreateWithRelations, Stored, RuleRow, Columns, RuleColumns
  <2> QED
    BY <1>0, <1>9, <2>2 DEF CreatePermissionRule
<1>10. ASSUME NEW r \in Rules, NEW form \in RuleForms, UpdatePermissionRule(r, form)
       PROVE  TablesOK'
  <2>1. form \in RuleColumns(Groups \cup {None})
    BY FormsAssumption
  <2>2. rule[r] \in RuleRow /\ rule[r].columns \in Columns
    BY <1>0 DEF RuleRow
  <2>3. UpdateWithRelations(rule[r].columns, form) \in Columns
    BY <2>1, <2>2, UpdatedColumns
  <2>4. rule'[r] \in RuleRow /\ \A q \in Rules : q # r => rule'[q] = rule[q]
    BY <1>0, <1>10, <2>2, <2>3 DEF UpdatePermissionRule, RuleRow
  <2>5. rule' \in [Rules -> RuleRow]
    BY <1>0, <1>10, <2>4 DEF UpdatePermissionRule
  <2> QED
    BY <1>0, <1>10, <2>5 DEF UpdatePermissionRule
<1>11. ASSUME NEW r \in Rules, DeletePermissionRule(r)
       PROVE  TablesOK'
  BY <1>0, <1>11 DEF DeletePermissionRule, RuleRow
<1>12. ASSUME NEW r \in Rules, Pass(r)
       PROVE  TablesOK'
  <2>1. rule[r] \in RuleRow /\ rule[r].columns \in Columns
    BY <1>0 DEF RuleRow
  <2>2. rule'[r] \in RuleRow /\ \A q \in Rules : q # r => rule'[q] = rule[q]
    <3>1. CASE rule' = [rule EXCEPT ![r].columns.to = "past"]
      BY <1>0, <2>1, <3>1 DEF RuleRow, Columns, RuleColumns, Date
    <3>2. CASE rule' = [rule EXCEPT ![r].columns.from = "past"]
      BY <1>0, <2>1, <3>2 DEF RuleRow, Columns, RuleColumns, Date
    <3> QED
      BY <1>12, <3>1, <3>2 DEF Pass
  <2>3. rule' \in [Rules -> RuleRow]
    BY <1>0, <1>12, <2>2 DEF Pass
  <2> QED
    BY <1>0, <1>12, <2>3 DEF Pass
<1>13. ASSUME NEW a \in Admins, SaveHost(a)
       PROVE  TablesOK'
  <2>1. [columns |-> task[a].columns, row |-> "active"] \in HostRow
    BY DEF PermTypeOK, Tasks, HostRow
  <2> QED
    BY <1>0, <1>13, <2>1 DEF SaveHost
<1>14. ASSUME NEW a \in Admins, SaveHostGroup(a)
       PROVE  TablesOK'
  BY <1>0, <1>14 DEF SaveHostGroup, Row, Statuses
<1>15. ASSUME NEW a \in Admins, NEW fails \in BOOLEAN, AssignDelete(a) \/ AssignInsert(a, fails)
       PROVE  TablesOK'
  <2>1. task[a].user \in Users
    BY <1>15 DEF AssignDelete, AssignInsert, PermTypeOK
  <2> QED
    BY <1>0, <1>15, <2>1 DEF AssignDelete, AssignInsert
<1>16. ASSUME NEW r \in Rules, DisableExpired(r)
       PROVE  TablesOK'
  <2>1. rule[r] \in RuleRow /\ rule[r].columns \in Columns /\ rule[r].columns.enabled \in BOOLEAN
    BY <1>0 DEF RuleRow, Columns, RuleColumns
  <2>2. rule'[r] \in RuleRow /\ \A q \in Rules : q # r => rule'[q] = rule[q]
    BY <1>0, <1>16, <2>1 DEF DisableExpired, RuleRow, Columns, RuleColumns
  <2>3. rule' \in [Rules -> RuleRow]
    BY <1>0, <1>16, <2>2 DEF DisableExpired
  <2> QED
    BY <1>0, <1>16, <2>3 DEF DisableExpired
<1>17. CASE Administration
  <2>1. "active" \in Statuses
    BY DEF Statuses
  <2> QED
    BY <1>1, <1>2, <1>3, <1>4, <1>5, <1>6, <1>7, <1>8, <1>9, <1>10, <1>11, <1>12, <1>17, <2>1
       DEF Administration, AddUserGroupMember, BatchAddMembers, ConfigureExpiration
<1>18. CASE LongEdits
  BY <1>1, <1>13, <1>14, <1>15, <1>18 DEF LongEdits, UpdateHost, UpdateHostGroup,
     AssignGroupsToUser
<1>19. CASE Expiration
  BY <1>1, <1>16, <1>19 DEF Expiration, CheckPermissionExpiration, ReadAutoDisable
<1> QED
  BY <1>1, <1>17, <1>18, <1>19 DEF TablesStep

\* Only the edits of several statements have a task, each its own.
LEMMA TasksStep ==
  ASSUME PermTypeOK, TablesStep
  PROVE  /\ task' \in [Admins -> Tasks]
         /\ \A a \in Admins : task'[a].at \in {"delete", "insert"} => task'[a].user \in Users
<1> DEFINE TasksOK == /\ task \in [Admins -> Tasks]
                      /\ \A a \in Admins : task[a].at \in {"delete", "insert"} => task[a].user \in Users
<1>0. TasksOK
  BY DEF PermTypeOK
<1>1. ASSUME NEW a \in Admins, NEW t \in Tasks, task' = [task EXCEPT ![a] = t],
             t.at \in {"delete", "insert"} => t.user \in Users
      PROVE  TasksOK'
  BY <1>0, <1>1
<1>2. NoTask \in Tasks /\ NoTask.at = "idle" /\ NoColumns \in HostColumns
  BY DEF NoTask, Tasks, NoColumns, HostColumns
<1>3. ASSUME NEW a \in Admins, NEW h \in Hosts, NEW form \in HostForms, UpdateHost(a, h, form)
      PROVE  TasksOK'
  <2> DEFINE t == [NoTask EXCEPT !.at = "host", !.of = h, !.columns = Merged(host[h].columns, form)]
  <2>1. host[h].columns \in HostColumns
    BY DEF PermTypeOK, HostRow
  <2>2. t \in Tasks /\ t.at = "host"
    BY <1>2, <2>1, MergedColumns DEF NoTask, Tasks
  <2>3. task' = [task EXCEPT ![a] = t]
    BY <1>3 DEF UpdateHost
  <2> HIDE DEF t
  <2> QED
    BY <1>1, <2>2, <2>3
<1>4. ASSUME NEW a \in Admins, NEW k \in HostGroups, UpdateHostGroup(a, k)
      PROVE  TasksOK'
  <2> DEFINE t == [NoTask EXCEPT !.at = "hostGroup", !.of = k]
  <2>1. t \in Tasks /\ t.at = "hostGroup"
    BY <1>2 DEF NoTask, Tasks
  <2>2. task' = [task EXCEPT ![a] = t]
    BY <1>4 DEF UpdateHostGroup
  <2> HIDE DEF t
  <2> QED
    BY <1>1, <2>1, <2>2
<1>5. ASSUME NEW a \in Admins, NEW u \in Users, NEW groups \in SUBSET Groups,
             AssignGroupsToUser(a, u, groups)
      PROVE  TasksOK'
  <2> DEFINE t == [NoTask EXCEPT !.at = "delete", !.user = u, !.groups = groups]
  <2>1. t \in Tasks /\ t.user = u
    BY <1>2 DEF NoTask, Tasks
  <2>2. task' = [task EXCEPT ![a] = t]
    BY <1>5 DEF AssignGroupsToUser
  <2> HIDE DEF t
  <2> QED
    BY <1>1, <2>1, <2>2
<1>6. ASSUME NEW a \in Admins, AssignDelete(a)
      PROVE  TasksOK'
  <2> DEFINE t == IF task[a].groups = {} THEN NoTask ELSE [task[a] EXCEPT !.at = "insert"]
  <2>1. task[a] \in Tasks /\ task[a].user \in Users
    BY <1>0, <1>6 DEF AssignDelete
  <2>2. t \in Tasks /\ (t.user = task[a].user \/ t.at = "idle")
    BY <1>2, <2>1 DEF Tasks
  <2>3. task' = [task EXCEPT ![a] = t]
    BY <1>0, <1>6 DEF AssignDelete
  <2> HIDE DEF t
  <2> QED
    BY <1>1, <2>1, <2>2, <2>3
<1>7. ASSUME NEW a \in Admins, task' = [task EXCEPT ![a] = NoTask]
      PROVE  TasksOK'
  BY <1>1, <1>2, <1>7
<1>8. ASSUME UNCHANGED task
      PROVE  TasksOK'
  BY <1>0, <1>8
<1>9. CASE Administration
  BY <1>8, <1>9 DEF Administration, Rest, SetSystemUser, DeleteSystemUser, SetUserGroup,
     DeleteUserGroup, BatchAddMembers, AddUserGroupMember, Join, RemoveUserGroupMember,
     CreateHostGroup, DeleteHostGroup, AddHostsToGroup, RemoveHostsFromGroup, DeleteHost,
     CreatePermissionRule, UpdatePermissionRule, DeletePermissionRule, Pass, ConfigureExpiration
<1>10. CASE LongEdits
  BY <1>3, <1>4, <1>5, <1>6, <1>7, <1>10 DEF LongEdits, SaveHost, SaveHostGroup, AssignInsert
<1>11. CASE Expiration
  BY <1>8, <1>11 DEF Expiration, CheckPermissionExpiration, ReadAutoDisable, DisableExpired
<1> QED
  BY <1>8, <1>9, <1>10, <1>11 DEF TablesStep

LEMMA PermTypeStep ==
  ASSUME PermTypeOK, TablesStep, Remember
  PROVE  PermTypeOK'
<1>1. TablesOK'
  BY TablesTypeStep
<1>2. /\ task' \in [Admins -> Tasks]
      /\ \A a \in Admins : task'[a].at \in {"delete", "insert"} => task'[a].user \in Users
  BY TasksStep
<1>3. drift' \in [Admins -> SUBSET Groups] /\ renewed' \subseteq Rules
  BY DEF Remember, PermTypeOK
<1>4. edits' \in 0..MaxEdits
  <2>1. UNCHANGED edits \/ Edit
    BY DEF TablesStep, Administration, SetSystemUser, DeleteSystemUser, SetUserGroup,
       DeleteUserGroup, BatchAddMembers, AddUserGroupMember, Join, RemoveUserGroupMember,
       CreateHostGroup, DeleteHostGroup, AddHostsToGroup, RemoveHostsFromGroup, DeleteHost,
       CreatePermissionRule, UpdatePermissionRule, DeletePermissionRule, Pass,
       ConfigureExpiration, LongEdits, UpdateHost, UpdateHostGroup, AssignGroupsToUser, SaveHost,
       SaveHostGroup, AssignDelete, AssignInsert, Expiration, CheckPermissionExpiration,
       ReadAutoDisable, DisableExpired
  <2>2. MaxEdits \in Nat /\ edits \in 0..MaxEdits
    BY FormsAssumption DEF PermTypeOK
  <2> QED
    BY <2>1, <2>2 DEF Edit
<1>5. /\ conf' \in [enabled : BOOLEAN, autoDisable : BOOLEAN]
      /\ sweep' \in [at : {"idle", "listed", "disable"}, due : SUBSET Rules]
  <2> DEFINE SweepOK == /\ conf \in [enabled : BOOLEAN, autoDisable : BOOLEAN]
                        /\ sweep \in [at : {"idle", "listed", "disable"}, due : SUBSET Rules]
  <2>0. SweepOK
    BY DEF PermTypeOK
  <2>1. ASSUME UNCHANGED <<conf, sweep>>
        PROVE  SweepOK'
    BY <2>0, <2>1
  <2>2. ASSUME NEW on \in BOOLEAN, NEW auto \in BOOLEAN, ConfigureExpiration(on, auto)
        PROVE  SweepOK'
    BY <2>0, <2>2 DEF ConfigureExpiration
  <2>3. CASE Administration
    BY <2>1, <2>2, <2>3 DEF Administration, Rest, SetSystemUser, DeleteSystemUser, SetUserGroup,
       DeleteUserGroup, BatchAddMembers, AddUserGroupMember, Join, RemoveUserGroupMember,
       CreateHostGroup, DeleteHostGroup, AddHostsToGroup, RemoveHostsFromGroup, DeleteHost,
       CreatePermissionRule, UpdatePermissionRule, DeletePermissionRule, Pass
  <2>4. CASE LongEdits
    BY <2>1, <2>4 DEF LongEdits, UpdateHost, UpdateHostGroup, AssignGroupsToUser, SaveHost,
       SaveHostGroup, AssignDelete, AssignInsert
  <2>5. CASE Expiration
    BY <2>0, <2>5 DEF Expiration, CheckPermissionExpiration, ReadAutoDisable, DisableExpired,
       NoSweep
  <2> QED
    BY <2>1, <2>3, <2>4, <2>5 DEF TablesStep
<1> QED
  BY <1>1, <1>2, <1>3, <1>4, <1>5 DEF PermTypeOK, TablesOK

LEMMA PermInitType == PermInit => PermTypeOK
<1> SUFFICES ASSUME PermInit
             PROVE  PermTypeOK
  OBVIOUS
<1>1. NoColumns \in HostColumns
  BY DEF NoColumns, HostColumns
<1>2. NoTask \in Tasks /\ NoTask.at = "idle"
  BY <1>1 DEF NoTask, Tasks
<1>3. host \in [Hosts -> HostRow] /\ rule \in [Rules -> RuleRow]
  BY <1>1, StartAssumption DEF PermInit, HostRow
<1>4. MaxEdits \in Nat
  BY FormsAssumption
<1> QED
  BY <1>2, <1>3, <1>4 DEF PermInit, PermTypeOK, Row, Statuses, NoSweep

-----------------------------------------------------------------------------
(* Assignments and expiry.                                                  *)

LEMMA TaskOfOne ==
  ASSUME PermTypeOK, TablesStep, NEW a \in Admins, task'[a] # task[a]
  PROVE  \/ task[a].at \notin {"delete", "insert"} /\ task'[a].at # "insert"
         \/ AssignDelete(a)
         \/ \E fails \in BOOLEAN : AssignInsert(a, fails)
<1>1. DOMAIN task = Admins
  BY DEF PermTypeOK
<1>2. CASE Administration
  <2>1. UNCHANGED task
    BY <1>2 DEF Administration, Rest, SetSystemUser, DeleteSystemUser, SetUserGroup,
       DeleteUserGroup, BatchAddMembers, AddUserGroupMember, Join, RemoveUserGroupMember,
       CreateHostGroup, DeleteHostGroup, AddHostsToGroup, RemoveHostsFromGroup, DeleteHost,
       CreatePermissionRule, UpdatePermissionRule, DeletePermissionRule, Pass, ConfigureExpiration
  <2> QED
    BY <2>1
<1>3. CASE LongEdits
  <2>1. PICK b \in Admins :
          \/ \E h \in Hosts, form \in HostForms : UpdateHost(b, h, form)
          \/ \E k \in HostGroups : UpdateHostGroup(b, k)
          \/ \E u \in Users, groups \in SUBSET Groups : AssignGroupsToUser(b, u, groups)
          \/ SaveHost(b) \/ SaveHostGroup(b) \/ AssignDelete(b)
          \/ \E fails \in BOOLEAN : AssignInsert(b, fails)
    BY <1>3 DEF LongEdits
  <2>2. b = a
    BY <1>1, <2>1 DEF UpdateHost, UpdateHostGroup, AssignGroupsToUser, SaveHost, SaveHostGroup,
       AssignDelete, AssignInsert
  <2>3. ASSUME NEW h \in Hosts, NEW form \in HostForms, UpdateHost(a, h, form)
        PROVE  task[a].at \notin {"delete", "insert"} /\ task'[a].at # "insert"
    BY <1>1, <2>3 DEF UpdateHost, NoTask
  <2>4. ASSUME NEW k \in HostGroups, UpdateHostGroup(a, k)
        PROVE  task[a].at \notin {"delete", "insert"} /\ task'[a].at # "insert"
    BY <1>1, <2>4 DEF UpdateHostGroup, NoTask
  <2>5. ASSUME NEW u \in Users, NEW groups \in SUBSET Groups, AssignGroupsToUser(a, u, groups)
        PROVE  task[a].at \notin {"delete", "insert"} /\ task'[a].at # "insert"
    BY <1>1, <2>5 DEF AssignGroupsToUser, NoTask
  <2>6. ASSUME SaveHost(a) \/ SaveHostGroup(a)
        PROVE  task[a].at \notin {"delete", "insert"} /\ task'[a].at # "insert"
    BY <1>1, <2>6 DEF SaveHost, SaveHostGroup, NoTask
  <2> QED
    BY <2>1, <2>2, <2>3, <2>4, <2>5, <2>6
<1>4. CASE Expiration
  BY <1>4 DEF Expiration, CheckPermissionExpiration, ReadAutoDisable, DisableExpired
<1> QED
  BY <1>2, <1>3, <1>4 DEF TablesStep

LEMMA AssignStep ==
  ASSUME PermTypeOK, AssignInv, TablesStep, Remember
  PROVE  AssignInv'
<1> SUFFICES ASSUME NEW a \in Admins, task'[a].at = "insert",
                    NEW g \in Groups, task'[a].user \in member'[g]
             PROVE  g \in drift'[a]
  BY DEF AssignInv
<1>1. CASE task'[a] = task[a]
  <2>1. drift'[a] = drift[a] \cup {k \in Groups : task[a].user \in member'[k] \ member[k]}
    BY <1>1 DEF Remember
  <2> QED
    BY <1>1, <2>1 DEF AssignInv
<1>2. CASE AssignDelete(a)
  <2>1. task'[a].user = task[a].user
    BY <1>2 DEF AssignDelete, PermTypeOK, Tasks, NoTask
  <2> QED
    BY <1>2, <2>1 DEF AssignDelete
<1>3. ASSUME NEW fails \in BOOLEAN, AssignInsert(a, fails)
      PROVE  FALSE
  BY <1>3 DEF AssignInsert, PermTypeOK, NoTask
<1> QED
  BY <1>1, <1>2, <1>3, TaskOfOne

LEMMA AssignEnds ==
  ASSUME PermTypeOK, AssignInv, TablesStep, NEW a \in Admins,
         task[a].at \in {"delete", "insert"}, task'[a].at = "idle"
  PROVE  {g \in Groups : task[a].user \in member'[g]} \subseteq task[a].groups \cup drift[a]
<1>1. CASE AssignDelete(a)
  BY <1>1 DEF AssignDelete
<1>2. ASSUME NEW fails \in BOOLEAN, AssignInsert(a, fails)
      PROVE  {g \in Groups : task[a].user \in member'[g]} \subseteq task[a].groups \cup drift[a]
  BY <1>2 DEF AssignInsert, AssignInv
<1> QED
  BY <1>1, <1>2, TaskOfOne

-----------------------------------------------------------------------------
(* The foreign keys.                                                        *)

\* Referenced, of the rows after a step.
ReferencedNext(c) ==
  /\ group'[c.group] \in Statuses
  /\ \A s \in c.sys \cup ({c.su} \ {None}) : sys'[s] \in Statuses
  /\ \A k \in c.hgs \cup ({c.hg} \ {None}) : hostGroup'[k] = "active"

\* A rule that names no more than before, of rows that stay.
LEMMA ReferencesKept ==
  ASSUME NEW c, NEW d, Referenced(c), d.group = c.group, d.su = c.su, d.hg = c.hg,
         d.sys \subseteq c.sys, d.hgs \subseteq c.hgs,
         group[d.group] \in Statuses => group'[d.group] \in Statuses,
         \A s \in d.sys \cup ({d.su} \ {None}) : sys[s] \in Statuses => sys'[s] \in Statuses,
         \A k \in d.hgs \cup ({d.hg} \ {None}) : hostGroup[k] = "active" => hostGroup'[k] = "active"
  PROVE  ReferencedNext(d)
  BY DEF Referenced, ReferencedNext

\* The rows stay that a rule may refer to.
RowsStay ==
  /\ \A g \in Groups : group[g] \in Statuses => group'[g] \in Statuses
  /\ \A s \in SysUsers : sys[s] \in Statuses => sys'[s] \in Statuses
  /\ \A k \in HostGroups : hostGroup[k] = "active" => hostGroup'[k] = "active"

\* A rule whose references are what they were, while the rows stay.
LEMMA RuleKept ==
  ASSUME RowsStay, NEW q \in Rules, rule[q].columns \in Columns, Referenced(rule[q].columns),
         NEW d \in Columns, d.group = rule[q].columns.group, d.su = rule[q].columns.su,
         d.hg = rule[q].columns.hg, d.sys = rule[q].columns.sys, d.hgs = rule[q].columns.hgs
  PROVE  ReferencedNext(d)
<1>1. /\ d.group \in Groups
      /\ d.sys \cup ({d.su} \ {None}) \subseteq SysUsers
      /\ d.hgs \cup ({d.hg} \ {None}) \subseteq HostGroups
  BY DEF Columns, RuleColumns
<1> QED
  BY <1>1, ReferencesKept DEF RowsStay

LEMMA RulesStep ==
  ASSUME PermTypeOK, ReferencesInv, TablesStep,
         NEW q \in Rules, rule'[q].row = "active"
  PROVE  ReferencedNext(rule'[q].columns)
<1> DEFINE c == rule[q].columns
           d == rule'[q].columns
<1>1. /\ rule \in [Rules -> RuleRow] /\ rule[q] \in RuleRow /\ c \in Columns
      /\ rule[q].row = "active" => Referenced(c)
  BY DEF PermTypeOK, RuleRow, ReferencesInv
<1>2. /\ c.group \in Groups
      /\ c.sys \cup ({c.su} \ {None}) \subseteq SysUsers
      /\ c.hgs \cup ({c.hg} \ {None}) \subseteq HostGroups
  BY <1>1 DEF Columns, RuleColumns
<1>3. /\ group \in [Groups -> Row] /\ sys \in [SysUsers -> Row] /\ hostGroup \in [HostGroups -> Row]
  BY DEF PermTypeOK
<1>4. ASSUME UNCHANGED rule, RowsStay
      PROVE  ReferencedNext(d)
  BY <1>1, <1>4, RuleKept
<1>5. ASSUME NEW s \in SysUsers, NEW status \in Statuses, SetSystemUser(s, status)
      PROVE  ReferencedNext(d)
  <2>1. UNCHANGED rule /\ RowsStay
    BY <1>3, <1>5 DEF SetSystemUser, RowsStay
  <2> QED
    BY <1>4, <2>1
<1>6. ASSUME NEW g \in Groups, NEW status \in Statuses, SetUserGroup(g, status)
      PROVE  ReferencedNext(d)
  <2>1. UNCHANGED rule /\ RowsStay
    BY <1>3, <1>6 DEF SetUserGroup, RowsStay
  <2> QED
    BY <1>4, <2>1
<1>7. ASSUME NEW a \in Admins, SaveHostGroup(a)
      PROVE  ReferencedNext(d)
  <2>1. UNCHANGED rule /\ RowsStay
    BY <1>3, <1>7 DEF SaveHostGroup, RowsStay
  <2> QED
    BY <1>4, <2>1
<1>8. ASSUME NEW k \in HostGroups, CreateHostGroup(k)
      PROVE  ReferencedNext(d)
  <2>1. UNCHANGED rule /\ RowsStay
    BY <1>3, <1>8 DEF CreateHostGroup, RowsStay
  <2> QED
    BY <1>4, <2>1
<1>9. ASSUME UNCHANGED <<group, sys, hostGroup>>
      PROVE  RowsStay
  BY <1>9 DEF RowsStay
<1>10. ASSUME UNCHANGED <<group, sys, hostGroup, rule>>
       PROVE  ReferencedNext(d)
  BY <1>4, <1>9, <1>10
\* Of a rule that stays, the cascade takes what refers to the deleted row.
<1>11. ASSUME NEW named, NEW columns, rule'[q] = Cascade(q, named, columns)
       PROVE  rule[q].row = "active" /\ ~named /\ d = columns
  BY <1>1, <1>11 DEF Cascade, Stored
<1>12. ASSUME NEW s \in SysUsers, DeleteSystemUser(s)
       PROVE  ReferencedNext(d)
  <2>1. rule'[q] = Cascade(q, c.su = s, [c EXCEPT !.sys = @ \ {s}])
    BY <1>12 DEF DeleteSystemUser
  <2>2. rule[q].row = "active" /\ c.su # s /\ d = [c EXCEPT !.sys = @ \ {s}]
    BY <1>11, <2>1
  <2>3. /\ d.group = c.group /\ d.su = c.su /\ d.hg = c.hg /\ d.sys = c.sys \ {s} /\ d.hgs = c.hgs
    BY <1>1, <2>2 DEF Columns, RuleColumns
  <2>4. \A t \in SysUsers : t # s => sys'[t] = sys[t]
    BY <1>3, <1>12 DEF DeleteSystemUser
  <2>5. UNCHANGED <<group, hostGroup>>
    BY <1>12 DEF DeleteSystemUser
  <2> HIDE DEF d, c
  <2>6. \A t \in d.sys \cup ({d.su} \ {None}) : sys'[t] = sys[t]
    BY <1>2, <2>2, <2>3, <2>4
  <2> QED
    BY <1>1, <2>2, <2>3, <2>5, <2>6, ReferencesKept
<1>13. ASSUME NEW g \in Groups, DeleteUserGroup(g)
       PROVE  ReferencedNext(d)
  <2>1. rule'[q] = Cascade(q, c.group = g, c)
    BY <1>13 DEF DeleteUserGroup
  <2>2. rule[q].row = "active" /\ c.group # g /\ d = c
    BY <1>11, <2>1
  <2>3. group'[c.group] = group[c.group]
    BY <1>2, <1>3, <1>13, <2>2 DEF DeleteUserGroup
  <2>4. UNCHANGED <<sys, hostGroup>>
    BY <1>13 DEF DeleteUserGroup
  <2> HIDE DEF d, c
  <2> QED
    BY <1>1, <2>2, <2>3, <2>4, ReferencesKept
<1>14. ASSUME NEW k \in HostGroups, DeleteHostGroup(k)
       PROVE  ReferencedNext(d)
  <2>1. rule'[q] = Cascade(q, c.hg = k, [c EXCEPT !.hgs = @ \ {k}])
    BY <1>14 DEF DeleteHostGroup
  <2>2. rule[q].row = "active" /\ c.hg # k /\ d = [c EXCEPT !.hgs = @ \ {k}]
    BY <1>11, <2>1
  <2>3. /\ d.group = c.group /\ d.su = c.su /\ d.hg = c.hg /\ d.sys = c.sys /\ d.hgs = c.hgs \ {k}
    BY <1>1, <2>2 DEF Columns, RuleColumns
  <2>4. \A j \in HostGroups : j # k => hostGroup'[j] = hostGroup[j]
    BY <1>3, <1>14 DEF DeleteHostGroup
  <2>5. UNCHANGED <<group, sys>>
    BY <1>14 DEF DeleteHostGroup
  <2> HIDE DEF d, c
  <2>6. \A j \in d.hgs \cup ({d.hg} \ {None}) : hostGroup'[j] = hostGroup[j]
    BY <1>2, <2>2, <2>3, <2>4
  <2> QED
    BY <1>1, <2>2, <2>3, <2>5, <2>6, ReferencesKept
<1>15. ASSUME NEW r \in Rules, NEW form \in RuleForms, CreatePermissionRule(r, form)
       PROVE  ReferencedNext(d)
  <2>1. UNCHANGED <<group, sys, hostGroup>> /\ Referenced(form)
    BY <1>15 DEF CreatePermissionRule
  <2>2. CASE r = q
    <3>1. form \in RuleColumns(Groups \cup {None})
      BY FormsAssumption
    <3>2. d = [form EXCEPT !.enabled = TRUE]
      BY <1>1, <1>15, <2>2 DEF CreatePermissionRule, CreateWithRelations, Stored
    <3>3. /\ d.group = form.group /\ d.su = form.su /\ d.hg = form.hg
          /\ d.sys = form.sys /\ d.hgs = form.hgs
      BY <3>1, <3>2 DEF RuleColumns
    <3> HIDE DEF d
    <3> QED
      BY <2>1, <3>3, ReferencesKept
  <2>3. CASE r # q
    <3>1. rule'[q] = rule[q]
      BY <1>1, <1>15, <2>3 DEF CreatePermissionRule
    <3> QED
      BY <1>1, <1>9, <2>1, <3>1, RuleKept
  <2> QED
    BY <2>2, <2>3
<1>16. ASSUME NEW r \in Rules, NEW form \in RuleForms, UpdatePermissionRule(r, form)
       PROVE  ReferencedNext(d)
  <2>1. UNCHANGED <<group, sys, hostGroup>> /\ Referenced(UpdateWithRelations(rule[r].columns, form))
    BY <1>16 DEF UpdatePermissionRule
  <2>2. CASE r = q
    <3>1. d = UpdateWithRelations(c, form)
      BY <1>1, <1>16, <2>2 DEF UpdatePermissionRule, RuleRow
    <3>2. Referenced(d)
      BY <2>1, <2>2, <3>1
    <3> HIDE DEF d
    <3> QED
      BY <2>1, <3>2 DEF Referenced, ReferencedNext
  <2>3. CASE r # q
    <3>1. rule'[q] = rule[q]
      BY <1>1, <1>16, <2>3 DEF UpdatePermissionRule
    <3> QED
      BY <1>1, <1>9, <2>1, <3>1, RuleKept
  <2> QED
    BY <2>2, <2>3
\* The columns that refer to nothing.
<1>17. ASSUME UNCHANGED <<group, sys, hostGroup>>, rule[q].row = "active", d \in Columns,
              d.group = c.group, d.su = c.su, d.hg = c.hg, d.sys = c.sys, d.hgs = c.hgs
       PROVE  ReferencedNext(d)
  BY <1>1, <1>9, <1>17, RuleKept
<1>18. ASSUME NEW r \in Rules, DeletePermissionRule(r)
       PROVE  ReferencedNext(d)
  <2>1. rule'[q] = rule[q]
    BY <1>1, <1>18 DEF DeletePermissionRule, RuleRow
  <2> QED
    BY <1>1, <1>17, <1>18, <2>1 DEF DeletePermissionRule
<1>19. ASSUME NEW r \in Rules, Pass(r) \/ DisableExpired(r)
       PROVE  ReferencedNext(d)
  <2>0. UNCHANGED <<group, sys, hostGroup>>
    BY <1>19 DEF Pass, DisableExpired
  <2>1. /\ d.group = c.group /\ d.su = c.su /\ d.hg = c.hg /\ d.sys = c.sys /\ d.hgs = c.hgs
        /\ rule[q].row = "active"
    <3>1. CASE rule' = [rule EXCEPT ![r].columns.to = "past"]
      BY <1>1, <3>1 DEF RuleRow, Columns, RuleColumns
    <3>2. CASE rule' = [rule EXCEPT ![r].columns.from = "past"]
      BY <1>1, <3>2 DEF RuleRow, Columns, RuleColumns
    <3>3. CASE rule' = [rule EXCEPT ![r].columns.enabled = @ /\ rule[r].row # "active"]
      BY <1>1, <3>3 DEF RuleRow, Columns, RuleColumns
    <3> QED
      BY <1>19, <3>1, <3>2, <3>3 DEF Pass, DisableExpired
  <2>2. d \in Columns
    BY TablesTypeStep DEF TablesOK, RuleRow
  <2> QED
    BY <1>17, <2>0, <2>1, <2>2
<1>20. CASE Administration
  BY <1>5, <1>6, <1>8, <1>10, <1>12, <1>13, <1>14, <1>15, <1>16, <1>18, <1>19, <1>20
     DEF Administration, BatchAddMembers, AddUserGroupMember, Join, RemoveUserGroupMember,
         AddHostsToGroup, RemoveHostsFromGroup, DeleteHost, ConfigureExpiration, tables
<1>21. CASE LongEdits
  BY <1>7, <1>10, <1>21 DEF LongEdits, UpdateHost, UpdateHostGroup, AssignGroupsToUser, SaveHost,
     AssignDelete, AssignInsert, tables
<1>22. CASE Expiration
  BY <1>10, <1>19, <1>22 DEF Expiration, CheckPermissionExpiration, ReadAutoDisable, tables
<1> QED
  BY <1>10, <1>20, <1>21, <1>22 DEF TablesStep, tables

\* The members of user groups.
LEMMA MembersStep ==
  ASSUME PermTypeOK, ReferencesInv, TablesStep, NEW g \in Groups, member'[g] # {}
  PROVE  group'[g] \in Statuses
<1>1. /\ member \in [Groups -> SUBSET Users] /\ group \in [Groups -> Row]
      /\ member[g] # {} => group[g] \in Statuses
  BY DEF PermTypeOK, ReferencesInv
<1>2. ASSUME UNCHANGED group, member'[g] # {} => member[g] # {}
      PROVE  group'[g] \in Statuses
  BY <1>1, <1>2
<1>3. ASSUME NEW k \in Groups, NEW status \in Statuses,
             SetUserGroup(k, status) \/ DeleteUserGroup(k)
      PROVE  group'[g] \in Statuses
  BY <1>1, <1>3 DEF SetUserGroup, DeleteUserGroup
<1>4. ASSUME NEW k \in Groups, NEW new \in SUBSET Users, Join(k, new)
      PROVE  group'[g] \in Statuses
  BY <1>1, <1>4 DEF Join
<1>5. ASSUME NEW k \in Groups, NEW u \in Users, RemoveUserGroupMember(k, u)
      PROVE  group'[g] \in Statuses
  BY <1>1, <1>5 DEF RemoveUserGroupMember
<1>6. ASSUME NEW a \in Admins, AssignDelete(a)
      PROVE  group'[g] \in Statuses
  BY <1>1, <1>6 DEF AssignDelete
<1>7. ASSUME NEW a \in Admins, NEW fails \in BOOLEAN, AssignInsert(a, fails)
      PROVE  group'[g] \in Statuses
  BY <1>1, <1>7 DEF AssignInsert
<1>8. ASSUME UNCHANGED <<group, member>>
      PROVE  group'[g] \in Statuses
  BY <1>2, <1>8
<1>9. CASE Administration
  <2>1. "active" \in Statuses
    BY DEF Statuses
  <2> QED
    BY <1>3, <1>4, <1>5, <1>8, <1>9, <2>1
       DEF Administration, SetSystemUser, DeleteSystemUser, BatchAddMembers, AddUserGroupMember,
           CreateHostGroup, DeleteHostGroup, AddHostsToGroup, RemoveHostsFromGroup, DeleteHost,
           CreatePermissionRule, UpdatePermissionRule, DeletePermissionRule, Pass,
           ConfigureExpiration, tables
<1>10. CASE LongEdits
  BY <1>6, <1>7, <1>8, <1>10 DEF LongEdits, UpdateHost, UpdateHostGroup, AssignGroupsToUser,
     SaveHost, SaveHostGroup, tables
<1>11. CASE Expiration
  BY <1>8, <1>11 DEF Expiration, CheckPermissionExpiration, ReadAutoDisable, DisableExpired, tables
<1> QED
  BY <1>8, <1>9, <1>10, <1>11 DEF TablesStep, tables

\* The members of host groups.
LEMMA HostMembersStep ==
  ASSUME PermTypeOK, ReferencesInv, TablesStep, NEW k \in HostGroups, NEW h \in hostMember'[k]
  PROVE  hostGroup'[k] = "active" /\ host'[h].row = "active"
<1> DEFINE Goal == hostGroup'[k] = "active" /\ host'[h].row = "active"
<1>1. /\ hostMember \in [HostGroups -> SUBSET Hosts] /\ hostGroup \in [HostGroups -> Row]
      /\ host \in [Hosts -> HostRow]
      /\ h \in hostMember[k] => h \in Hosts /\ hostGroup[k] = "active" /\ host[h].row = "active"
  BY DEF PermTypeOK, ReferencesInv
<1>2. ASSUME UNCHANGED <<hostGroup, hostMember, host>>
      PROVE  Goal
  BY <1>1, <1>2
<1>3. ASSUME NEW j \in HostGroups, CreateHostGroup(j) \/ DeleteHostGroup(j)
      PROVE  Goal
  BY <1>1, <1>3 DEF CreateHostGroup, DeleteHostGroup
<1>4. ASSUME NEW j \in HostGroups, NEW hs \in SUBSET Hosts,
             AddHostsToGroup(j, hs) \/ RemoveHostsFromGroup(j, hs)
      PROVE  Goal
  BY <1>1, <1>4 DEF AddHostsToGroup, RemoveHostsFromGroup
<1>5. ASSUME NEW i \in Hosts, DeleteHost(i)
      PROVE  Goal
  <2>1. h \in hostMember[k] /\ h # i
    BY <1>5 DEF DeleteHost
  <2> QED
    BY <1>1, <1>5, <2>1 DEF DeleteHost
<1>6. ASSUME NEW a \in Admins, SaveHost(a)
      PROVE  Goal
  <2>1. UNCHANGED <<hostGroup, hostMember>>
    BY <1>6 DEF SaveHost
  <2> QED
    BY <1>1, <1>6, <2>1 DEF SaveHost
<1>7. ASSUME NEW a \in Admins, SaveHostGroup(a)
      PROVE  Goal
  BY <1>1, <1>7 DEF SaveHostGroup
<1>8. CASE Administration
  BY <1>2, <1>3, <1>4, <1>5, <1>8
     DEF Administration, SetSystemUser, DeleteSystemUser, SetUserGroup, DeleteUserGroup,
         BatchAddMembers, AddUserGroupMember, Join, RemoveUserGroupMember,
         CreatePermissionRule, UpdatePermissionRule, DeletePermissionRule, Pass,
         ConfigureExpiration, tables
<1>9. CASE LongEdits
  BY <1>2, <1>6, <1>7, <1>9 DEF LongEdits, UpdateHost, UpdateHostGroup, AssignGroupsToUser,
     AssignDelete, AssignInsert, tables
<1>10. CASE Expiration
  BY <1>2, <1>10 DEF Expiration, CheckPermissionExpiration, ReadAutoDisable, DisableExpired, tables
<1> QED
  BY <1>2, <1>8, <1>9, <1>10 DEF TablesStep, tables

LEMMA ReferencesStep ==
  ASSUME PermTypeOK, ReferencesInv, TablesStep
  PROVE  ReferencesInv'
<1>1. \A r \in Rules : rule'[r].row = "active" => ReferencedNext(rule'[r].columns)
  BY RulesStep
<1>2. \A g \in Groups : member'[g] # {} => group'[g] \in Statuses
  BY MembersStep
<1>3. \A k \in HostGroups : \A h \in hostMember'[k] :
        hostGroup'[k] = "active" /\ host'[h].row = "active"
  BY HostMembersStep
<1> QED
  BY <1>1, <1>2, <1>3 DEF ReferencesInv, Referenced, ReferencedNext

\* What the sweep has read as expired.
LEMMA SweepStep ==
  ASSUME PermTypeOK, SweepListsExpired, TablesStep, Remember
  PROVE  SweepListsExpired'
<1> SUFFICES ASSUME NEW r \in sweep'.due
             PROVE  rule'[r].columns.to = "past" \/ r \in renewed'
  BY DEF SweepListsExpired
<1>1. ASSUME r \in sweep.due
      PROVE  rule'[r].columns.to = "past" \/ r \in renewed'
  BY <1>1 DEF Remember, SweepListsExpired
<1>2. CASE CheckPermissionExpiration
  BY <1>2 DEF CheckPermissionExpiration, Expired, tables
<1>3. CASE ReadAutoDisable \/ \E q \in Rules : DisableExpired(q)
  <2>1. r \in sweep.due
    BY <1>3 DEF ReadAutoDisable, DisableExpired, NoSweep, PermTypeOK
  <2> QED
    BY <1>1, <2>1
<1>4. ASSUME UNCHANGED sweep
      PROVE  rule'[r].columns.to = "past" \/ r \in renewed'
  BY <1>1, <1>4
<1>5. CASE Administration
  <2>1. UNCHANGED sweep
    BY <1>5 DEF Administration, Rest, SetSystemUser, DeleteSystemUser, SetUserGroup,
       DeleteUserGroup, BatchAddMembers, AddUserGroupMember, Join, RemoveUserGroupMember,
       CreateHostGroup, DeleteHostGroup, AddHostsToGroup, RemoveHostsFromGroup, DeleteHost,
       CreatePermissionRule, UpdatePermissionRule, DeletePermissionRule, Pass,
       ConfigureExpiration
  <2> QED
    BY <1>4, <2>1
<1>6. CASE LongEdits
  BY <1>4, <1>6 DEF LongEdits, UpdateHost, UpdateHostGroup, AssignGroupsToUser, SaveHost,
     SaveHostGroup, AssignDelete, AssignInsert
<1> QED
  BY <1>2, <1>3, <1>4, <1>5, <1>6 DEF TablesStep, Expiration

-----------------------------------------------------------------------------
(* Requests.                                                                *)

\* A step of one request leaves it at a stage that fits, and the others alone.
RequestMoves(c) ==
  /\ req' = [req EXCEPT ![c] = req'[c]] /\ transfer' = [transfer EXCEPT ![c] = transfer'[c]]
  /\ req'[c] \in Requests /\ transfer'[c] \in {"none", "moving", "stale"}
  /\ StageInv(c)'

LEMMA NoRequestType == NoRequest \in Requests /\ NoRequest.at = "idle"
  BY DEF NoRequest, Requests, Stages

\* A request that is over, whose row does not say otherwise.
LEMMA RefuseMoves ==
  ASSUME RequestsInv, NEW c \in Clients, Refuse(c), transfer'[c] \in {"none", "stale"},
         transfer' = [transfer EXCEPT ![c] = transfer'[c]]
  PROVE  RequestMoves(c)
<1>1. req'[c] = NoRequest /\ req' = [req EXCEPT ![c] = req'[c]]
  BY DEF Refuse, RequestsInv
<1> QED
  BY <1>1, NoRequestType DEF RequestMoves, StageInv, Routing

\* A request that stays what it is and goes to a stage that fits.
LEMMA StageMoves ==
  ASSUME RequestsInv, NEW c \in Clients, NEW d \in Requests, req' = [req EXCEPT ![c] = d],
         d.kind = req[c].kind, d.user = req[c].user, d.host = req[c].host, UNCHANGED transfer,
         req[c].at \notin {"idle", "open"},
         d.at \in Routing \cup {"route", "routed"} => d.kind \in {"web", "named"},
         d.at \notin {"check", "list"},
         d.at = "find" => d.kind \in FileKinds \cup {"named"},
         d.at = "host" => d.kind \in FileKinds,
         d.at = "prompt" => d.kind = "ssh",
         d.at = "size" => d.kind = "download",
         d.at = "row" => d.kind \in {"upload", "download"}
  PROVE  RequestMoves(c)
<1>1. req'[c] = d /\ transfer'[c] = transfer[c] /\ transfer[c] \in {"none", "moving", "stale"}
      /\ transfer[c] # "moving"
  BY DEF RequestsInv, StageInv
<1>2. StageInv(c)'
  BY <1>1 DEF RequestsInv, StageInv
<1> QED
  BY <1>1, <1>2 DEF RequestMoves, RequestsInv

LEMMA ArriveMoves ==
  ASSUME RequestsInv, NEW c \in Clients, Arrive(c)
  PROVE  RequestMoves(c)
<1>1. transfer' = [transfer EXCEPT ![c] = "none"] /\ req[c].at = "idle"
  BY DEF Arrive, HandleHostConnection, HandleConnection, ResolveAuthorizedTarget
<1>2. transfer'[c] = "none" /\ transfer' = [transfer EXCEPT ![c] = transfer'[c]]
  BY <1>1 DEF RequestsInv
<1>3. ASSUME NEW d \in Requests, req' = [req EXCEPT ![c] = d],
             d.user \in Users, d.host \in Hosts,
             \/ d.at = "list" /\ d.kind \in {"web", "ssh"}
             \/ d.at = "check" /\ d.sys \in SysUsers /\ d.kind \in FileKinds \cup {"named"}
      PROVE  RequestMoves(c)
  <2>1. req'[c] = d
    BY <1>3 DEF RequestsInv
  <2> QED
    BY <1>2, <1>3, <2>1 DEF RequestMoves, StageInv, RequestsInv, Routing
<1>4. ASSUME NEW u \in Users, NEW h \in Hosts, HandleHostConnection(c, u, h)
      PROVE  RequestMoves(c)
  <2> DEFINE d == [NoRequest EXCEPT !.kind = "ssh", !.user = u, !.host = h, !.at = "list"]
  <2>1. d \in Requests /\ d.user = u /\ d.host = h /\ d.at = "list" /\ d.kind = "ssh"
    BY DEF NoRequest, Requests, Stages
  <2>2. req' = [req EXCEPT ![c] = d]
    BY <1>4 DEF HandleHostConnection
  <2> HIDE DEF d
  <2> QED
    BY <1>3, <2>1, <2>2
<1>5. ASSUME NEW u \in Users, NEW h \in Hosts, NEW s \in SysUsers \cup {None},
             NEW t \in Tickets \cup {None}, HandleConnection(c, u, h, s, t)
      PROVE  RequestMoves(c)
  <2> DEFINE d == [NoRequest EXCEPT !.by = t, !.user = u, !.host = h, !.sys = s,
                     !.kind = IF s = None THEN "web" ELSE "named",
                     !.at = IF s = None THEN "list" ELSE "check"]
  <2>1. d \in Requests /\ d.user = u /\ d.host = h /\ d.sys = s
        /\ (s = None => d.at = "list" /\ d.kind = "web")
        /\ (s # None => d.at = "check" /\ d.kind = "named")
    BY DEF NoRequest, Requests, Stages
  <2>2. req' = [req EXCEPT ![c] = d]
    BY <1>5 DEF HandleConnection
  <2> HIDE DEF d
  <2> QED
    BY <1>3, <2>1, <2>2
<1>6. ASSUME NEW u \in Users, NEW h \in Hosts, NEW s \in SysUsers, NEW kind \in FileKinds,
             ResolveAuthorizedTarget(c, u, h, s, kind)
      PROVE  RequestMoves(c)
  <2> DEFINE d == [NoRequest EXCEPT !.kind = kind, !.user = u, !.host = h, !.sys = s,
                                    !.at = "check"]
  <2>1. d \in Requests /\ d.user = u /\ d.host = h /\ d.sys = s /\ d.at = "check" /\ d.kind = kind
    BY DEF NoRequest, Requests, Stages
  <2>2. req' = [req EXCEPT ![c] = d]
    BY <1>6 DEF ResolveAuthorizedTarget
  <2> HIDE DEF d
  <2> QED
    BY <1>3, <2>1, <2>2
<1> QED
  BY <1>4, <1>5, <1>6 DEF Arrive

LEMMA GotoMoves ==
  ASSUME RequestsInv, NEW c \in Clients, NEW at \in Stages, Goto(c, at), UNCHANGED transfer,
         req[c].at \notin {"idle", "open"}, at \notin {"check", "list"},
         at \in Routing \cup {"route", "routed"} => req[c].kind \in {"web", "named"},
         at = "find" => req[c].kind \in FileKinds \cup {"named"},
         at = "host" => req[c].kind \in FileKinds,
         at = "prompt" => req[c].kind = "ssh",
         at = "size" => req[c].kind = "download",
         at = "row" => req[c].kind \in {"upload", "download"}
  PROVE  RequestMoves(c) /\ req'[c] = [req[c] EXCEPT !.at = at]
<1> DEFINE d == [req[c] EXCEPT !.at = at]
<1>1. req[c] \in Requests
  BY DEF RequestsInv
<1>2. d \in Requests /\ d.at = at /\ d.kind = req[c].kind /\ d.user = req[c].user
      /\ d.host = req[c].host
  BY <1>1 DEF Requests
<1>3. req' = [req EXCEPT ![c] = d] /\ req'[c] = d
  BY DEF Goto, RequestsInv
<1> HIDE DEF d
<1>4. RequestMoves(c)
  BY <1>2, <1>3, StageMoves
<1> QED
  BY <1>3, <1>4 DEF d

LEMMA RefusedMoves ==
  ASSUME RequestsInv, NEW c \in Clients, Refuse(c), UNCHANGED transfer,
         transfer[c] # "moving"
  PROVE  RequestMoves(c)
<1>1. transfer'[c] \in {"none", "stale"} /\ transfer' = [transfer EXCEPT ![c] = transfer'[c]]
  BY DEF RequestsInv
<1> QED
  BY <1>1, RefuseMoves

LEMMA GrantMoves ==
  ASSUME RequestsInv, NEW c \in Clients,
         \/ CheckPermission(c) \/ FindSystemUser(c) \/ ListSystemUsers(c)
         \/ OfferSystemUsers(c) \/ SelectSystemUser(c) \/ FindHost(c) \/ GetRemoteFileSize(c)
         \/ QueryFails(c) \/ Upgrade(c) \/ Close(c)
  PROVE  RequestMoves(c)
<1>1. UNCHANGED transfer /\ transfer[c] # "moving" /\ req[c] \in Requests
      /\ req[c].at # "idle" /\ StageInv(c)
  BY DEF CheckPermission, FindSystemUser, ListSystemUsers, OfferSystemUsers, SelectSystemUser,
         FindHost, GetRemoteFileSize, QueryFails, Upgrade, Close, RequestsInv, StageInv
<1>2. ASSUME Refuse(c)
      PROVE  RequestMoves(c)
  BY <1>1, <1>2, RefusedMoves
<1>3. ASSUME NEW s \in SysUsers, NEW at \in {"route", "open"}, req[c].at = "list",
             at = "route" => req[c].kind = "web",
             req' = [req EXCEPT ![c].sys = s, ![c].at = at]
      PROVE  RequestMoves(c)
  <2> DEFINE d == [req[c] EXCEPT !.sys = s, !.at = at]
  <2>1. d \in Requests /\ d.at = at /\ d.kind = req[c].kind /\ d.user = req[c].user
        /\ d.host = req[c].host
    BY <1>1, <1>3 DEF Requests, Stages
  <2>2. req' = [req EXCEPT ![c] = d]
    BY <1>3 DEF RequestsInv
  <2> HIDE DEF d
  <2> QED
    BY <1>1, <1>3, <2>1, <2>2, StageMoves DEF Routing
<1>12. ASSUME NEW s \in SysUsers, req[c].at = "prompt",
              req' = [req EXCEPT ![c].sys = s, ![c].offer = {}, ![c].at = "open"]
      PROVE  RequestMoves(c)
  <2> DEFINE d == [req[c] EXCEPT !.sys = s, !.offer = {}, !.at = "open"]
  <2>1. d \in Requests /\ d.at = "open" /\ d.kind = req[c].kind /\ d.user = req[c].user
        /\ d.host = req[c].host
    BY <1>1, <1>12 DEF Requests, Stages
  <2>2. req' = [req EXCEPT ![c] = d]
    BY <1>12 DEF RequestsInv
  <2> HIDE DEF d
  <2> QED
    BY <1>1, <1>12, <2>1, <2>2, StageMoves DEF Routing
<1>13. ASSUME NEW offer \in SUBSET SysUsers, req[c].at = "list", req[c].kind = "ssh",
              req' = [req EXCEPT ![c].offer = offer, ![c].at = "prompt"]
      PROVE  RequestMoves(c)
  <2> DEFINE d == [req[c] EXCEPT !.offer = offer, !.at = "prompt"]
  <2>1. d \in Requests /\ d.at = "prompt" /\ d.kind = req[c].kind /\ d.user = req[c].user
        /\ d.host = req[c].host
    BY <1>1, <1>13 DEF Requests, Stages
  <2>2. req' = [req EXCEPT ![c] = d]
    BY <1>13 DEF RequestsInv
  <2> HIDE DEF d
  <2> QED
    BY <1>1, <1>13, <2>1, <2>2, StageMoves DEF Routing
<1>4. CASE CheckPermission(c)
  <2>1. ASSUME req[c].kind = "named", Goto(c, "find")
        PROVE  RequestMoves(c)
    BY <1>1, <1>4, <2>1, GotoMoves DEF CheckPermission, Stages, Routing
  <2>2. ASSUME req[c].kind # "named", Goto(c, "host")
        PROVE  RequestMoves(c)
    BY <1>1, <1>4, <2>2, GotoMoves DEF CheckPermission, Stages, Routing, StageInv
  <2> QED
    BY <1>2, <1>4, <2>1, <2>2 DEF CheckPermission
<1>5. CASE FindSystemUser(c)
  <2>1. req[c].at = "find" /\ req[c].kind \in {"named", "files", "upload", "download"}
    BY <1>1, <1>5 DEF FindSystemUser, StageInv, FileKinds
  <2>2. /\ req[c].kind = "named" => AfterFind[req[c].kind] = "route"
        /\ req[c].kind = "files" => AfterFind[req[c].kind] = "open"
        /\ req[c].kind = "upload" => AfterFind[req[c].kind] = "row"
        /\ req[c].kind = "download" => AfterFind[req[c].kind] = "size"
    BY DEF AfterFind
  <2>3. ASSUME Goto(c, AfterFind[req[c].kind])
        PROVE  RequestMoves(c)
    BY <1>1, <2>1, <2>2, <2>3, GotoMoves DEF Stages, Routing
  <2> QED
    BY <1>2, <1>5, <2>3 DEF FindSystemUser
<1>6. CASE ListSystemUsers(c)
  <2>1. GetAvailableSystemUsersForUser(req[c].user, req[c].host) \subseteq SysUsers
    BY DEF GetAvailableSystemUsersForUser
  <2> QED
    BY <1>2, <1>3, <1>6, <2>1 DEF ListSystemUsers
<1>7. CASE OfferSystemUsers(c)
  <2>1. GetAvailableSystemUsersForUser(req[c].user, req[c].host) \subseteq SysUsers
    BY DEF GetAvailableSystemUsersForUser
  <2> QED
    BY <1>2, <1>3, <1>13, <1>7, <2>1 DEF OfferSystemUsers
<1>8. CASE SelectSystemUser(c)
  <2>1. req[c].offer \subseteq SysUsers
    BY <1>1 DEF Requests
  <2> QED
    BY <1>2, <1>12, <1>8, <2>1 DEF SelectSystemUser
<1>9. CASE FindHost(c)
  <2>1. ASSUME Goto(c, "find")
        PROVE  RequestMoves(c)
    BY <1>1, <1>9, <2>1, GotoMoves DEF FindHost, Stages, Routing, StageInv
  <2> QED
    BY <1>2, <1>9, <2>1 DEF FindHost
<1>10. CASE GetRemoteFileSize(c)
  <2>1. ASSUME Goto(c, "row")
        PROVE  RequestMoves(c)
    BY <1>1, <1>10, <2>1, GotoMoves DEF GetRemoteFileSize, Stages, Routing, StageInv
  <2> QED
    BY <1>2, <1>10, <2>1 DEF GetRemoteFileSize
<1>11. CASE Upgrade(c)
  <2>1. ASSUME Goto(c, "open")
        PROVE  RequestMoves(c)
    BY <1>1, <1>11, <2>1, GotoMoves DEF Upgrade, Stages, Routing
  <2> QED
    BY <1>2, <1>11, <2>1 DEF Upgrade
<1> QED
  BY <1>2, <1>4, <1>5, <1>6, <1>7, <1>8, <1>9, <1>10, <1>11 DEF QueryFails, Close

LEMMA TransferMoves ==
  ASSUME RequestsInv, NEW c \in Clients,
         CreateTransfer(c) \/ UploadFile(c) \/ StreamDownloadFile(c)
  PROVE  RequestMoves(c)
<1>1. req[c] \in Requests /\ StageInv(c) /\ transfer[c] \in {"none", "moving", "stale"}
  BY DEF RequestsInv
<1>2. CASE CreateTransfer(c)
  <2> DEFINE d == [req[c] EXCEPT !.at = "open"]
  <2>1. d \in Requests /\ d.at = "open" /\ d.kind = req[c].kind /\ d.user = req[c].user
        /\ d.host = req[c].host
    BY <1>1 DEF Requests, Stages
  <2>2. req' = [req EXCEPT ![c] = d] /\ req[c].at = "row"
    BY <1>2 DEF CreateTransfer, Goto, RequestsInv
  <2>3. transfer'[c] \in {transfer[c], "moving"} /\ transfer' = [transfer EXCEPT ![c] = transfer'[c]]
    BY <1>2 DEF CreateTransfer, RequestsInv
  <2> HIDE DEF d
  <2>4. req'[c] = d
    BY <2>2 DEF RequestsInv
  <2>5. StageInv(c)'
    BY <1>1, <2>1, <2>2, <2>4 DEF StageInv, Routing
  <2> QED
    BY <1>1, <2>1, <2>2, <2>3, <2>4, <2>5 DEF RequestMoves
<1>3. CASE Ends(c)
  <2>1. transfer'[c] \in {"none", "stale"} /\ transfer' = [transfer EXCEPT ![c] = transfer'[c]]
    BY <1>3 DEF Ends, RequestsInv
  <2> QED
    BY <1>3, <2>1, RefuseMoves DEF Ends
<1> QED
  BY <1>2, <1>3 DEF UploadFile, StreamDownloadFile

\* What the router makes of a request, read by read: it changes the route's
\* fields only.
LEMMA RouteMoves ==
  ASSUME RequestsInv, PermTypeOK, online \subseteq Proxies, routing.proxy \in Proxies \cup {None},
         NEW c \in Clients, Route(c)
  PROVE  /\ RequestMoves(c)
         /\ req'[c].at # "idle" =>
              /\ req'[c].at \in Routing \cup {"routed"}
              /\ req'[c].kind = req[c].kind /\ req'[c].user = req[c].user
              /\ req'[c].host = req[c].host /\ req'[c].sys = req[c].sys
<1>1. /\ UNCHANGED transfer /\ transfer[c] # "moving" /\ req[c] \in Requests
      /\ req[c].at \in Routing \cup {"route"} /\ StageInv(c) /\ DOMAIN req = Clients
  BY DEF Route, MakeRoutingDecision, FindOnlineProxies, CheckTags, ReadDefaultProxy,
         UseSpecifiedProxy, RoutingQueryFails, RequestsInv, StageInv, Routing
<1>2. req[c].host \in Hosts /\ host[req[c].host].columns \in HostColumns
      /\ req[c].kind \in {"web", "named"}
  BY <1>1 DEF StageInv, Routing, PermTypeOK, HostRow
<1> DEFINE Moved == /\ RequestMoves(c)
                    /\ req'[c].at # "idle" =>
                         /\ req'[c].at \in Routing \cup {"routed"}
                         /\ req'[c].kind = req[c].kind /\ req'[c].user = req[c].user
                         /\ req'[c].host = req[c].host /\ req'[c].sys = req[c].sys
<1> SUFFICES Moved
  OBVIOUS
<1>0. Routing \cup {"routed"} \subseteq Stages
      /\ Routing = {"proxies", "tags", "default", "proxy"}
  BY DEF Stages, Routing
<1>3. ASSUME Refuse(c)
      PROVE  Moved
  <2>1. req'[c].at = "idle"
    BY <1>1, <1>3, NoRequestType DEF Refuse
  <2> QED
    BY <1>1, <1>3, <2>1, RefusedMoves
<1>4. ASSUME NEW d \in Requests, req' = [req EXCEPT ![c] = d], d.at \in Routing \cup {"routed"},
             d.kind = req[c].kind, d.user = req[c].user, d.host = req[c].host,
             d.sys = req[c].sys
      PROVE  Moved
  <2>1. req'[c] = d
    BY <1>1, <1>4
  <2>2. RequestMoves(c)
    BY <1>1, <1>2, <1>4, StageMoves DEF Routing
  <2> QED
    BY <1>4, <2>1, <2>2
<1>5. ASSUME NEW p \in Proxies \cup {None}, NEW b \in BOOLEAN,
             req' = [req EXCEPT ![c].at = "proxy", ![c].bound = b, ![c].proxy = p]
      PROVE  Moved
  <2> DEFINE d == [req[c] EXCEPT !.at = "proxy", !.bound = b, !.proxy = p]
  <2>1. /\ d \in Requests /\ d.at = "proxy" /\ d.kind = req[c].kind /\ d.user = req[c].user
        /\ d.host = req[c].host /\ d.sys = req[c].sys
    BY <1>0, <1>1 DEF Requests
  <2>2. req' = [req EXCEPT ![c] = d]
    BY <1>1, <1>5
  <2> HIDE DEF d
  <2> QED
    BY <1>4, <2>1, <2>2 DEF Routing
<1>6. ASSUME NEW p \in Proxies, req' = [req EXCEPT ![c].at = "proxy", ![c].proxy = p]
      PROVE  Moved
  <2> DEFINE d == [req[c] EXCEPT !.at = "proxy", !.proxy = p]
  <2>1. /\ d \in Requests /\ d.at = "proxy" /\ d.kind = req[c].kind /\ d.user = req[c].user
        /\ d.host = req[c].host /\ d.sys = req[c].sys
    BY <1>0, <1>1 DEF Requests
  <2>2. req' = [req EXCEPT ![c] = d]
    BY <1>1, <1>6
  <2> HIDE DEF d
  <2> QED
    BY <1>4, <2>1, <2>2 DEF Routing
<1>7. ASSUME NEW tagged \in BOOLEAN,
             req' = [req EXCEPT ![c].at = "proxies", ![c].bound = FALSE, ![c].tagged = tagged]
      PROVE  Moved
  <2> DEFINE d == [req[c] EXCEPT !.at = "proxies", !.bound = FALSE, !.tagged = tagged]
  <2>1. /\ d \in Requests /\ d.at = "proxies" /\ d.kind = req[c].kind /\ d.user = req[c].user
        /\ d.host = req[c].host /\ d.sys = req[c].sys
    BY <1>0, <1>1 DEF Requests
  <2>2. req' = [req EXCEPT ![c] = d]
    BY <1>1, <1>7
  <2> HIDE DEF d
  <2> QED
    BY <1>4, <2>1, <2>2 DEF Routing
<1>8. ASSUME Direct(c)
      PROVE  Moved
  <2> DEFINE d == [req[c] EXCEPT !.at = "routed", !.proxy = None, !.tagged = FALSE]
  <2>1. /\ d \in Requests /\ d.at = "routed" /\ d.kind = req[c].kind /\ d.user = req[c].user
        /\ d.host = req[c].host /\ d.sys = req[c].sys
    BY <1>0, <1>1 DEF Requests
  <2>2. req' = [req EXCEPT ![c] = d]
    BY <1>1, <1>8 DEF Direct
  <2> HIDE DEF d
  <2> QED
    BY <1>4, <2>1, <2>2
<1>9. ASSUME req' = [req EXCEPT ![c].at = "routed", ![c].proxy = None, ![c].tagged = FALSE,
                                ![c].failed = TRUE]
      PROVE  Moved
  <2> DEFINE d == [req[c] EXCEPT !.at = "routed", !.proxy = None, !.tagged = FALSE,
                                 !.failed = TRUE]
  <2>1. /\ d \in Requests /\ d.at = "routed" /\ d.kind = req[c].kind /\ d.user = req[c].user
        /\ d.host = req[c].host /\ d.sys = req[c].sys
    BY <1>0, <1>1 DEF Requests
  <2>2. req' = [req EXCEPT ![c] = d]
    BY <1>1, <1>9
  <2> HIDE DEF d
  <2> QED
    BY <1>4, <2>1, <2>2
<1>10. ASSUME NEW at \in {"tags", "default", "routed"}, Goto(c, at)
       PROVE  Moved
  <2> DEFINE d == [req[c] EXCEPT !.at = at]
  <2>1. /\ d \in Requests /\ d.at = at /\ d.kind = req[c].kind /\ d.user = req[c].user
        /\ d.host = req[c].host /\ d.sys = req[c].sys
    BY <1>0, <1>1 DEF Requests
  <2>2. req' = [req EXCEPT ![c] = d]
    BY <1>1, <1>10 DEF Goto
  <2> HIDE DEF d
  <2> QED
    BY <1>4, <2>1, <2>2 DEF Routing
<1> HIDE DEF Moved
<1>11. CASE MakeRoutingDecision(c)
  <2>1. host[req[c].host].columns.proxy \in Proxies \cup {None}
        /\ host[req[c].host].columns.tagged \in BOOLEAN
    BY <1>2 DEF HostColumns
  <2> QED
    BY <1>3, <1>5, <1>7, <1>8, <1>11, <2>1 DEF MakeRoutingDecision
<1>12. CASE FindOnlineProxies(c) \/ CheckTags(c)
  BY <1>8, <1>10, <1>12 DEF FindOnlineProxies, CheckTags
<1>13. CASE ReadDefaultProxy(c)
  <2>1. routing.proxy # None => routing.proxy \in Proxies
    OBVIOUS
  <2> QED
    BY <1>6, <1>8, <1>13, <2>1 DEF ReadDefaultProxy
<1>14. CASE UseSpecifiedProxy(c)
  BY <1>3, <1>8, <1>10, <1>14 DEF UseSpecifiedProxy
<1>15. CASE RoutingQueryFails(c)
  BY <1>3, <1>9, <1>15 DEF RoutingQueryFails
<1> QED
  BY <1>11, <1>12, <1>13, <1>14, <1>15 DEF Route

\* After its arrival a request stays whose it is, until it is over.
LEMMA ConnectKeeps ==
  ASSUME RequestsInv, NEW c \in Clients, Connect(c)
  PROVE  \/ Arrive(c)
         \/ req'[c] = NoRequest
         \/ /\ req'[c].by = req[c].by /\ req'[c].kind = req[c].kind
            /\ req'[c].user = req[c].user /\ req'[c].host = req[c].host
<1> DEFINE Kept == \/ req'[c] = NoRequest
                   \/ /\ req'[c].by = req[c].by /\ req'[c].kind = req[c].kind
                      /\ req'[c].user = req[c].user /\ req'[c].host = req[c].host
<1>1. req[c] \in Requests /\ DOMAIN req = Clients
  BY DEF RequestsInv
<1>2. ASSUME Refuse(c)
      PROVE  Kept
  BY <1>1, <1>2 DEF Refuse
<1>3. ASSUME NEW at, Goto(c, at)
      PROVE  Kept
  BY <1>1, <1>3 DEF Goto, Requests
<1>4. ASSUME Direct(c)
      PROVE  Kept
  BY <1>1, <1>4 DEF Direct, Requests
<1>5. ASSUME MakeRoutingDecision(c)
      PROVE  Kept
  BY <1>1, <1>2, <1>4, <1>5 DEF MakeRoutingDecision, Requests
<1>6. ASSUME ReadDefaultProxy(c)
      PROVE  Kept
  BY <1>1, <1>4, <1>6 DEF ReadDefaultProxy, Requests
<1>7. ASSUME RoutingQueryFails(c)
      PROVE  Kept
  BY <1>1, <1>2, <1>7 DEF RoutingQueryFails, Requests
<1>8. ASSUME ListSystemUsers(c)
      PROVE  Kept
  BY <1>1, <1>2, <1>8 DEF ListSystemUsers, Requests
<1>9. ASSUME OfferSystemUsers(c)
      PROVE  Kept
  BY <1>1, <1>2, <1>9 DEF OfferSystemUsers, Requests
<1>10. ASSUME SelectSystemUser(c)
       PROVE  Kept
  <2>1. ASSUME NEW s, req' = [req EXCEPT ![c].sys = s, ![c].offer = {}, ![c].at = "open"]
        PROVE  Kept
    BY <1>1, <2>1 DEF Requests
  <2> HIDE DEF Kept
  <2> QED
    BY <1>2, <1>10, <2>1 DEF SelectSystemUser
<1> HIDE DEF Kept
<1>11. Arrive(c) \/ Kept
  BY <1>2, <1>3, <1>4, <1>5, <1>6, <1>7, <1>8, <1>9, <1>10
     DEF Connect, Route, FindOnlineProxies, CheckTags, UseSpecifiedProxy, CheckPermission,
         FindSystemUser, FindHost, GetRemoteFileSize, CreateTransfer, UploadFile,
         StreamDownloadFile, Ends, QueryFails, Upgrade, Close
<1> QED
  BY <1>11 DEF Kept

\* The settings: proxies, the two rows of the router, and tokens.
SettingsOK ==
  /\ ticket \in [Tickets -> [token : {"new", "valid", "gone"}, login : BOOLEAN,
                             user : Users \cup {None}]]
  /\ online \subseteq Proxies
  /\ routing \in [tagged : BOOLEAN, proxy : Proxies \cup {None},
                  at : {"idle", "tags", "proxy"}, newTagged : BOOLEAN,
                  newProxy : Proxies \cup {None}]

LEMMA SettingsStep == SettingsOK /\ Next => SettingsOK'
<1> SUFFICES ASSUME SettingsOK, Next
             PROVE  SettingsOK'
  OBVIOUS
<1>1. ASSUME UNCHANGED <<ticket, online, routing>>
      PROVE  SettingsOK'
  BY <1>1 DEF SettingsOK
<1>2. ASSUME NEW c \in Clients, Connect(c)
      PROVE  SettingsOK'
  BY <1>1, <1>2, ConnectAlone
<1>3. CASE Tokens
  <2>1. PICK t \in Tickets : (\E u \in Users : CreateSession(t, u)) \/ StoreToken(t) \/ ExpireToken(t)
    BY <1>3 DEF Tokens
  <2>2. CASE \E u \in Users : CreateSession(t, u)
    <3> DEFINE TicketRow == [token : {"new", "valid", "gone"}, login : BOOLEAN,
                             user : Users \cup {None}]
    <3>1. PICK u \in Users : CreateSession(t, u)
      BY <2>2
    <3>2. ticket[t] \in TicketRow /\ DOMAIN ticket = Tickets
      BY DEF SettingsOK
    <3>3. [ticket[t] EXCEPT !.login = TRUE, !.user = u] \in TicketRow
      BY <3>2
    <3>4. ticket' = [ticket EXCEPT ![t] = [ticket[t] EXCEPT !.login = TRUE, !.user = u]]
      BY <3>1, <3>2 DEF CreateSession
    <3>5. ticket' \in [Tickets -> TicketRow]
      BY <3>3, <3>4 DEF SettingsOK
    <3> QED
      BY <3>1, <3>5 DEF SettingsOK, CreateSession
  <2>3. CASE StoreToken(t) \/ ExpireToken(t)
    BY <2>3 DEF SettingsOK, StoreToken, ExpireToken
  <2> QED
    BY <2>1, <2>2, <2>3
<1>4. ASSUME NEW tagged \in BOOLEAN, NEW p \in Proxies \cup {None}, UpdateRoutingConfig(tagged, p)
      PROVE  SettingsOK'
  BY <1>4 DEF SettingsOK, UpdateRoutingConfig
<1>5. CASE SaveTags \/ SaveDefaultProxy
  BY <1>5 DEF SettingsOK, SaveTags, SaveDefaultProxy
<1>6. ASSUME NEW p \in Proxies, ProxyStatus(p)
      PROVE  SettingsOK'
  BY <1>6 DEF SettingsOK, ProxyStatus
<1> QED
  BY <1>1, <1>2, <1>3, <1>4, <1>5, <1>6 DEF Next, Settings, accessVars

LEMMA ConnectMoves ==
  ASSUME RequestsInv, PermTypeOK, SettingsOK, NEW c \in Clients, Connect(c)
  PROVE  RequestMoves(c)
<1>1. online \subseteq Proxies /\ routing.proxy \in Proxies \cup {None}
  BY DEF SettingsOK
<1>2. CASE Arrive(c)
  BY <1>2, ArriveMoves
<1>3. CASE Route(c)
  BY <1>1, <1>3, RouteMoves
<1> QED
  BY <1>2, <1>3, GrantMoves, TransferMoves DEF Connect

\* Every other step leaves the requests alone.
LEMMA NotConnect ==
  ASSUME Next, \A c \in Clients : ~Connect(c)
  PROVE  UNCHANGED <<req, transfer>>
  BY DEF Next, accessVars, Tokens, CreateSession, StoreToken, ExpireToken, Settings,
         UpdateRoutingConfig, SaveTags, SaveDefaultProxy, ProxyStatus

LEMMA RequestsStep ==
  ASSUME RequestsInv, PermTypeOK, SettingsOK, Next
  PROVE  RequestsInv'
<1>1. ASSUME NEW c \in Clients, Connect(c)
      PROVE  RequestsInv'
  <2>1. RequestMoves(c)
    BY <1>1, ConnectMoves
  <2>2. req' \in [Clients -> Requests] /\ transfer' \in [Clients -> {"none", "moving", "stale"}]
    BY <2>1 DEF RequestMoves, RequestsInv
  <2>3. ASSUME NEW d \in Clients, d # c
        PROVE  StageInv(d)'
    <3>1. req'[d] = req[d] /\ transfer'[d] = transfer[d]
      BY <2>1, <2>3 DEF RequestMoves, RequestsInv
    <3> QED
      BY <3>1 DEF RequestsInv, StageInv
  <2> QED
    BY <2>1, <2>2, <2>3 DEF RequestMoves, RequestsInv
<1>2. CASE UNCHANGED <<req, transfer>>
  BY <1>2 DEF RequestsInv, StageInv
<1> QED
  BY <1>1, <1>2, NotConnect

LEMMA TicketsStep ==
  ASSUME RequestsInv, SettingsOK, TicketsInv, TicketVouches, Next, PermTypeOK
  PROVE  TicketsInv' /\ TicketVouches'
<1>1. ASSUME NEW c \in Clients, Connect(c)
      PROVE  TicketsInv' /\ TicketVouches'
  <2>1. UNCHANGED ticket
    BY <1>1, ConnectAlone
  <2>2. ASSUME NEW d \in Clients, d # c
        PROVE  req'[d] = req[d]
    BY <1>1, <2>2, ConnectMoves DEF RequestMoves, RequestsInv
  <2>3. req'[c].by # None =>
          ticket[req'[c].by].login /\ ticket[req'[c].by].user = req'[c].user
    <3>1. CASE Arrive(c)
      <4>0. DOMAIN req = Clients
        BY DEF RequestsInv
      <4>1. ASSUME NEW u \in Users, NEW h \in Hosts, NEW s \in SysUsers \cup {None},
                   NEW t \in Tickets \cup {None}, HandleConnection(c, u, h, s, t)
            PROVE  req'[c].by = t /\ req'[c].user = u
        BY <4>0, <4>1 DEF HandleConnection, NoRequest
      <4>2. ASSUME NEW u \in Users, NEW h \in Hosts, HandleHostConnection(c, u, h)
            PROVE  req'[c].by = None
        BY <4>0, <4>2 DEF HandleHostConnection, NoRequest
      <4>3. ASSUME NEW u \in Users, NEW h \in Hosts, NEW s \in SysUsers, NEW kind \in FileKinds,
                   ResolveAuthorizedTarget(c, u, h, s, kind)
            PROVE  req'[c].by = None
        BY <4>0, <4>3 DEF ResolveAuthorizedTarget, NoRequest
      <4>4. ASSUME NEW u \in Users, NEW h \in Hosts, NEW s \in SysUsers \cup {None},
                   NEW t \in Tickets \cup {None}, HandleConnection(c, u, h, s, t), t # None
            PROVE  ticket[t].login /\ ticket[t].user = u
        BY <4>4 DEF HandleConnection, ValidateToken, TicketsInv
      <4> QED
        BY <3>1, <4>1, <4>2, <4>3, <4>4 DEF Arrive
    <3>2. CASE req'[c] = NoRequest
      BY <3>2 DEF NoRequest
    <3>3. CASE req'[c].by = req[c].by /\ req'[c].user = req[c].user
      BY <3>3 DEF TicketVouches
    <3> QED
      BY <1>1, <3>1, <3>2, <3>3, ConnectKeeps
  <2> QED
    BY <2>1, <2>2, <2>3 DEF TicketsInv, TicketVouches
<1>2. CASE Tokens
  <2>1. UNCHANGED req
    BY <1>2 DEF Tokens, CreateSession, StoreToken, ExpireToken
  <2>2. ASSUME NEW t \in Tickets
        PROVE  /\ ticket'[t].token # "new" => ticket'[t].login
               /\ ticket[t].login => ticket'[t].login /\ ticket'[t].user = ticket[t].user
    BY <1>2 DEF Tokens, CreateSession, StoreToken, ExpireToken, SettingsOK, TicketsInv
  <2>3. \A c \in Clients : req[c].by \in Tickets \cup {None}
    BY DEF RequestsInv, Requests
  <2> QED
    BY <2>1, <2>2, <2>3 DEF TicketsInv, TicketVouches
<1>3. CASE UNCHANGED <<req, ticket>>
  BY <1>3 DEF TicketsInv, TicketVouches
<1> QED
  BY <1>1, <1>2, <1>3 DEF Next, accessVars, Settings, UpdateRoutingConfig, SaveTags,
     SaveDefaultProxy, ProxyStatus

-----------------------------------------------------------------------------
(* Grants.                                                                  *)

HistoryOK == seen \in [Clients -> Observations] /\ steady \in [Clients -> BOOLEAN]

LEMMA ObservedType ==
  ASSUME NEW c \in Clients
  PROVE  Observed(c)' \in Observations
<1> DEFINE rules == {s \in SysUsers : CheckUserHasPermission(req[c].user, req[c].host, s)}'
           usable == GetAvailableSystemUsersForUser(req[c].user, req[c].host)'
           found == (host[req[c].host].row = "active")'
<1>1. rules \subseteq SysUsers
  OBVIOUS
<1>2. usable \subseteq SysUsers
  BY DEF GetAvailableSystemUsersForUser
<1>3. found \in BOOLEAN
  OBVIOUS
<1>4. Observed(c)' = [rule |-> rules, usable |-> usable, host |-> found]
  BY DEF Observed
<1> HIDE DEF rules, usable, found
<1> QED
  BY <1>1, <1>2, <1>3, <1>4 DEF Observations

\* What Watch makes of one request: a note is never lost before the request is
\* over, and what holds is noted until it is through.
LEMMA Watched ==
  ASSUME Watch, HistoryOK, NEW c \in Clients
  PROVE  /\ seen'[c] \in Observations
         /\ req'[c].at # "idle" => /\ seen[c].rule \subseteq seen'[c].rule
                                   /\ seen[c].usable \subseteq seen'[c].usable
                                   /\ seen[c].host => seen'[c].host
         /\ req'[c].at # "idle" /\ req[c].at # "open" =>
              /\ Observed(c)'.rule \subseteq seen'[c].rule
              /\ Observed(c)'.usable \subseteq seen'[c].usable
              /\ Observed(c)'.host => seen'[c].host
<1> DEFINE now == Observed(c)'
           both == Joined(seen[c], now)
<1>1. seen'[c] = IF req'[c].at = "idle" THEN NothingSeen
                 ELSE IF req[c].at = "open" THEN seen[c] ELSE both
  BY DEF Watch, Joined
<1>2. now \in Observations
  BY ObservedType
<1> HIDE DEF now
<1>3. seen[c] \in Observations
  BY DEF HistoryOK
<1>4. /\ both \in Observations
      /\ seen[c].rule \subseteq both.rule /\ now.rule \subseteq both.rule
      /\ seen[c].usable \subseteq both.usable /\ now.usable \subseteq both.usable
      /\ (seen[c].host => both.host) /\ (now.host => both.host)
  BY <1>2, <1>3 DEF Joined, Observations
<1>5. NothingSeen \in Observations
  BY DEF NothingSeen, Observations
<1> HIDE DEF both
<1>6. CASE req'[c].at = "idle"
  BY <1>1, <1>5, <1>6
<1>7. CASE req'[c].at # "idle" /\ req[c].at = "open"
  BY <1>1, <1>3, <1>7
<1>8. CASE req'[c].at # "idle" /\ req[c].at # "open"
  BY <1>1, <1>4, <1>8 DEF now
<1> QED
  BY <1>6, <1>7, <1>8

LEMMA SteadyType ==
  ASSUME Watch, HistoryOK
  PROVE  steady' \in [Clients -> BOOLEAN]
<1>1. ASSUME NEW c \in Clients
      PROVE  HasProxy(req[c].host)' \in BOOLEAN
  BY DEF HasProxy
<1> QED
  BY <1>1 DEF Watch, HistoryOK

LEMMA ObservedNow ==
  ASSUME NEW c \in Clients
  PROVE  /\ \A s \in SysUsers : CheckUserHasPermission(req[c].user, req[c].host, s)
                                  => s \in Observed(c).rule
         /\ GetAvailableSystemUsersForUser(req[c].user, req[c].host)
              \subseteq Observed(c).rule \cap Observed(c).usable
         /\ host[req[c].host].row = "active" => Observed(c).host
  BY DEF Observed, GetAvailableSystemUsersForUser, CheckUserHasPermission

\* A request that does not move keeps what it has seen.
LEMMA SeenSame ==
  ASSUME Watch, HistoryOK, NEW c \in Clients, SeenInv(c), req'[c] = req[c]
  PROVE  SeenInv(c)'
  BY Watched DEF SeenInv, HostFound, Granted, Routing

\* A request begins with the permission or the list of system users.
LEMMA Arrived ==
  ASSUME NEW c \in Clients, DOMAIN req = Clients, Arrive(c)
  PROVE  req[c].at = "idle" /\ req'[c].at \in {"list", "check"}
<1>1. ASSUME NEW u \in Users, NEW h \in Hosts, HandleHostConnection(c, u, h)
      PROVE  req[c].at = "idle" /\ req'[c].at = "list"
  BY <1>1 DEF HandleHostConnection, NoRequest
<1>2. ASSUME NEW u \in Users, NEW h \in Hosts, NEW s \in SysUsers \cup {None},
             NEW t \in Tickets \cup {None}, HandleConnection(c, u, h, s, t)
      PROVE  req[c].at = "idle" /\ req'[c].at \in {"list", "check"}
  BY <1>2 DEF HandleConnection, NoRequest
<1>3. ASSUME NEW u \in Users, NEW h \in Hosts, NEW s \in SysUsers, NEW kind \in FileKinds,
             ResolveAuthorizedTarget(c, u, h, s, kind)
      PROVE  req[c].at = "idle" /\ req'[c].at = "check"
  BY <1>3 DEF ResolveAuthorizedTarget, NoRequest
<1> QED
  BY <1>1, <1>2, <1>3 DEF Arrive

LEMMA SeenOwn ==
  ASSUME RequestsInv, PermTypeOK, SettingsOK, Watch, HistoryOK, NEW c \in Clients, SeenInv(c),
         Connect(c)
  PROVE  SeenInv(c)'
<1> DEFINE b == req[c]
           d == req'[c]
           now == Observed(c)
<1>1. b \in Requests /\ DOMAIN req = Clients /\ StageInv(c)
  BY DEF RequestsInv
<1>2. d.at # "idle" => /\ seen[c].rule \subseteq seen'[c].rule
                       /\ seen[c].usable \subseteq seen'[c].usable
                       /\ seen[c].host => seen'[c].host
  BY Watched
<1>3. b.at \notin {"idle", "open"} => /\ now.rule \subseteq seen[c].rule
                                      /\ now.usable \subseteq seen[c].usable
                                      /\ now.host => seen[c].host
  BY DEF SeenInv
<1>4. /\ \A s \in SysUsers : CheckUserHasPermission(b.user, b.host, s) => s \in now.rule
      /\ GetAvailableSystemUsersForUser(b.user, b.host) \subseteq now.rule \cap now.usable
      /\ host[b.host].row = "active" => now.host
  BY ObservedNow
<1> HIDE DEF now
<1>5. ASSUME d.at = "idle"
      PROVE  SeenInv(c)'
  BY <1>5 DEF SeenInv, HostFound, Granted, Routing
<1>6. ASSUME Refuse(c)
      PROVE  SeenInv(c)'
  BY <1>1, <1>5, <1>6, NoRequestType DEF Refuse
<1>7. ASSUME b.at # "open",
             d.at \in Granted => d.sys \in seen'[c].rule,
             d.at \in Granted /\ d.kind \in {"web", "ssh"} => d.sys \in seen'[c].usable,
             d.at = "prompt" => d.offer \subseteq seen'[c].rule \cap seen'[c].usable,
             HostFound(c)' => seen'[c].host
      PROVE  SeenInv(c)'
  BY <1>7, Watched DEF SeenInv
\* A granted request goes on.
<1>8. ASSUME b.at \in Granted, b.at # "open", d.at \in Granted, d.kind = b.kind, d.sys = b.sys,
             HostFound(c)' => HostFound(c) \/ host[b.host].row = "active"
      PROVE  SeenInv(c)'
  <2>1. b.at # "idle" /\ d.at # "idle" /\ d.at # "prompt"
    BY <1>8 DEF Granted, Routing
  <2>2. /\ b.sys \in seen[c].rule
        /\ b.kind \in {"web", "ssh"} => b.sys \in seen[c].usable
        /\ HostFound(c) => seen[c].host
    BY <1>8 DEF SeenInv
  <2> QED
    BY <1>2, <1>3, <1>4, <1>7, <1>8, <2>1, <2>2
<1>9. ASSUME NEW at \in Stages, Goto(c, at)
      PROVE  d.at = at /\ d.kind = b.kind /\ d.sys = b.sys
  BY <1>1, <1>9 DEF Goto, Requests
<1>10. CASE Arrive(c)
  <2>1. b.at = "idle" /\ d.at \in {"list", "check"}
    BY <1>1, <1>10, Arrived
  <2> QED
    BY <1>7, <2>1 DEF HostFound, Granted, Routing
<1>11. CASE CheckPermission(c)
  <2>1. b.at = "check" /\ b.sys \in SysUsers /\ b.kind \in FileKinds \cup {"named"}
    BY <1>1, <1>11 DEF CheckPermission, StageInv
  <2>2. ASSUME NEW at \in {"find", "host"}, Goto(c, at), at = "find" <=> b.kind = "named",
               CheckUserHasPermission(b.user, b.host, b.sys)
        PROVE  SeenInv(c)'
    <3>1. d.at = at /\ d.kind = b.kind /\ d.sys = b.sys
      BY <1>9, <2>2 DEF Stages
    <3>2. b.sys \in seen'[c].rule
      BY <1>2, <1>3, <1>4, <2>1, <2>2, <3>1
    <3>3. ~HostFound(c)'
      BY <2>1, <2>2, <3>1 DEF HostFound, FileKinds, Routing
    <3> QED
      BY <1>7, <2>1, <3>1, <3>2, <3>3 DEF FileKinds
  <2> QED
    BY <1>6, <1>11, <2>2 DEF CheckPermission
<1>12. CASE FindSystemUser(c)
  <2>1. b.at = "find" /\ b.kind \in {"named", "files", "upload", "download"}
    BY <1>1, <1>12 DEF FindSystemUser, StageInv, FileKinds
  <2>2. /\ b.kind = "named" => AfterFind[b.kind] = "route"
        /\ b.kind = "files" => AfterFind[b.kind] = "open"
        /\ b.kind = "upload" => AfterFind[b.kind] = "row"
        /\ b.kind = "download" => AfterFind[b.kind] = "size"
    BY DEF AfterFind
  <2>3. ASSUME Goto(c, AfterFind[b.kind])
        PROVE  SeenInv(c)'
    <3>1. d.at = AfterFind[b.kind] /\ d.kind = b.kind /\ d.sys = b.sys
      BY <1>9, <2>1, <2>2, <2>3 DEF Stages
    <3>2. HostFound(c)' => HostFound(c)
      BY <2>1, <2>2, <3>1 DEF HostFound, FileKinds, Routing
    <3> QED
      BY <1>8, <2>1, <2>2, <3>1, <3>2 DEF Granted
  <2> QED
    BY <1>6, <1>12, <2>3 DEF FindSystemUser
<1>13. CASE FindHost(c)
  <2>1. ASSUME host[b.host].row = "active", Goto(c, "find")
        PROVE  SeenInv(c)'
    BY <1>8, <1>9, <1>13, <2>1 DEF FindHost, Granted, Stages
  <2> QED
    BY <1>6, <1>13, <2>1 DEF FindHost
<1>14. CASE ListSystemUsers(c)
  <2>1. b.at = "list" /\ b.kind = "web"
    BY <1>14 DEF ListSystemUsers
  <2>2. ASSUME NEW s \in GetAvailableSystemUsersForUser(b.user, b.host),
               req' = [req EXCEPT ![c].sys = s, ![c].at = "route"]
        PROVE  SeenInv(c)'
    <3>1. d.at = "route" /\ d.sys = s /\ d.kind = "web"
      BY <1>1, <2>1, <2>2 DEF Requests
    <3>2. s \in seen'[c].rule /\ s \in seen'[c].usable
      BY <1>2, <1>3, <1>4, <2>1, <2>2, <3>1
    <3>3. ~HostFound(c)'
      BY <3>1 DEF HostFound, FileKinds, Routing
    <3> QED
      BY <1>7, <2>1, <3>1, <3>2, <3>3
  <2> QED
    BY <1>6, <1>14, <2>2 DEF ListSystemUsers
<1>15. CASE OfferSystemUsers(c)
  <2> DEFINE offer == GetAvailableSystemUsersForUser(b.user, b.host)
  <2>1. b.at = "list" /\ b.kind = "ssh" /\ offer \subseteq seen[c].rule \cap seen[c].usable
    BY <1>3, <1>4, <1>15 DEF OfferSystemUsers
  <2>2. ASSUME NEW s \in offer, req' = [req EXCEPT ![c].sys = s, ![c].at = "open"]
        PROVE  SeenInv(c)'
    <3>1. d.at = "open" /\ d.sys = s /\ d.kind = "ssh"
      BY <1>1, <2>1, <2>2 DEF Requests
    <3>2. ~HostFound(c)'
      BY <3>1 DEF HostFound, FileKinds, Routing
    <3> QED
      BY <1>2, <1>7, <2>1, <2>2, <3>1, <3>2
  <2>3. ASSUME req' = [req EXCEPT ![c].offer = offer, ![c].at = "prompt"]
        PROVE  SeenInv(c)'
    <3>1. d.at = "prompt" /\ d.offer = offer /\ d.kind = "ssh"
      BY <1>1, <2>1, <2>3 DEF Requests
    <3>2. ~HostFound(c)' /\ d.at \notin Granted
      BY <3>1 DEF HostFound, FileKinds, Routing, Granted
    <3> QED
      BY <1>2, <1>7, <2>1, <3>1, <3>2
  <2> QED
    BY <1>6, <1>15, <2>2, <2>3 DEF OfferSystemUsers
<1>16. CASE SelectSystemUser(c)
  <2>1. b.at = "prompt" /\ b.kind = "ssh" /\ b.offer \subseteq seen[c].rule \cap seen[c].usable
    BY <1>1, <1>16 DEF SelectSystemUser, StageInv, SeenInv
  <2>2. ASSUME NEW s \in b.offer,
               req' = [req EXCEPT ![c].sys = s, ![c].offer = {}, ![c].at = "open"]
        PROVE  SeenInv(c)'
    <3>1. d.at = "open" /\ d.sys = s /\ d.kind = "ssh"
      BY <1>1, <2>1, <2>2 DEF Requests
    <3>2. ~HostFound(c)'
      BY <3>1 DEF HostFound, FileKinds, Routing
    <3> QED
      BY <1>2, <1>7, <2>1, <2>2, <3>1, <3>2
  <2> QED
    BY <1>6, <1>16, <2>2 DEF SelectSystemUser
<1>17. CASE GetRemoteFileSize(c) \/ CreateTransfer(c) \/ Upgrade(c)
  <2>1. b.at \in {"size", "row", "routed"} /\ (b.at = "routed" => b.kind \in {"web", "named"})
        /\ (b.at # "routed" => b.kind \in FileKinds)
    BY <1>1, <1>17 DEF GetRemoteFileSize, CreateTransfer, Upgrade, StageInv, FileKinds
  <2>2. ASSUME NEW at \in {"row", "open"}, Goto(c, at)
        PROVE  SeenInv(c)'
    <3>1. d.at = at /\ d.kind = b.kind /\ d.sys = b.sys
      BY <1>9, <2>2 DEF Stages
    <3>2. HostFound(c)
      BY <2>1 DEF HostFound
    <3> QED
      BY <1>8, <2>1, <3>1, <3>2 DEF Granted
  <2> QED
    BY <1>6, <1>17, <2>2 DEF GetRemoteFileSize, CreateTransfer, Upgrade
<1>18. CASE UploadFile(c) \/ StreamDownloadFile(c) \/ QueryFails(c) \/ Close(c)
  BY <1>6, <1>18 DEF UploadFile, StreamDownloadFile, Ends, QueryFails, Close
<1>19. CASE Route(c)
  <2>1. b.at \in Routing \cup {"route"} /\ b.kind \in {"web", "named"}
    BY <1>1, <1>19 DEF Route, MakeRoutingDecision, FindOnlineProxies, CheckTags,
       ReadDefaultProxy, UseSpecifiedProxy, RoutingQueryFails, StageInv, Routing
  <2>2. d.at # "idle" => /\ d.at \in Routing \cup {"routed"} /\ d.kind = b.kind /\ d.sys = b.sys
    BY <1>19, RouteMoves DEF SettingsOK
  <2>3. CASE b.at = "route"
    <3>1. Refuse(c) \/ host[b.host].row = "active"
      BY <1>19, <2>3 DEF Route, MakeRoutingDecision, FindOnlineProxies, CheckTags,
         ReadDefaultProxy, UseSpecifiedProxy, RoutingQueryFails
    <3> QED
      BY <1>5, <1>6, <1>8, <2>2, <2>3, <3>1 DEF Granted, Routing
  <2>4. CASE b.at \in Routing
    <3>1. HostFound(c)
      BY <2>1, <2>4 DEF HostFound
    <3> QED
      BY <1>5, <1>8, <2>2, <2>4, <3>1 DEF Granted, Routing
  <2> QED
    BY <2>1, <2>3, <2>4
<1> QED
  BY <1>10, <1>11, <1>12, <1>13, <1>14, <1>15, <1>16, <1>17, <1>18, <1>19 DEF Connect

-----------------------------------------------------------------------------
(* Routes.                                                                  *)

\* What it takes to be steady after a step.
LEMMA Steady ==
  ASSUME Watch, NEW c \in Clients, steady'[c]
  PROVE  /\ req'[c].at = "route" => HasProxy(req[c].host)'
         /\ req'[c].at # "route" => steady[c] /\ req'[c].at # "idle"
         /\ req'[c].at # "route" /\ (req'[c].at \in Routing \/ req[c].at \in Routing \cup {"route"})
              => /\ HasProxy(req[c].host)' /\ host' = host
                 /\ routing'.tagged = routing.tagged /\ routing'.proxy = routing.proxy
<1>1. steady'[c] = IF req'[c].at = "route" THEN HasProxy(req[c].host)'
                   ELSE IF req'[c].at \in Routing \/ req[c].at \in Routing \cup {"route"}
                   THEN /\ steady[c] /\ req'[c].at # "idle" /\ HasProxy(req[c].host)'
                        /\ host' = host /\ routing'.tagged = routing.tagged
                        /\ routing'.proxy = routing.proxy
                   ELSE steady[c] /\ req'[c].at # "idle"
  BY DEF Watch
<1> QED
  BY <1>1

\* The tables may change under a request that does not move.
LEMMA RouteSame ==
  ASSUME Watch, NEW c \in Clients, RouteInv(c), req'[c] = req[c]
  PROVE  RouteInv(c)'
<1>1. ASSUME req[c].at \in {"routed", "open"}
      PROVE  RouteInv(c)'
  BY <1>1, Steady DEF RouteInv, Routing
<1>2. ASSUME req[c].at \in Routing
      PROVE  RouteInv(c)'
  BY <1>2, Steady DEF RouteInv, Routing
<1>3. ASSUME req[c].at \notin Routing \cup {"routed", "open"}
      PROVE  RouteInv(c)'
  BY <1>3, Steady DEF RouteInv
<1> QED
  BY <1>1, <1>2, <1>3

LEMMA RouteOwn ==
  ASSUME RequestsInv, PermTypeOK, SettingsOK, Watch, NEW c \in Clients, RouteInv(c), Connect(c)
  PROVE  RouteInv(c)'
<1> DEFINE b == req[c]
           d == req'[c]
           home == host[b.host].columns
<1>1. b \in Requests /\ DOMAIN req = Clients /\ StageInv(c)
  BY DEF RequestsInv
<1>2. UNCHANGED <<host, online, routing>>
  BY ConnectAlone DEF permVars, tables
<1>3. None \notin online
  BY AccessAssumption DEF SettingsOK
\* The stages at which nothing is said of the route.
<1>4. ASSUME d.at \notin Routing \cup {"route", "routed"}, d.at = "open" => d.kind \notin {"web", "named"}
      PROVE  RouteInv(c)'
  BY <1>4 DEF RouteInv
<1>5. ASSUME d.at = "route"
      PROVE  RouteInv(c)'
  BY <1>5, Steady DEF RouteInv, Routing
<1>6. ASSUME Refuse(c)
      PROVE  RouteInv(c)'
  <2>1. d = NoRequest
    BY <1>1, <1>6 DEF Refuse
  <2> QED
    BY <1>4, <2>1, NoRequestType DEF Routing
<1>7. ASSUME NEW at, Goto(c, at)
      PROVE  /\ d.at = at /\ d.kind = b.kind /\ d.host = b.host /\ d.tagged = b.tagged
             /\ d.bound = b.bound /\ d.proxy = b.proxy /\ d.failed = b.failed
  BY <1>1, <1>7 DEF Goto, Requests
\* A request goes directly only if it cannot be steady.
<1>8. ASSUME Direct(c), ~steady'[c]
      PROVE  RouteInv(c)'
  <2>1. d.at = "routed"
    BY <1>1, <1>8 DEF Direct, Requests
  <2> QED
    BY <1>8, <2>1 DEF RouteInv, Routing
<1>9. ASSUME steady'[c], b.at \in Routing \cup {"route"}, d.at # "route", d.host = b.host
      PROVE  /\ steady[c] /\ host[b.host].row = "active"
             /\ \/ home.mode = "proxy" /\ home.proxy \in online
                \/ home.mode = "auto" /\ home.tagged /\ routing.tagged /\ routing.proxy \in online
  <2>1. steady[c] /\ HasProxy(req[c].host)'
    BY <1>9, Steady
  <2> QED
    BY <1>2, <1>9, <2>1 DEF HasProxy
<1>10. ASSUME Direct(c)
       PROVE  d.at = "routed" /\ d.host = b.host
  BY <1>1, <1>10 DEF Direct, Requests
<1>11. CASE Arrive(c)
  BY <1>1, <1>4, <1>11, Arrived DEF Routing
<1>12. CASE CheckPermission(c)
  BY <1>4, <1>6, <1>7, <1>12 DEF CheckPermission, Routing
<1>13. CASE FindSystemUser(c)
  <2>1. b.at = "find" /\ b.kind \in {"named", "files", "upload", "download"}
    BY <1>1, <1>13 DEF FindSystemUser, StageInv, FileKinds
  <2>2. /\ b.kind = "named" => AfterFind[b.kind] = "route"
        /\ b.kind = "files" => AfterFind[b.kind] = "open"
        /\ b.kind = "upload" => AfterFind[b.kind] = "row"
        /\ b.kind = "download" => AfterFind[b.kind] = "size"
    BY DEF AfterFind
  <2> QED
    BY <1>4, <1>5, <1>6, <1>7, <1>13, <2>1, <2>2 DEF FindSystemUser, Routing
<1>14. CASE FindHost(c) \/ GetRemoteFileSize(c)
  BY <1>4, <1>6, <1>7, <1>14 DEF FindHost, GetRemoteFileSize, Routing
<1>15. CASE ListSystemUsers(c)
  <2>1. d.at = "route" \/ Refuse(c)
    BY <1>1, <1>15 DEF ListSystemUsers, Requests
  <2> QED
    BY <1>5, <1>6, <2>1
<1>16. CASE OfferSystemUsers(c)
  <2>1. (d.at \in {"open", "prompt"} /\ d.kind = "ssh") \/ Refuse(c)
    BY <1>1, <1>16 DEF OfferSystemUsers, Requests
  <2> QED
    BY <1>4, <1>6, <2>1 DEF Routing
<1>17. CASE SelectSystemUser(c)
  <2>1. b.kind = "ssh"
    BY <1>1, <1>17 DEF SelectSystemUser, StageInv
  <2>2. ASSUME NEW s, req' = [req EXCEPT ![c].sys = s, ![c].offer = {}, ![c].at = "open"]
        PROVE  d.at = "open" /\ d.kind = "ssh"
    BY <1>1, <2>1, <2>2 DEF Requests
  <2>3. (d.at = "open" /\ d.kind = "ssh") \/ Refuse(c)
    BY <1>17, <2>2 DEF SelectSystemUser
  <2> QED
    BY <1>4, <1>6, <2>3 DEF Routing
<1>18. CASE CreateTransfer(c)
  <2>1. b.kind \in FileKinds /\ Goto(c, "open")
    BY <1>1, <1>18 DEF CreateTransfer, StageInv, FileKinds
  <2> QED
    BY <1>4, <1>7, <2>1 DEF FileKinds, Routing
<1>19. CASE Upgrade(c)
  <2>1. ASSUME Goto(c, "open")
        PROVE  RouteInv(c)'
    <3>1. b.at = "routed" /\ d.at = "open" /\ d.kind = b.kind /\ d.proxy = b.proxy /\ d.failed = b.failed
      BY <1>7, <1>19, <2>1 DEF Upgrade
    <3>2. steady'[c] => steady[c]
      BY <3>1, Steady
    <3> QED
      BY <3>1, <3>2 DEF RouteInv, Routing
  <2> QED
    BY <1>6, <1>19, <2>1 DEF Upgrade
<1>20. CASE UploadFile(c) \/ StreamDownloadFile(c) \/ QueryFails(c) \/ Close(c)
  BY <1>6, <1>20 DEF UploadFile, StreamDownloadFile, Ends, QueryFails, Close
<1>21. CASE MakeRoutingDecision(c)
  <2>1. b.at = "route"
    BY <1>21 DEF MakeRoutingDecision
  <2>2. CASE home.mode = "direct" /\ Direct(c)
    <3>1. ~steady'[c]
      BY <1>9, <1>10, <2>1, <2>2
    <3> QED
      BY <1>8, <2>2, <3>1
  <2>3. CASE req' = [req EXCEPT ![c].at = "proxy", ![c].bound = TRUE, ![c].proxy = home.proxy]
    <3>1. d.at = "proxy" /\ d.bound
      BY <1>1, <2>3 DEF Requests
    <3> QED
      BY <3>1 DEF RouteInv, Routing
  <2>4. CASE home.mode = "auto" /\ req' = [req EXCEPT ![c].at = "proxies", ![c].bound = FALSE,
                                                      ![c].tagged = home.tagged]
    <3>1. d.at = "proxies" /\ ~d.bound /\ d.tagged = home.tagged /\ d.host = b.host
      BY <1>1, <2>4 DEF Requests
    <3>2. steady'[c] => HasProxy(req[c].host)'
      BY <3>1, Steady DEF Routing
    <3> QED
      BY <1>2, <2>4, <3>1, <3>2 DEF RouteInv, Routing
  <2> QED
    BY <1>6, <1>21, <2>2, <2>3, <2>4 DEF MakeRoutingDecision
\* On the way through the tags a request is not bound, and keeps what it read.
<1>22. ASSUME b.at \in Routing, ~b.bound, steady[c]
       PROVE  /\ home.mode = "auto" /\ b.tagged = home.tagged
              /\ b.at = "proxy" => b.proxy = routing.proxy
  BY <1>22 DEF RouteInv
<1>23. ASSUME b.at \in Routing, ~b.bound, d.at \in Routing, ~d.bound, d.host = b.host,
              d.tagged = b.tagged, d.at = "proxy" => d.proxy = routing.proxy
       PROVE  RouteInv(c)'
  <2>1. steady'[c] => steady[c] /\ HasProxy(req[c].host)'
    BY <1>23, Steady DEF Routing
  <2> QED
    BY <1>2, <1>22, <1>23, <2>1 DEF RouteInv, Routing
<1>24. b.at \in {"proxies", "tags", "default"} => b.at \in Routing /\ ~b.bound
  BY DEF RouteInv, Routing
<1>25. CASE FindOnlineProxies(c)
  <2>1. CASE online = {} /\ Direct(c)
    BY <1>8, <1>9, <1>10, <1>24, <1>25, <2>1 DEF FindOnlineProxies
  <2>2. CASE Goto(c, "tags")
    BY <1>7, <1>23, <1>24, <1>25, <2>2 DEF FindOnlineProxies, Routing
  <2> QED
    BY <1>25, <2>1, <2>2 DEF FindOnlineProxies
<1>26. CASE CheckTags(c)
  <2>1. CASE ~(routing.tagged /\ b.tagged) /\ Direct(c)
    BY <1>8, <1>9, <1>10, <1>22, <1>24, <1>26, <2>1 DEF CheckTags
  <2>2. CASE Goto(c, "default")
    BY <1>7, <1>23, <1>24, <1>26, <2>2 DEF CheckTags, Routing
  <2> QED
    BY <1>26, <2>1, <2>2 DEF CheckTags
<1>27. CASE ReadDefaultProxy(c)
  <2>1. CASE routing.proxy = None /\ Direct(c)
    BY <1>3, <1>8, <1>9, <1>10, <1>22, <1>24, <1>27, <2>1 DEF ReadDefaultProxy
  <2>2. CASE req' = [req EXCEPT ![c].at = "proxy", ![c].proxy = routing.proxy]
    <3>1. /\ d.at = "proxy" /\ d.proxy = routing.proxy /\ d.host = b.host
          /\ d.tagged = b.tagged /\ d.bound = b.bound
      BY <1>1, <2>2 DEF Requests
    <3> QED
      BY <1>23, <1>24, <1>27, <3>1 DEF ReadDefaultProxy, Routing
  <2> QED
    BY <1>27, <2>1, <2>2 DEF ReadDefaultProxy
<1>28. CASE UseSpecifiedProxy(c)
  <2>1. CASE b.proxy \in online /\ Goto(c, "routed")
    <3>1. d.at = "routed" /\ d.proxy # None
      BY <1>3, <1>7, <2>1
    <3> QED
      BY <3>1 DEF RouteInv, Routing
  <2>2. CASE b.proxy \notin online /\ ~b.bound /\ Direct(c)
    <3>1. b.at = "proxy" /\ b.at \in Routing
      BY <1>28 DEF UseSpecifiedProxy, Routing
    <3>2. ~steady'[c]
      BY <1>9, <1>10, <1>22, <2>2, <3>1
    <3> QED
      BY <1>8, <2>2, <3>2
  <2> QED
    BY <1>6, <1>28, <2>1, <2>2 DEF UseSpecifiedProxy
<1>29. CASE RoutingQueryFails(c)
  <2>1. ASSUME req' = [req EXCEPT ![c].at = "routed", ![c].proxy = None,
                                  ![c].tagged = FALSE, ![c].failed = TRUE]
        PROVE  RouteInv(c)'
    <3>1. d.at = "routed" /\ d.failed
      BY <1>1, <2>1 DEF Requests
    <3> QED
      BY <3>1 DEF RouteInv, Routing
  <2> QED
    BY <1>6, <1>29, <2>1 DEF RoutingQueryFails
<1> QED
  BY <1>11, <1>12, <1>13, <1>14, <1>15, <1>16, <1>17, <1>18, <1>19, <1>20, <1>21, <1>25, <1>26,
     <1>27, <1>28, <1>29 DEF Connect, Route

-----------------------------------------------------------------------------
(* The theorems.                                                            *)

\* Because members and rules refer to rows that exist, the pages show every host
\* that a rule over its host group lets in.
LEMMA ListsAgree == PermTypeOK /\ ReferencesInv => ReachableIsListed
<1> SUFFICES ASSUME PermTypeOK, ReferencesInv,
                    NEW u \in Users, NEW r \in Rules, NEW k \in HostGroups, NEW h \in Hosts,
                    InForce(r), AppliesTo(r, u), k \in rule[r].columns.hgs, h \in hostMember[k]
             PROVE  /\ h \in FindByUserPermissions(u)
                    /\ k \in ListGroupsForUser(u) /\ h \in ListHostsByGroup(k)
  BY DEF ReachableIsListed
<1>1. h \in GetAccessibleHostIDsForUser(u)
  BY DEF GetAccessibleHostIDsForUser
<1>2. k \in GetUserHostGroupIDs(u)
  BY DEF GetUserHostGroupIDs, AppliesTo
<1>3. hostGroup[k] = "active" /\ host[h].row = "active"
  BY DEF ReferencesInv
<1> QED
  BY <1>1, <1>2, <1>3 DEF FindByUserPermissions, ListGroupsForUser, ListHostsByGroup

\* The tables and settings, the requests and the history have their types.
AllInv == PermTypeOK /\ SettingsOK /\ HistoryOK /\ AccessInv

LEMMA AccessInit == Init => AllInv
<1> SUFFICES ASSUME Init
             PROVE  AllInv
  OBVIOUS
<1>1. PermTypeOK
  BY PermInitType DEF Init
<1>2. SettingsOK
  BY AccessAssumption DEF Init, SettingsOK, NoTicket
<1>3. HistoryOK
  BY DEF Init, HistoryOK, NothingSeen, Observations
<1>4. TicketsInv /\ TicketVouches
  BY DEF Init, TicketsInv, TicketVouches, NoTicket, NoRequest
<1>5. ReferencesInv /\ SweepListsExpired
  <2>1. ASSUME NEW q \in Rules, rule[q].row = "active"
        PROVE  Referenced(rule[q].columns)
    BY <2>1, StartAssumption DEF Init, PermInit, Referenced, RuleRow, Columns, RuleColumns, Statuses
  <2>2. SweepListsExpired
    BY DEF Init, PermInit, SweepListsExpired, NoSweep
  <2>3. /\ \A g \in Groups : member[g] # {} => group[g] \in Statuses
        /\ \A k \in HostGroups : \A h \in hostMember[k] :
             hostGroup[k] = "active" /\ host[h].row = "active"
    BY DEF Init, PermInit, Statuses
  <2> QED
    BY <2>1, <2>2, <2>3 DEF ReferencesInv
<1>6. AssignInv
  BY DEF Init, PermInit, AssignInv, NoTask
<1>7. /\ \A c \in Clients : req[c] = NoRequest
      /\ req \in [Clients -> Requests] /\ transfer = [c \in Clients |-> "none"]
  BY NoRequestType DEF Init
<1>8. RequestsInv
  BY <1>7, NoRequestType DEF RequestsInv, StageInv, Routing
<1>9. ASSUME NEW c \in Clients
      PROVE  SeenInv(c) /\ RouteInv(c)
  BY <1>7, NoRequestType DEF SeenInv, RouteInv, Granted, HostFound, Routing
<1> QED
  BY <1>1, <1>2, <1>3, <1>4, <1>5, <1>6, <1>8, <1>9 DEF AllInv, AccessInv

LEMMA AccessStep == AllInv /\ [Next]_vars => AllInv'
<1> SUFFICES ASSUME AllInv, [Next]_vars
             PROVE  AllInv'
  OBVIOUS
<1>0. /\ PermTypeOK /\ SettingsOK /\ HistoryOK /\ TicketsInv /\ TicketVouches
      /\ ReferencesInv /\ SweepListsExpired /\ AssignInv /\ RequestsInv
      /\ \A c \in Clients : SeenInv(c) /\ RouteInv(c)
  BY DEF AllInv, AccessInv
<1>1. CASE Next
  <2>1. TablesStep /\ Remember /\ Watch
    BY <1>1, NextTables DEF Next
  <2>2. PermTypeOK' /\ ReferencesInv' /\ SweepListsExpired' /\ AssignInv'
    BY <1>0, <2>1, PermTypeStep, ReferencesStep, SweepStep, AssignStep
  <2>3. SettingsOK' /\ RequestsInv' /\ TicketsInv' /\ TicketVouches'
    BY <1>0, <1>1, SettingsStep, RequestsStep, TicketsStep
  <2>4. HistoryOK'
    <3>1. \A c \in Clients : seen'[c] \in Observations
      BY <1>0, <2>1, Watched
    <3>2. seen' \in [Clients -> Observations]
      BY <2>1, <3>1 DEF Watch
    <3> QED
      BY <1>0, <2>1, <3>2, SteadyType DEF HistoryOK
  <2>5. ASSUME NEW c \in Clients
        PROVE  SeenInv(c)' /\ RouteInv(c)'
    <3>1. CASE req'[c] = req[c]
      BY <1>0, <2>1, <3>1, SeenSame, RouteSame
    <3>2. CASE Connect(c)
      BY <1>0, <2>1, <3>2, SeenOwn, RouteOwn
    <3>3. ASSUME NEW d \in Clients, Connect(d), d # c
          PROVE  req'[c] = req[c]
      BY <1>0, <3>3, ConnectMoves DEF RequestMoves, RequestsInv
    <3> QED
      BY <1>1, <3>1, <3>2, <3>3, NotConnect
  <2> QED
    BY <2>2, <2>3, <2>4, <2>5 DEF AllInv, AccessInv
<1>2. CASE UNCHANGED vars
  <2>1. UNCHANGED permVars /\ UNCHANGED <<req, ticket, online, routing, transfer, seen, steady>>
    BY <1>2 DEF vars, accessVars
  <2>2. PermTypeOK' /\ ReferencesInv' /\ SweepListsExpired' /\ AssignInv'
    BY <1>0, <2>1 DEF permVars, tables, PermTypeOK, ReferencesInv, Referenced, SweepListsExpired,
       AssignInv
  <2>3. SettingsOK' /\ HistoryOK' /\ RequestsInv' /\ TicketsInv' /\ TicketVouches'
    BY <1>0, <2>1 DEF SettingsOK, HistoryOK, RequestsInv, StageInv, TicketsInv, TicketVouches
  <2>4. ASSUME NEW c \in Clients
        PROVE  SeenInv(c)' /\ RouteInv(c)'
    <3>1. Observed(c)' = Observed(c)
      BY <2>1 DEF permVars, tables, Observed, CheckUserHasPermission,
         GetAvailableSystemUsersForUser, InForce, AppliesTo, InScope
    <3>2. SeenInv(c)'
      BY <1>0, <2>1, <3>1 DEF SeenInv, HostFound
    <3>3. HasProxy(req[c].host)' <=> HasProxy(req[c].host)
      BY <2>1 DEF permVars, tables, HasProxy
    <3> QED
      BY <1>0, <2>1, <3>2, <3>3 DEF permVars, tables, RouteInv
  <2> QED
    BY <2>2, <2>3, <2>4 DEF AllInv, AccessInv
<1> QED
  BY <1>1, <1>2

LEMMA AccessSound == Spec => []AllInv
  BY AccessInit, AccessStep, PTL DEF Spec

\* No connection is opened, and none asks for a file's size, on a permission that
\* was gone before the request began: at some time since then a rule in force gave
\* this user the system user, and the host was there, whatever the administrators
\* edited between the reads of the web, gateway and file handlers.
THEOREM OpenedByGrantHolds == Spec => []OpenedByGrant
<1>1. AllInv => OpenedByGrant
  <2> SUFFICES ASSUME AllInv, NEW c \in Clients, req[c].at \in {"open", "size"}
               PROVE  /\ req[c].sys \in seen[c].rule
                      /\ req[c].kind \in {"web", "ssh"} => req[c].sys \in seen[c].usable
                      /\ req[c].kind # "ssh" => seen[c].host
    BY DEF OpenedByGrant
  <2>1. SeenInv(c) /\ req[c] \in Requests /\ StageInv(c)
    BY DEF AllInv, AccessInv, RequestsInv
  <2>2. req[c].kind # "ssh" => HostFound(c)
    BY <2>1 DEF HostFound, FileKinds, StageInv
  <2> QED
    BY <2>1, <2>2 DEF SeenInv, Granted
<1> QED
  BY <1>1, AccessSound, PTL

\* MakeRoutingDecision does not lead a web request around a proxy that its host
\* had all along, however the proxies, the settings and the host's row change
\* between the router's reads.
THEOREM NeverAroundProxyHolds == Spec => []NeverAroundProxy
<1>1. AllInv => NeverAroundProxy
  BY DEF AllInv, AccessInv, RouteInv, NeverAroundProxy
<1> QED
  BY <1>1, AccessSound, PTL

\* A host that a rule over its host group lets in exists and is on the user's page
\* and menu, whatever handlers and cascades have deleted or saved again; the sweep
\* disables what has run out; a session token stands for its user and a transfer's
\* row says it is under way only while it is.
THEOREM GrantsSoundHolds == Spec => []GrantsSound
<1>1. AllInv => TypeOK
  BY DEF AllInv, AccessInv, RequestsInv, SettingsOK, HistoryOK, TypeOK
<1>2. AllInv => ReachableIsListed /\ SweepListsExpired /\ TicketVouches
  BY ListsAgree DEF AllInv, AccessInv
<1>3. AllInv => TransfersSettled
  BY DEF AllInv, AccessInv, RequestsInv, StageInv, TransfersSettled
<1>4. AllInv => GrantsSound
  BY <1>1, <1>2, <1>3 DEF GrantsSound
<1> QED
  BY <1>4, AccessSound, PTL

\* AssignmentRevokes: AssignGroupsToUser, whose DELETE and INSERT are two statements
\* (user_repository.go 204), leaves the user in no group but those assigned and
\* those others put the user into in between.
THEOREM AssignmentRevokesHolds == Spec => AssignmentRevokes
<1> DEFINE Revokes == \A a \in Admins :
                        task[a].at \in {"delete", "insert"} /\ task'[a].at = "idle"
                          => {g \in Groups : task[a].user \in member'[g]}
                               \subseteq task[a].groups \cup drift[a]
<1>1. AllInv /\ [Next]_vars => [Revokes]_permVars
  <2> SUFFICES ASSUME AllInv, [Next]_vars, permVars' # permVars
               PROVE  Revokes
    OBVIOUS
  <2>1. TablesStep
    BY NextTables DEF vars
  <2> QED
    BY <2>1, AssignEnds DEF AllInv, AccessInv
<1> QED
  BY <1>1, AccessSound, PTL DEF Spec, AssignmentRevokes

=============================================================================

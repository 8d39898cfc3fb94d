------------------------------ MODULE HostMenu ------------------------------
(***************************************************************************)
(* The gateway's menu of host groups and hosts (MenuV2), one per session.  *)
(* The lists are read from the database when a command asks for them,      *)
(* while administrators change what is in them (module Permissions has the *)
(* tables); a number the user types is resolved against the lists the menu *)
(* keeps.  Hosts and groups are numbered in the order of their names.      *)
(***************************************************************************)
EXTENDS Naturals, Sequences, SequencesExt

CONSTANTS Sessions, Hosts, HostGroups,
          LongNames,  \* groups whose name is longer than the list is wide
          PageSize

ASSUME HostMenuAssumption ==
  /\ Hosts \subseteq Nat \ {0} /\ HostGroups \subseteq Nat \ {0}
  /\ IsFiniteSet(Hosts) /\ IsFiniteSet(HostGroups)
  /\ LongNames \subseteq HostGroups /\ PageSize \in Nat \ {0}

VARIABLES
  menu,     \* menu[s]: the state of s's menu
  catalog   \* the user's groups, their hosts, and hosts granted one by one

menuVars == <<menu, catalog>>

None == 0
NoMenu == [at |-> "closed", from |-> "main", groups |-> <<>>, group |-> None,
           hosts |-> <<>>, page |-> 1, shown |-> <<>>, picked |-> None, typed |-> None]

\* A set of numbers in their order.
Sorted(S) ==
  CHOOSE f \in [1..Cardinality(S) -> S] :
    \A i, j \in 1..Cardinality(S) : i < j => f[i] < f[j]
Catalogs == [admin : BOOLEAN, mine : SUBSET HostGroups,
             members : [HostGroups -> SUBSET Hosts], direct : SUBSET Hosts]
MenuStates == {"closed", "load", "fallback", "main", "groups", "hosts", "again", "all",
               "picked", "pause", "left"}
Menus == [at : MenuStates, from : {"main", "groups"}, groups : Seq(HostGroups),
          group : HostGroups \cup {None}, hosts : Seq(Hosts),
          page : 1..Cardinality(Hosts) + 1, shown : Seq(Hosts),
          picked : Hosts \cup {None}, typed : Nat]
MenuTypeOK ==
  /\ menu \in [Sessions -> Menus] /\ catalog \in Catalogs
  /\ \A s \in Sessions : menu[s].at \in {"hosts", "again"} => menu[s].group # None

MenuInit(c) ==
  /\ menu = [s \in Sessions |-> NoMenu]
  /\ catalog = c

Update(s, m) == menu' = [menu EXCEPT ![s] = m]
To(s, at) == Update(s, [menu[s] EXCEPT !.at = at])

-----------------------------------------------------------------------------
(* What the selector reads.                                                 *)

\* ListGroups: every group.
ListGroups == Sorted(HostGroups)
\* ListGroupsForUser, in the order of the groups.
ListGroupsForUser == IF catalog.admin THEN ListGroups ELSE Sorted(catalog.mine)
\* ListHostsByGroup: a page of the group, in the order of the names.
ListHostsByGroup(g, page) ==
  LET all == Sorted(catalog.members[g])
  IN  SubSeq(all, (page - 1) * PageSize + 1, Min({page * PageSize, Len(all)}))
\* ListAvailableHosts: what some grant lets the user in to, in the order of
\* a Go map, that is, in any; an administrator has everything.
Available ==
  IF catalog.admin THEN Hosts
  ELSE catalog.direct \cup UNION {catalog.members[g] : g \in catalog.mine}
ListAvailableHosts == SetToSeqs(Available)

-----------------------------------------------------------------------------
(* Entering the menu.  "Reply" is TRUE when the query is answered.          *)

\* loadGroupsForUser; a failed query falls back on all groups, and a second
\* one, or no group, on the list of all hosts.
LoadGroups(s, reply, again) ==
  /\ menu[s].at = "load"
  /\ LET groups == IF reply THEN ListGroupsForUser
                   ELSE IF again THEN ListGroups ELSE <<>>
     IN  Update(s, IF groups = <<>>
                   THEN [menu[s] EXCEPT !.at = "fallback",
                           !.groups = IF reply THEN <<>> ELSE menu[s].groups]
                   ELSE [menu[s] EXCEPT !.at = "main", !.groups = groups])
  /\ UNCHANGED catalog

\* fallbackToAllHosts, up to its prompt.  Hosts whose query fails are not in
\* the list.
LoadAllHosts(s, hosts) ==
  /\ menu[s].at = "fallback"
  /\ Update(s, IF hosts = <<>> THEN [menu[s] EXCEPT !.at = "left"]
               ELSE [menu[s] EXCEPT !.at = "all", !.hosts = hosts, !.shown = hosts])
  /\ UNCHANGED catalog

-----------------------------------------------------------------------------
(* Commands.                                                                *)

\* "q" at the first prompt.
Quit(s) ==
  /\ menu[s].at \in {"main", "all"}
  /\ To(s, "left")
  /\ UNCHANGED catalog

\* "g": the list of groups, and "b" back from it.
ShowGroups(s) ==
  /\ menu[s].at = "main"
  /\ To(s, "groups")
  /\ UNCHANGED catalog
BackToMain(s) ==
  /\ menu[s].at = "groups"
  /\ To(s, "main")
  /\ UNCHANGED catalog

\* loadHostsInGroup: an error leaves the hosts as they are.
Loaded(m, g, page, reply) ==
  IF reply THEN [m EXCEPT !.hosts = ListHostsByGroup(g, page)] ELSE m
\* showHostList: the title's padding panics on a name too long for it, and
\* the panic ends the session.
Shown(m) == IF m.group \in LongNames THEN [m EXCEPT !.at = "left"]
            ELSE [m EXCEPT !.shown = m.hosts]
LoadedAndShown(m, g, page, reply) ==
  IF reply THEN Shown(Loaded(m, g, page, reply)) ELSE m

\* handleHostSelection, up to its prompt: "p" takes the first group, a
\* number one of the list.
OpenGroup(s, n, reply) ==
  /\ \/ menu[s].at = "main" /\ n = 1
     \/ menu[s].at = "groups"
  /\ n \in 1..Len(menu[s].groups)
  /\ LET g == menu[s].groups[n]
         m == [menu[s] EXCEPT !.group = g, !.page = 1, !.from = menu[s].at]
     IN  Update(s, IF reply THEN LoadedAndShown([m EXCEPT !.at = "hosts"], g, 1, TRUE)
                   ELSE m)
  /\ UNCHANGED catalog

\* "b", "g" and "q" return to where the list was opened.
LeaveGroup(s) ==
  /\ menu[s].at = "hosts"
  /\ To(s, menu[s].from)
  /\ UNCHANGED catalog

Help(s) ==
  /\ menu[s].at = "hosts"
  /\ Update(s, Shown(menu[s]))
  /\ UNCHANGED catalog

Refresh(s, reply) ==
  /\ menu[s].at = "hosts"
  /\ Update(s, LoadedAndShown(menu[s], menu[s].group, menu[s].page, reply))
  /\ UNCHANGED catalog

\* "n": past the end, or if the query fails, back to the page before, which
\* is read once more.
NextPage(s, reply) ==
  /\ menu[s].at = "hosts"
  /\ LET m == Loaded(menu[s], menu[s].group, menu[s].page + 1, reply)
     IN  Update(s, IF reply /\ m.hosts # <<>> THEN [Shown(m) EXCEPT !.page = @ + 1]
                   ELSE [m EXCEPT !.at = "again"])
  /\ UNCHANGED catalog
ReloadPage(s, reply) ==
  /\ menu[s].at = "again"
  /\ Update(s, LoadedAndShown([menu[s] EXCEPT !.at = "hosts"],
                              menu[s].group, menu[s].page, reply))
  /\ UNCHANGED catalog

\* Mistake: the page before is loaded, and not shown.
PrevPageSilent(s, reply) ==
  /\ menu[s].at = "hosts"
  /\ LET page == IF menu[s].page > 1 THEN menu[s].page - 1 ELSE 1
     IN  Update(s, Loaded([menu[s] EXCEPT !.page = page], menu[s].group, page, reply))
  /\ UNCHANGED catalog

\* "p": the page number goes back whether or not the query is answered.
PrevPage(s, reply) ==
  /\ menu[s].at = "hosts"
  /\ LET page == IF menu[s].page > 1 THEN menu[s].page - 1 ELSE 1
     IN  Update(s, LoadedAndShown([menu[s] EXCEPT !.page = page],
                                  menu[s].group, page, reply))
  /\ UNCHANGED catalog

\* A number: at the first prompt too it picks from the last hosts loaded.
PickHost(s, n) ==
  /\ menu[s].at \in {"main", "hosts", "all"}
  /\ n \in 1..Len(menu[s].hosts)
  /\ Update(s, [menu[s] EXCEPT !.at = "picked", !.picked = menu[s].hosts[n], !.typed = n])
  /\ UNCHANGED catalog

\* The connection is over, or failed, which the user acknowledges.
Returned(s, ok) ==
  /\ menu[s].at = "picked"
  /\ Update(s, [menu[s] EXCEPT !.at = IF ok THEN "load" ELSE "pause",
                  !.picked = None, !.typed = None])
  /\ UNCHANGED catalog
PressToContinue(s) ==
  /\ menu[s].at = "pause"
  /\ To(s, "load")
  /\ UNCHANGED catalog

\* Administrators add and remove one thing at a time.
Toggle(S, x) == IF x \in S THEN S \ {x} ELSE S \cup {x}
EditCatalog ==
  /\ \/ \E g \in HostGroups : catalog' = [catalog EXCEPT !.mine = Toggle(@, g)]
     \/ \E g \in HostGroups, h \in Hosts :
          catalog' = [catalog EXCEPT !.members[g] = Toggle(@, h)]
  /\ UNCHANGED menu

=============================================================================

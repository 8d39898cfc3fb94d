--------------------------- MODULE Gateway_proofs ---------------------------
(***************************************************************************)
(* Proofs about Gateway for every set of instances, sessions, hosts and    *)
(* groups, every page size and every limit.                                *)
(***************************************************************************)
EXTENDS Gateway, TLAPS, FiniteSetTheorems, SequenceTheorems, WellFoundedInduction

-----------------------------------------------------------------------------
(* Host keys.                                                               *)

\* What the rest of the server does to the instances: Stop and Exit.
KeyStep ==
  \/ UNCHANGED <<keyVars, faults>>
  \/ UNCHANGED keyVars /\ Fault
  \/ \E i \in Instances : SetupHostKey(i)
  \/ \E i \in Instances :
       /\ instance[i] = "up" /\ instance' = [instance EXCEPT ![i] = "stopping"]
       /\ UNCHANGED <<hostKey, startNo, starts, hostKeyRow, hostKeyFile, faults>>
  \/ \E i \in Instances : ProcessEnds(i)

LEMMA SessionKeys ==
  ASSUME NEW s \in Sessions, Session(s) \/ Client(s)
  PROVE  UNCHANGED keyVars /\ (UNCHANGED faults \/ Fault)
  BY DEF Session, Client, CanHandle, ReadStatus, Authenticate, BeginSession, ReadSessionUser,
         CheckMFA, CodeReadFails, GiveUp, InMenu, LeaveMenu, HandlePasswordAuth,
         PerformSessionMFA, HandlePublicKeyAuth, Command, HangUp, Alone, MenuQuery,
         MenuCommand, Query

LEMMA NextKeys == [Next]_vars => KeyStep
  BY SessionKeys DEF Next, vars, KeyStep, CleanupExpiredSessions, Stop, Exit, Connect, Alone,
     EditUser, UpdateGlobalConfig, EditLists

LEMMA KeyTypeStep == HostKeyTypeOK /\ KeyStep => HostKeyTypeOK'
<1> SUFFICES ASSUME HostKeyTypeOK, KeyStep
             PROVE  HostKeyTypeOK'
  OBVIOUS
<1> USE HostKeyAssumption DEF HostKeyTypeOK, Keys, ShippedKey, NoKey
<1>1. CASE UNCHANGED <<keyVars, faults>>
  BY <1>1 DEF keyVars
<1>2. CASE UNCHANGED keyVars /\ Fault
  BY <1>2 DEF keyVars, Fault
<1>3. ASSUME NEW i \in Instances, SetupHostKey(i)
      PROVE  HostKeyTypeOK'
  <2>1. CASE Start(i)
    BY <2>1 DEF Start, Becomes, InstanceStates
  <2>2. CASE QueryHostKey(i)
    BY <2>2 DEF QueryHostKey, Serve, Becomes, WithoutSharedKey, Fault, InstanceStates
  <2>3. CASE CreateHostKey(i)
    BY <2>3 DEF CreateHostKey, Serve, Becomes, WithoutSharedKey, Fault, InstanceStates
  <2>4. CASE LoadOrGenerateHostKey(i)
    BY <2>4 DEF LoadOrGenerateHostKey, KeyInFile, Serve, Becomes, Fault, InstanceStates
  <2>5. CASE TemporaryKey(i)
    BY <2>5 DEF TemporaryKey, Serve, InstanceStates
  <2> QED
    BY <1>3, <2>1, <2>2, <2>3, <2>4, <2>5 DEF SetupHostKey
<1>4. ASSUME NEW i \in Instances, instance' = [instance EXCEPT ![i] = "stopping"],
             UNCHANGED <<hostKey, startNo, starts, hostKeyRow, hostKeyFile, faults>>
      PROVE  HostKeyTypeOK'
  BY <1>4 DEF InstanceStates
<1>5. ASSUME NEW i \in Instances, ProcessEnds(i)
      PROVE  HostKeyTypeOK'
  BY <1>5 DEF ProcessEnds, InstanceStates
<1> QED
  BY <1>1, <1>2, <1>3, <1>4, <1>5 DEF KeyStep

LEMMA KeysStep == HostKeyTypeOK /\ KeysInv /\ KeyStep => KeysInv'
<1> SUFFICES ASSUME HostKeyTypeOK, KeysInv, KeyStep
             PROVE  KeysInv'
  OBVIOUS
<1> USE HostKeyAssumption DEF HostKeyTypeOK, KeysInv, NoKey
<1>1. CASE UNCHANGED <<keyVars, faults>> \/ (UNCHANGED keyVars /\ Fault)
  BY <1>1 DEF keyVars
<1>2. ASSUME NEW i \in Instances, SetupHostKey(i)
      PROVE  KeysInv'
  <2>1. CASE Start(i)
    BY <2>1 DEF Start, Becomes
  <2>2. CASE QueryHostKey(i)
    BY <2>2 DEF QueryHostKey, Serve, Becomes, WithoutSharedKey
  <2>3. CASE CreateHostKey(i)
    BY <2>3 DEF CreateHostKey, Serve, Becomes, WithoutSharedKey
  <2>4. CASE LoadOrGenerateHostKey(i)
    BY <2>4 DEF LoadOrGenerateHostKey, KeyInFile, Serve, Becomes
  <2>5. CASE TemporaryKey(i)
    BY <2>5 DEF TemporaryKey, Serve
  <2> QED
    BY <1>2, <2>1, <2>2, <2>3, <2>4, <2>5 DEF SetupHostKey
<1>3. ASSUME NEW i \in Instances, instance[i] = "up",
             instance' = [instance EXCEPT ![i] = "stopping"],
             UNCHANGED <<hostKey, startNo, starts, hostKeyRow, hostKeyFile, faults>>
      PROVE  KeysInv'
  BY <1>3
<1>4. ASSUME NEW i \in Instances, ProcessEnds(i)
      PROVE  KeysInv'
  BY <1>4 DEF ProcessEnds
<1> QED
  BY <1>1, <1>2, <1>3, <1>4 DEF KeyStep

\* Instances that share a host key present the one in the database, or their
\* file's, however many there are and however often they start.
THEOREM SharedKeysAgreeHolds == Spec => []SharedKeysAgree
<1>1. Init => HostKeyTypeOK /\ KeysInv
  BY HostKeyAssumption DEF Init, HostKeyInit, HostKeyTypeOK, KeysInv, Keys, ShippedKey, NoKey,
     InstanceStates
<1>2. KeysInv => SharedKeysAgree
  BY DEF KeysInv, SharedKeysAgree
<1> QED
  BY <1>1, <1>2, NextKeys, KeyTypeStep, KeysStep, PTL DEF Spec

-----------------------------------------------------------------------------
(* Lists.                                                                   *)

LEMMA LeastNumber ==
  ASSUME NEW T \in SUBSET Nat, T # {}
  PROVE  \E m \in T : \A n \in T : m <= n
<1> DEFINE Less == OpToRel(<, Nat)
<1>1. IsWellFoundedOn(Less, Nat)
  BY NatLessThanWellFounded
<1>2. \A m, n \in Nat : <<n, m>> \in Less <=> n < m
  BY DEF OpToRel
<1> HIDE DEF Less
<1>3. PICK m \in T : \A n \in T : ~(<<n, m>> \in Less)
  BY <1>1, WFMin
<1>4. ASSUME NEW n \in T
      PROVE  m <= n
  <2>1. m \in Nat /\ n \in Nat
    OBVIOUS
  <2>2. ~(n < m)
    BY <1>2, <1>3, <2>1
  <2> QED
    BY <2>1, <2>2
<1> QED
  BY <1>4

LEMMA LesserOfTwo ==
  ASSUME NEW a \in Nat, NEW b \in Nat
  PROVE  Min({a, b}) \in Nat /\ Min({a, b}) <= a /\ Min({a, b}) <= b
<1>1. \E x \in {a, b} : \A y \in {a, b} : x =< y
  OBVIOUS
<1>2. Min({a, b}) \in {a, b} /\ \A y \in {a, b} : Min({a, b}) =< y
  BY <1>1 DEF Min
<1> QED
  BY <1>2

\* f lists the n numbers of S in their order.
InOrder(f, n, S) ==
  /\ f \in [1..n -> S]
  /\ \A i, j \in 1..n : i < j => f[i] < f[j]

\* Every finite set of numbers has its order: a smallest set without one is not
\* empty, and without its least element it has one.
LEMMA OrderExists ==
  ASSUME NEW S \in SUBSET Nat, IsFiniteSet(S)
  PROVE  \E f : InOrder(f, Cardinality(S), S)
<1> DEFINE Bad == {n \in Nat : \E T \in SUBSET Nat :
                     /\ IsFiniteSet(T) /\ Cardinality(T) = n
                     /\ ~ \E f : InOrder(f, n, T)}
<1>1. Cardinality(S) \in Nat
  BY FS_CardinalityType
<1> SUFFICES ASSUME Bad # {}
             PROVE  FALSE
  BY <1>1
<1>2. PICK n \in Bad : \A k \in Bad : n <= k
  BY LeastNumber
<1>3. PICK T \in SUBSET Nat : /\ IsFiniteSet(T) /\ Cardinality(T) = n
                              /\ ~ \E f : InOrder(f, n, T)
  BY <1>2
<1> HIDE DEF Bad
<1>4. n \in Nat
  BY <1>2 DEF Bad
<1>5. CASE T = {}
  <2>1. n = 0
    BY <1>3, <1>5, FS_EmptySet
  <2>2. InOrder(<<>>, 0, T)
    BY DEF InOrder
  <2> QED
    BY <1>3, <2>1, <2>2
<1>6. CASE T # {}
  <2>1. PICK m \in T : \A k \in T : m <= k
    BY <1>3, <1>6, LeastNumber
  <2> DEFINE U == T \ {m}
  <2>2. IsFiniteSet(U) /\ Cardinality(U) = n - 1
    BY <1>3, <2>1, FS_RemoveElement
  <2>3. n - 1 \in Nat
    BY <2>2, FS_CardinalityType
  <2>4. n - 1 \notin Bad
    BY <1>2, <1>4
  <2>5. PICK g : InOrder(g, n - 1, U)
    BY <1>3, <2>2, <2>3, <2>4 DEF Bad
  <2> DEFINE f == [i \in 1..n |-> IF i = 1 THEN m ELSE g[i - 1]]
  <2>6. \A i \in 1..n : i # 1 => i - 1 \in 1..(n - 1)
    BY <1>4
  <2>7. f \in [1..n -> T]
    BY <1>4, <2>5, <2>6 DEF InOrder
  <2>8. \A i \in 1..n : i # 1 => f[i] \in T /\ m < f[i] /\ f[i] = g[i - 1]
    <3> SUFFICES ASSUME NEW i \in 1..n, i # 1
                 PROVE  f[i] \in T /\ m < f[i] /\ f[i] = g[i - 1]
      OBVIOUS
    <3>1. f[i] = g[i - 1] /\ g[i - 1] \in U
      BY <2>5, <2>6 DEF InOrder
    <3>2. f[i] \in Nat /\ m \in Nat /\ m <= f[i] /\ m # f[i]
      BY <1>3, <2>1, <3>1
    <3> QED
      BY <3>1, <3>2
  <2>9. ASSUME NEW i \in 1..n, NEW j \in 1..n, i < j
        PROVE  f[i] < f[j]
    <3>1. j # 1 /\ m < f[j] /\ f[j] = g[j - 1]
      BY <2>8, <2>9
    <3>2. CASE i = 1
      BY <3>1, <3>2
    <3>3. CASE i # 1
      <4>1. i - 1 \in 1..(n - 1) /\ j - 1 \in 1..(n - 1) /\ i - 1 < j - 1
        BY <1>4, <2>6, <2>9, <3>1, <3>3
      <4>2. g[i - 1] < g[j - 1]
        BY <2>5, <4>1 DEF InOrder
      <4> QED
        BY <2>8, <3>1, <3>3, <4>2
    <3> QED
      BY <3>2, <3>3
  <2>10. InOrder(f, n, T)
    BY <2>7, <2>9 DEF InOrder
  <2> QED
    BY <1>3, <2>10
<1> QED
  BY <1>5, <1>6

LEMMA SortedInOrder ==
  ASSUME NEW S \in SUBSET Nat, IsFiniteSet(S)
  PROVE  InOrder(Sorted(S), Cardinality(S), S)
  BY OrderExists DEF Sorted, InOrder

LEMMA SortedSeq ==
  ASSUME NEW S \in SUBSET Nat, IsFiniteSet(S)
  PROVE  Sorted(S) \in Seq(S) /\ Len(Sorted(S)) = Cardinality(S)
<1>1. Sorted(S) \in [1..Cardinality(S) -> S] /\ Cardinality(S) \in Nat
  BY SortedInOrder, FS_CardinalityType DEF InOrder
<1> QED
  BY <1>1

\* A page of a group's hosts is a list of hosts, and pages end with the hosts.
LEMMA PageOfHosts ==
  ASSUME catalog \in Catalogs, NEW g \in HostGroups, NEW page \in Nat \ {0}
  PROVE  /\ ListHostsByGroup(g, page) \in Seq(Hosts)
         /\ ListHostsByGroup(g, page) # <<>> => page <= Cardinality(Hosts)
<1> DEFINE S == catalog.members[g]
           all == Sorted(S)
           first == (page - 1) * PageSize + 1
           last == Min({page * PageSize, Len(all)})
<1>1. S \subseteq Hosts /\ S \in SUBSET Nat /\ IsFiniteSet(S)
  <2>1. S \subseteq Hosts
    BY DEF Catalogs
  <2> QED
    BY <2>1, HostMenuAssumption, FS_Subset
<1>2. all \in Seq(S) /\ Len(all) = Cardinality(S) /\ Len(all) \in Nat
  BY <1>1, SortedSeq, FS_CardinalityType
<1>3. Cardinality(S) <= Cardinality(Hosts) /\ Cardinality(Hosts) \in Nat
  BY <1>1, HostMenuAssumption, FS_Subset, FS_CardinalityType
<1>4. page * PageSize \in Nat /\ (page - 1) * PageSize \in Nat /\ page - 1 <= (page - 1) * PageSize
  BY HostMenuAssumption
<1>5. last \in Nat /\ last <= Len(all)
  BY <1>2, <1>4, LesserOfTwo
<1>6. first \in Nat \ {0}
  BY <1>4
<1>7. /\ SubSeq(all, first, last) \in Seq(Hosts)
      /\ last < first => SubSeq(all, first, last) = <<>>
  <2> HIDE DEF S, all, first, last
  <2>1. \A i \in first..last : i \in 1..Len(all)
    BY <1>2, <1>5, <1>6
  <2>2. \A i \in first..last : all[i] \in Hosts
    BY <1>1, <1>2, <2>1, ElementOfSeq
  <2> QED
    BY <1>5, <1>6, <2>2, SubSeqProperties, SubSeqEmpty
<1>8. first <= last => page <= Cardinality(Hosts)
  BY <1>2, <1>3, <1>4, <1>5
<1>9. ListHostsByGroup(g, page) = SubSeq(all, first, last)
  BY DEF ListHostsByGroup
<1>10. CASE first <= last
  BY <1>7, <1>8, <1>9, <1>10
<1>11. CASE last < first
  BY <1>7, <1>9, <1>11
<1> QED
  BY <1>5, <1>6, <1>10, <1>11

-----------------------------------------------------------------------------
(* The menu.                                                                *)

\* A step of an open menu leaves it open and good, and leaves the other menus
\* and the catalog alone.
MenuMoves(s) ==
  /\ menu' = [menu EXCEPT ![s] = menu'[s]]
  /\ GoodMenu(menu'[s]) /\ menu'[s].at # "closed"
  /\ UNCHANGED catalog

LEMMA ShownGood ==
  ASSUME NEW m \in Menus, m.group # None, m.at \notin {"closed", "picked"}
  PROVE  GoodMenu(Shown(m)) /\ Shown(m).at # "closed" /\ Shown(m).page = m.page
  BY DEF GoodMenu, Shown, Menus, MenuStates

LEMMA LoadedType ==
  ASSUME NEW m \in Menus, catalog \in Catalogs, NEW g \in HostGroups, NEW page \in Nat \ {0},
         NEW reply \in BOOLEAN
  PROVE  /\ Loaded(m, g, page, reply) \in Menus
         /\ Loaded(m, g, page, reply).at = m.at
         /\ Loaded(m, g, page, reply).group = m.group
         /\ Loaded(m, g, page, reply).page = m.page
         /\ Loaded(m, g, page, reply).shown = m.shown
         /\ reply /\ Loaded(m, g, page, reply).hosts # <<>> => page <= Cardinality(Hosts)
         /\ ~reply => Loaded(m, g, page, reply) = m
<1>1. /\ ListHostsByGroup(g, page) \in Seq(Hosts)
      /\ ListHostsByGroup(g, page) # <<>> => page <= Cardinality(Hosts)
  BY PageOfHosts
<1> QED
  BY <1>1 DEF Loaded, Menus

LEMMA LoadedAndShownGood ==
  ASSUME NEW m, GoodMenu(m), m.group # None, m.at \notin {"closed", "picked"},
         catalog \in Catalogs, NEW g \in HostGroups, NEW page \in Nat \ {0},
         NEW reply \in BOOLEAN
  PROVE  GoodMenu(LoadedAndShown(m, g, page, reply))
         /\ LoadedAndShown(m, g, page, reply).at # "closed"
  BY LoadedType, ShownGood DEF LoadedAndShown, GoodMenu

LEMMA GroupLists ==
  ASSUME catalog \in Catalogs
  PROVE  ListGroups \in Seq(HostGroups) /\ ListGroupsForUser \in Seq(HostGroups)
<1>1. HostGroups \in SUBSET Nat /\ IsFiniteSet(HostGroups)
  BY HostMenuAssumption
<1>2. catalog.mine \subseteq HostGroups
  BY DEF Catalogs
<1>3. catalog.mine \in SUBSET Nat /\ IsFiniteSet(catalog.mine)
  BY <1>1, <1>2, FS_Subset
<1>4. Sorted(HostGroups) \in Seq(HostGroups) /\ Sorted(catalog.mine) \in Seq(catalog.mine)
  BY <1>1, <1>3, SortedSeq
<1>5. Sorted(catalog.mine) \in Seq(HostGroups)
  BY <1>2, <1>4
<1> QED
  BY <1>4, <1>5 DEF ListGroups, ListGroupsForUser

LEMMA HostLists ==
  ASSUME catalog \in Catalogs
  PROVE  ListAvailableHosts \subseteq Seq(Hosts)
         /\ SetToAllKPermutations(Available) \subseteq Seq(Hosts)
<1>1. Available \subseteq Hosts
  BY DEF Available, Catalogs
<1>2. ASSUME NEW T \in SUBSET Available
      PROVE  SetToSeqs(T) \subseteq Seq(Hosts)
  <2>1. IsFiniteSet(T) /\ T \subseteq Hosts
    BY <1>1, HostMenuAssumption, FS_Subset
  <2>2. Cardinality(T) \in Nat
    BY <2>1, FS_CardinalityType
  <2>3. SetToSeqs(T) \subseteq [1..Cardinality(T) -> T]
    BY DEF SetToSeqs
  <2> QED
    BY <2>1, <2>2, <2>3
<1> QED
  BY <1>2 DEF ListAvailableHosts, SetToAllKPermutations

\* The steps of a menu, whatever the queries answer.
MenuAction(s) ==
  \/ \E reply, again \in BOOLEAN : LoadGroups(s, reply, again)
  \/ \E hosts \in Seq(Hosts) : LoadAllHosts(s, hosts)
  \/ \E reply \in BOOLEAN : ReloadPage(s, reply)
  \/ \E ok \in BOOLEAN : Returned(s, ok)
  \/ PressToContinue(s) \/ Quit(s) \/ ShowGroups(s) \/ BackToMain(s) \/ LeaveGroup(s) \/ Help(s)
  \/ \E n \in 1..Len(menu[s].hosts) : PickHost(s, n)
  \/ \E n \in 1..Len(menu[s].groups), reply \in BOOLEAN : OpenGroup(s, n, reply)
  \/ \E reply \in BOOLEAN : Refresh(s, reply) \/ NextPage(s, reply) \/ PrevPage(s, reply)

LEMMA MenuActionMoves ==
  ASSUME catalog \in Catalogs, NEW s \in Sessions, DOMAIN menu = Sessions,
         menu = [t \in Sessions |-> menu[t]],
         GoodMenu(menu[s]), menu[s].at # "closed", MenuAction(s)
  PROVE  MenuMoves(s)
<1> USE DEF MenuMoves, Update, To
<1> DEFINE m == menu[s]
<1>0. m \in Menus /\ m.page \in Nat \ {0}
      /\ m.groups \in Seq(HostGroups) /\ m.hosts \in Seq(Hosts)
      /\ (m.group # None => m.group \in HostGroups)
      /\ Cardinality(Hosts) \in Nat
  BY HostMenuAssumption, FS_CardinalityType DEF GoodMenu, Menus
<1>1. ASSUME NEW reply \in BOOLEAN, NEW again \in BOOLEAN, LoadGroups(s, reply, again)
      PROVE  MenuMoves(s)
  <2>1. ListGroups \in Seq(HostGroups) /\ ListGroupsForUser \in Seq(HostGroups)
    BY GroupLists
  <2> QED
    BY <1>1, <2>1 DEF LoadGroups, GoodMenu, Menus, MenuStates
<1>2. ASSUME NEW hosts \in Seq(Hosts), LoadAllHosts(s, hosts)
      PROVE  MenuMoves(s)
  BY <1>2 DEF LoadAllHosts, GoodMenu, Menus, MenuStates
<1>3. ASSUME NEW reply \in BOOLEAN, ReloadPage(s, reply)
      PROVE  MenuMoves(s)
  <2> DEFINE h == [m EXCEPT !.at = "hosts"]
  <2>1. GoodMenu(h) /\ h.group # None /\ h.at \notin {"closed", "picked"} /\ h.group = m.group
    BY <1>3 DEF ReloadPage, GoodMenu, Menus, MenuStates
  <2>2. GoodMenu(LoadedAndShown(h, m.group, m.page, reply))
        /\ LoadedAndShown(h, m.group, m.page, reply).at # "closed"
    BY <1>0, <2>1, LoadedAndShownGood
  <2> QED
    BY <1>3, <2>2 DEF ReloadPage
<1>4. ASSUME NEW ok \in BOOLEAN, Returned(s, ok)
      PROVE  MenuMoves(s)
  BY <1>4 DEF Returned, GoodMenu, Menus, MenuStates, None
<1>5. CASE PressToContinue(s) \/ Quit(s) \/ ShowGroups(s) \/ BackToMain(s) \/ LeaveGroup(s)
  BY <1>5 DEF PressToContinue, Quit, ShowGroups, BackToMain, LeaveGroup, GoodMenu, Menus,
              MenuStates
<1>6. CASE Help(s)
  <2>1. GoodMenu(Shown(m)) /\ Shown(m).at # "closed"
    BY <1>0, <1>6, ShownGood DEF Help, GoodMenu
  <2> QED
    BY <1>6, <2>1 DEF Help
<1>7. ASSUME NEW n \in 1..Len(m.hosts), PickHost(s, n)
      PROVE  MenuMoves(s)
  <2>1. m.hosts = m.shown /\ n \in Nat /\ m.hosts[n] \in Hosts
    BY <1>0, <1>7, ElementOfSeq DEF PickHost, GoodMenu
  <2> QED
    BY <1>7, <2>1 DEF PickHost, GoodMenu, Menus, MenuStates
<1>8. ASSUME NEW n \in 1..Len(m.groups), NEW reply \in BOOLEAN, OpenGroup(s, n, reply)
      PROVE  MenuMoves(s)
  <2> DEFINE g == m.groups[n]
             o == [m EXCEPT !.group = g, !.page = 1, !.from = m.at]
             h == [o EXCEPT !.at = "hosts"]
  <2>1. g \in HostGroups /\ g # None /\ 1 \in 1..Cardinality(Hosts) + 1
    BY <1>0, ElementOfSeq, HostMenuAssumption DEF None
  <2>2. o \in Menus /\ GoodMenu(o) /\ o.at # "closed"
    BY <1>8, <2>1 DEF OpenGroup, GoodMenu, Menus, MenuStates
  <2>3. GoodMenu(h) /\ h.group = g /\ h.at = "hosts"
    BY <1>8, <2>1 DEF OpenGroup, GoodMenu, Menus, MenuStates
  <2>4. GoodMenu(LoadedAndShown(h, g, 1, TRUE)) /\ LoadedAndShown(h, g, 1, TRUE).at # "closed"
    <3> HIDE DEF g, h
    <3>1. 1 \in Nat \ {0} /\ TRUE \in BOOLEAN /\ h.group # None /\ h.at \notin {"closed", "picked"}
      BY <2>1, <2>3
    <3> QED
      BY <2>1, <2>3, <3>1, LoadedAndShownGood
  <2> QED
    BY <1>8, <2>2, <2>4 DEF OpenGroup
<1>9. ASSUME NEW reply \in BOOLEAN, Refresh(s, reply)
      PROVE  MenuMoves(s)
  <2>1. GoodMenu(LoadedAndShown(m, m.group, m.page, reply))
        /\ LoadedAndShown(m, m.group, m.page, reply).at # "closed"
    BY <1>0, <1>9, LoadedAndShownGood DEF Refresh, GoodMenu
  <2> QED
    BY <1>9, <2>1 DEF Refresh
<1>10. ASSUME NEW reply \in BOOLEAN, NextPage(s, reply)
      PROVE  MenuMoves(s)
  <2> DEFINE l == Loaded(m, m.group, m.page + 1, reply)
  <2>1. m.at = "hosts" /\ m.group # None /\ m.group \in HostGroups /\ m.page + 1 \in Nat \ {0}
    BY <1>0, <1>10 DEF NextPage, GoodMenu
  <2>2. /\ l \in Menus /\ l.at = m.at /\ l.group = m.group /\ l.page = m.page /\ l.shown = m.shown
        /\ reply /\ l.hosts # <<>> => m.page + 1 <= Cardinality(Hosts)
        /\ ~reply => l = m
    BY <1>0, <2>1, LoadedType
  <2>3. GoodMenu(Shown(l)) /\ Shown(l).at # "closed" /\ Shown(l).page = m.page
    BY <2>1, <2>2, ShownGood
  <2> HIDE DEF l
  <2>4. CASE reply /\ l.hosts # <<>>
    <3>1. m.page + 1 \in 1..Cardinality(Hosts) + 1
      BY <1>0, <2>2, <2>4
    <3>2. GoodMenu([Shown(l) EXCEPT !.page = m.page + 1])
          /\ [Shown(l) EXCEPT !.page = m.page + 1].at # "closed"
      BY <2>3, <3>1 DEF GoodMenu, Menus
    <3> QED
      BY <1>10, <2>3, <2>4, <3>2 DEF NextPage, l
  <2>5. CASE ~(reply /\ l.hosts # <<>>)
    <3>1. GoodMenu([l EXCEPT !.at = "again"]) /\ [l EXCEPT !.at = "again"].at # "closed"
      BY <2>1, <2>2, <2>5 DEF GoodMenu, Menus, MenuStates
    <3> QED
      BY <1>10, <2>5, <3>1 DEF NextPage, l
  <2> QED
    BY <2>4, <2>5
<1>11. ASSUME NEW reply \in BOOLEAN, PrevPage(s, reply)
      PROVE  MenuMoves(s)
  <2> DEFINE page == IF m.page > 1 THEN m.page - 1 ELSE 1
             p == [m EXCEPT !.page = page]
  <2>1. page \in Nat \ {0} /\ page \in 1..Cardinality(Hosts) + 1
    BY <1>0 DEF Menus
  <2> HIDE DEF page
  <2>2. GoodMenu(p) /\ p.group # None /\ p.group = m.group /\ p.at = "hosts"
    BY <1>11, <2>1 DEF PrevPage, GoodMenu, Menus
  <2>3. GoodMenu(LoadedAndShown(p, m.group, page, reply))
        /\ LoadedAndShown(p, m.group, page, reply).at # "closed"
    BY <1>0, <2>1, <2>2, LoadedAndShownGood
  <2> QED
    BY <1>11, <2>3 DEF PrevPage, page
<1> QED
  BY <1>1, <1>2, <1>3, <1>4, <1>5, <1>6, <1>7, <1>8, <1>9, <1>10, <1>11 DEF MenuAction

-----------------------------------------------------------------------------
(* Connections and the registry.                                            *)

\* A step of one session leaves it good, and the others alone.
SessionMoves(s) ==
  /\ sess' = [sess EXCEPT ![s] = sess'[s]] /\ menu' = [menu EXCEPT ![s] = menu'[s]]
  /\ registry' \ {s} = registry \ {s} /\ cancelled' \ {s} = cancelled \ {s}
  /\ GoodSession(s)'
  /\ UNCHANGED <<catalog, user, globalMFA>>

LEMMA NoMenuGood == GoodMenu(NoMenu) /\ GoodMenu([NoMenu EXCEPT !.at = "load"])
<1>1. 1 \in 1..Cardinality(Hosts) + 1 /\ <<>> \in Seq(Hosts) /\ <<>> \in Seq(HostGroups)
  BY HostMenuAssumption, FS_CardinalityType
<1> QED
  BY <1>1 DEF GoodMenu, NoMenu, Menus, MenuStates, None

LEMMA Limits ==
  /\ MaxAuthTries \in Nat \ {0} /\ MaxMfaAttempts \in Nat \ {0}
  /\ 0 \in 0..MaxAuthTries /\ 0 \in 0..MaxMfaAttempts - 1
<1>1. MaxAuthTries \in Nat \ {0} /\ MaxMfaAttempts \in Nat \ {0}
  BY GatewayAssumption, Zenon
<1> QED
  BY <1>1

LEMMA NoSessionType ==
  ASSUME NEW at \in SessionStates
  PROVE  [NoSession EXCEPT !.at = at] \in Connections
  BY Limits DEF NoSession, Connections

LEMMA EndedMoves ==
  ASSUME ServerInv, NEW s \in Sessions, Running(s), Ended(s),
         UNCHANGED <<catalog, user, globalMFA>>
  PROVE  SessionMoves(s)
<1>1. sess'[s] = [NoSession EXCEPT !.at = "ended"] /\ menu'[s] = NoMenu
  BY DEF Ended, ServerInv
<1>2. sess'[s] \in Connections /\ GoodMenu(menu'[s]) /\ menu'[s].at = "closed"
  <2>1. "ended" \in SessionStates /\ NoMenu.at = "closed"
    BY DEF SessionStates, NoMenu
  <2> QED
    BY <1>1, <2>1, NoSessionType, NoMenuGood
<1>3. sess'[s].at = "ended"
  BY <1>1 DEF NoSession
<1>4. s \notin registry' /\ s \in cancelled'
  BY DEF Ended, Unregister, ServerInv, GoodSession
<1>5. GoodSession(s)'
  BY <1>2, <1>3, <1>4 DEF GoodSession, Running, AuthStates
<1> QED
  BY <1>1, <1>5 DEF SessionMoves, Ended, Unregister, ServerInv

LEMMA OpenMenuMoves ==
  ASSUME ServerInv, NEW s \in Sessions, Running(s), NEW v \in BOOLEAN, NEW b \in BOOLEAN,
         OpenMenu(s, v, b), UNCHANGED <<catalog, user, globalMFA, registry, cancelled>>
  PROVE  SessionMoves(s)
<1>1. /\ menu'[s] = [NoMenu EXCEPT !.at = "load"]
      /\ sess'[s] = [sess[s] EXCEPT !.at = "menu", !.verified = v, !.blind = b, !.tries = 0,
                                    !.codes = 0, !.copy = NoUser, !.proof = ""]
  BY DEF OpenMenu, ServerInv
<1>2. GoodMenu(menu'[s]) /\ menu'[s].at = "load"
  BY <1>1, NoMenuGood DEF NoMenu
<1>3. sess'[s] \in Connections /\ sess'[s].at = "menu"
  <2>1. "menu" \in SessionStates
    BY DEF SessionStates
  <2>2. sess[s] \in Connections
    BY DEF ServerInv
  <2> QED
    BY <1>1, <2>1, <2>2, Limits DEF Connections
<1>4. GoodSession(s)'
  BY <1>2, <1>3 DEF GoodSession, Running, AuthStates, ServerInv
<1> QED
  BY <1>1, <1>4 DEF SessionMoves, OpenMenu, ServerInv

\* A step that changes nothing but the connection, which runs as before.
LEMMA ConnectionMoves ==
  ASSUME ServerInv, NEW s \in Sessions, NEW c \in Connections, sess' = [sess EXCEPT ![s] = c],
         UNCHANGED <<menu, registry, cancelled, catalog, user, globalMFA>>,
         c.at = "menu" <=> sess[s].at = "menu",
         c.at \in {"user", "config", "code", "menu"} <=> Running(s),
         c.at = "ended" => sess[s].at = "ended",
         c.at \in AuthStates \cup {"idle"} => c.tries < MaxAuthTries
  PROVE  SessionMoves(s)
<1>1. sess'[s] = c
  BY DEF ServerInv
<1>2. GoodSession(s)'
  BY <1>1 DEF GoodSession, ServerInv, Running
<1> QED
  BY <1>1, <1>2 DEF SessionMoves, ServerInv

LEMMA AuthenticationMoves ==
  ASSUME ServerInv, NEW s \in Sessions,
         \/ \E i \in Instances : Connect(s, i)
         \/ \E right \in BOOLEAN : HandlePasswordAuth(s, right)
         \/ HandlePublicKeyAuth(s) \/ CanHandle(s) \/ ReadStatus(s)
         \/ \E offered \in {"k1", "k2"} : Authenticate(s, offered)
         \/ GiveUp(s) \/ HangUp(s)
  PROVE  SessionMoves(s)
<1> DEFINE c == sess[s]
<1>1. c \in Connections /\ DOMAIN sess = Sessions
      /\ (c.at \in AuthStates \cup {"idle"} => c.tries < MaxAuthTries)
  BY DEF ServerInv, GoodSession
<1>2. UNCHANGED <<menu, registry, cancelled, catalog, user, globalMFA>>
  BY DEF Connect, HandlePasswordAuth, HandlePublicKeyAuth, CanHandle, ReadStatus, Authenticate,
         GiveUp, HangUp, Alone, menuVars, accountVars
<1> USE <1>1, <1>2
<1>3. ASSUME NEW at \in AuthStates \cup {"open", "refused"}, c.at \in AuthStates, Goto(s, at)
      PROVE  SessionMoves(s)
  <2> DEFINE d == [c EXCEPT !.at = at]
  <2>1. d \in Connections /\ d.at = at /\ d.tries = c.tries
    BY DEF Connections, SessionStates
  <2>2. sess' = [sess EXCEPT ![s] = d]
    BY <1>3 DEF Goto
  <2> HIDE DEF d
  <2> QED
    BY <1>3, <2>1, <2>2, ConnectionMoves DEF AuthStates, Running
<1>4. ASSUME c.at \in AuthStates, Rejected(s)
      PROVE  SessionMoves(s)
  <2> DEFINE at == IF c.tries + 1 < MaxAuthTries THEN "auth" ELSE "refused"
             d == [c EXCEPT !.tries = @ + 1, !.at = at]
  <2>1. c.tries \in Nat /\ c.tries < MaxAuthTries
    <3>1. c.tries \in 0..MaxAuthTries
      BY DEF Connections
    <3>2. c.at \in AuthStates \cup {"idle"}
      BY <1>4
    <3> QED
      BY <3>1, <3>2, Limits
  <2>2. c.tries + 1 \in 0..MaxAuthTries
    BY <2>1, Limits
  <2>3. d \in Connections /\ d.at = at /\ d.tries = c.tries + 1
    BY <2>2 DEF Connections, SessionStates, AuthStates
  <2>4. sess' = [sess EXCEPT ![s] = d]
    BY <1>4 DEF Rejected
  <2>5. d.at \in {"auth", "refused"} /\ (d.at = "auth" => d.tries < MaxAuthTries)
    BY <2>3
  <2> HIDE DEF d, at
  <2> QED
    BY <1>4, <2>3, <2>4, <2>5, ConnectionMoves DEF AuthStates, Running
<1>5. ASSUME NEW proof \in {"password", "key"}, c.at \in AuthStates, Accepted(s, proof)
      PROVE  SessionMoves(s)
  <2> DEFINE d == [c EXCEPT !.at = "open", !.proof = proof]
  <2>1. d \in Connections /\ d.at = "open" /\ d.tries = c.tries
    BY DEF Connections, SessionStates
  <2>2. sess' = [sess EXCEPT ![s] = d]
    BY <1>5 DEF Accepted
  <2> HIDE DEF d
  <2> QED
    BY <1>5, <2>1, <2>2, ConnectionMoves DEF AuthStates, Running
<1>6. ASSUME NEW i \in Instances, Connect(s, i)
      PROVE  SessionMoves(s)
  <2> DEFINE d == [c EXCEPT !.at = "auth", !.instance = i, !.online = TRUE]
  <2>1. d \in Connections /\ d.at = "auth" /\ d.tries = c.tries
    BY DEF Connections, SessionStates, AuthStates
  <2>2. sess' = [sess EXCEPT ![s] = d] /\ c.at = "idle"
    BY <1>6 DEF Connect
  <2> HIDE DEF d
  <2> QED
    BY <2>1, <2>2, ConnectionMoves DEF AuthStates, Running
<1>7. ASSUME NEW right \in BOOLEAN, HandlePasswordAuth(s, right)
      PROVE  SessionMoves(s)
  BY <1>4, <1>5, <1>7 DEF HandlePasswordAuth, AuthStates
<1>8. CASE HandlePublicKeyAuth(s) \/ CanHandle(s) \/ GiveUp(s)
  BY <1>3, <1>4, <1>8 DEF HandlePublicKeyAuth, CanHandle, GiveUp, AuthStates
<1>9. CASE ReadStatus(s)
  <2>1. c.at = "status"
    BY <1>9 DEF ReadStatus
  <2>2. CASE user.known
    <3> DEFINE d == [c EXCEPT !.copy = user, !.at = "key"]
    <3>1. d \in Connections /\ d.at = "key" /\ d.tries = c.tries
      BY DEF Connections, SessionStates, AuthStates, ServerInv
    <3>2. sess' = [sess EXCEPT ![s] = d]
      BY <1>9, <2>2 DEF ReadStatus
    <3> HIDE DEF d
    <3> QED
      BY <2>1, <3>1, <3>2, ConnectionMoves DEF AuthStates, Running
  <2>3. CASE ~user.known
    BY <1>4, <1>9, <2>1, <2>3 DEF ReadStatus, AuthStates
  <2> QED
    BY <2>2, <2>3
<1>10. ASSUME NEW offered \in {"k1", "k2"}, Authenticate(s, offered)
       PROVE  SessionMoves(s)
  BY <1>4, <1>5, <1>10 DEF Authenticate, AuthStates
<1>11. CASE HangUp(s)
  <2> DEFINE d == [c EXCEPT !.online = FALSE]
  <2>1. d \in Connections /\ d.at = c.at /\ d.tries = c.tries
    BY DEF Connections
  <2>2. sess' = [sess EXCEPT ![s] = d]
    BY <1>11 DEF HangUp
  <2> HIDE DEF d
  <2> QED
    BY <2>1, <2>2, ConnectionMoves DEF Running
<1> QED
  BY <1>6, <1>7, <1>8, <1>9, <1>10, <1>11

LEMMA StaysInMenu ==
  ASSUME ServerInv, NEW s \in Sessions, sess[s].at = "menu", MenuAction(s),
         UNCHANGED <<serverVars, accountVars>>
  PROVE  SessionMoves(s)
<1>1. GoodMenu(menu[s]) /\ menu[s].at # "closed" /\ DOMAIN menu = Sessions
      /\ menu = [t \in Sessions |-> menu[t]] /\ catalog \in Catalogs
  BY DEF ServerInv, GoodSession
<1>2. MenuMoves(s)
  BY <1>1, MenuActionMoves
<1>3. GoodSession(s)'
  BY <1>2 DEF MenuMoves, ServerInv, GoodSession, serverVars, Running
<1> QED
  BY <1>2, <1>3 DEF MenuMoves, SessionMoves, serverVars, accountVars, ServerInv

LEMMA InMenuMoves ==
  ASSUME ServerInv, NEW s \in Sessions, InMenu(s) \/ Command(s)
  PROVE  SessionMoves(s)
<1>1. MenuAction(s)
  <2>1. ListAvailableHosts \subseteq Seq(Hosts)
        /\ SetToAllKPermutations(Available) \subseteq Seq(Hosts)
    BY HostLists DEF ServerInv
  <2> QED
    BY <2>1 DEF MenuAction, InMenu, Command, MenuQuery, MenuCommand
<1> QED
  BY <1>1, StaysInMenu DEF InMenu, Command

LEMMA RunningMoves ==
  ASSUME ServerInv, NEW s \in Sessions,
         \/ BeginSession(s) \/ ReadSessionUser(s) \/ CheckMFA(s)
         \/ \E right \in BOOLEAN : PerformSessionMFA(s, right)
         \/ CodeReadFails(s) \/ LeaveMenu(s)
  PROVE  SessionMoves(s)
<1> DEFINE c == sess[s]
<1>1. c \in Connections /\ DOMAIN sess = Sessions
  BY DEF ServerInv
<1>2. UNCHANGED <<catalog, user, globalMFA>>
  BY DEF BeginSession, ReadSessionUser, CheckMFA, PerformSessionMFA, CodeReadFails, LeaveMenu,
         menuVars, accountVars
<1> USE <1>1, <1>2
<1>3. CASE BeginSession(s)
  <2> DEFINE d == [c EXCEPT !.at = "user", !.copy = NoUser]
  <2>1. d \in Connections /\ d.at = "user"
    BY DEF Connections, SessionStates
  <2>2. sess' = [sess EXCEPT ![s] = d] /\ c.at = "open" /\ UNCHANGED menu
    BY <1>3 DEF BeginSession, menuVars
  <2>3. registry' = registry \cup {s} /\ cancelled' \in {cancelled, cancelled \cup {s}}
    BY <1>3 DEF BeginSession
  <2> HIDE DEF d
  <2>4. sess'[s] = d
    BY <2>2
  <2>5. GoodSession(s)'
    BY <2>1, <2>2, <2>3, <2>4 DEF GoodSession, ServerInv, Running, AuthStates
  <2> QED
    BY <2>2, <2>3, <2>4, <2>5 DEF SessionMoves, ServerInv
<1>4. CASE ReadSessionUser(s)
  <2>1. Running(s) /\ c.at = "user" /\ UNCHANGED <<registry, cancelled>>
    BY <1>4 DEF ReadSessionUser, Running
  <2>2. ASSUME UNCHANGED menu, sess' = [sess EXCEPT ![s].at = "config", ![s].copy = user]
        PROVE  SessionMoves(s)
    <3> DEFINE d == [c EXCEPT !.at = "config", !.copy = user]
    <3>1. d \in Connections /\ d.at = "config"
      BY DEF Connections, SessionStates, ServerInv
    <3>2. sess' = [sess EXCEPT ![s] = d]
      BY <2>2
    <3> HIDE DEF d
    <3> QED
      BY <2>1, <2>2, <3>1, <3>2, ConnectionMoves DEF AuthStates
  <2>3. ASSUME NEW b \in BOOLEAN, OpenMenu(s, FALSE, b)
        PROVE  SessionMoves(s)
    BY <2>1, <2>3, OpenMenuMoves
  <2> QED
    BY <1>4, <2>2, <2>3 DEF ReadSessionUser
<1>5. CASE CheckMFA(s)
  <2>1. Running(s) /\ c.at = "config"
    BY <1>5 DEF CheckMFA, Running
  <2>2. ASSUME Goto(s, "code"), UNCHANGED <<menu, registry, cancelled>>
        PROVE  SessionMoves(s)
    <3> DEFINE d == [c EXCEPT !.at = "code"]
    <3>1. d \in Connections /\ d.at = "code"
      BY DEF Connections, SessionStates
    <3>2. sess' = [sess EXCEPT ![s] = d]
      BY <2>2 DEF Goto
    <3> HIDE DEF d
    <3> QED
      BY <2>1, <2>2, <3>1, <3>2, ConnectionMoves DEF AuthStates
  <2>3. ASSUME NEW b \in BOOLEAN, OpenMenu(s, FALSE, b), UNCHANGED <<registry, cancelled>>
        PROVE  SessionMoves(s)
    BY <2>1, <2>3, OpenMenuMoves
  <2>4. CASE Ended(s)
    BY <2>1, <2>4, EndedMoves
  <2> QED
    BY <1>5, <2>2, <2>3, <2>4 DEF CheckMFA
<1>6. ASSUME NEW right \in BOOLEAN, PerformSessionMFA(s, right)
      PROVE  SessionMoves(s)
  <2>1. Running(s) /\ c.at = "code"
    BY <1>6 DEF PerformSessionMFA, Running
  <2>2. ASSUME c.codes + 1 < MaxMfaAttempts, sess' = [sess EXCEPT ![s].codes = @ + 1],
               UNCHANGED <<menu, registry, cancelled>>
        PROVE  SessionMoves(s)
    <3> DEFINE d == [c EXCEPT !.codes = c.codes + 1]
    <3>1. c.codes \in 0..MaxMfaAttempts - 1
      BY DEF Connections
    <3>2. c.codes + 1 \in 0..MaxMfaAttempts - 1
      BY <2>2, <3>1, Limits
    <3>3. d \in Connections /\ d.at = "code"
      BY <2>1, <3>2 DEF Connections
    <3>4. sess' = [sess EXCEPT ![s] = d]
      BY <2>2
    <3> HIDE DEF d
    <3> QED
      BY <2>1, <2>2, <3>3, <3>4, ConnectionMoves DEF AuthStates
  <2>3. ASSUME OpenMenu(s, TRUE, FALSE), UNCHANGED <<registry, cancelled>>
        PROVE  SessionMoves(s)
    BY <2>1, <2>3, OpenMenuMoves
  <2>4. CASE Ended(s)
    BY <2>1, <2>4, EndedMoves
  <2> QED
    BY <1>6, <2>2, <2>3, <2>4 DEF PerformSessionMFA
<1>7. CASE CodeReadFails(s) \/ LeaveMenu(s)
  BY <1>7, EndedMoves DEF CodeReadFails, LeaveMenu, Running
<1> QED
  BY <1>3, <1>4, <1>5, <1>6, <1>7

LEMMA OneSessionMoves ==
  ASSUME ServerInv, NEW s \in Sessions,
         (\E i \in Instances : Connect(s, i)) \/ Session(s) \/ Client(s)
  PROVE  SessionMoves(s)
  BY AuthenticationMoves, InMenuMoves, RunningMoves DEF Session, Client

LEMMA ServerStep == ServerInv /\ [Next]_vars => ServerInv'
<1> SUFFICES ASSUME ServerInv, [Next]_vars
             PROVE  ServerInv'
  OBVIOUS
<1>1. ASSUME NEW s \in Sessions, SessionMoves(s)
      PROVE  ServerInv'
  <2>1. sess'[s] \in Connections /\ menu'[s] \in Menus
    BY <1>1 DEF SessionMoves, GoodSession, GoodMenu
  <2>2. sess' \in [Sessions -> Connections] /\ menu' \in [Sessions -> Menus]
    BY <1>1, <2>1 DEF SessionMoves, ServerInv
  <2>3. registry' \subseteq Sessions /\ cancelled' \subseteq Sessions
    BY <1>1 DEF SessionMoves, ServerInv
  <2>4. ASSUME NEW t \in Sessions, t # s
        PROVE  GoodSession(t)'
    <3>1. sess'[t] = sess[t] /\ menu'[t] = menu[t]
      BY <1>1, <2>4 DEF SessionMoves, ServerInv
    <3>2. (t \in registry' <=> t \in registry) /\ (t \in cancelled' <=> t \in cancelled)
      BY <1>1, <2>4 DEF SessionMoves
    <3> QED
      BY <3>1, <3>2 DEF GoodSession, Running, ServerInv
  <2> QED
    BY <1>1, <2>2, <2>3, <2>4 DEF ServerInv, SessionMoves
<1>2. ASSUME UNCHANGED <<menuVars, serverVars>>, user' \in UserForms \cup {NoUser},
             globalMFA' \in BOOLEAN
      PROVE  ServerInv'
  BY <1>2 DEF ServerInv, menuVars, serverVars, GoodSession, Running
<1>3. ASSUME NEW i \in Instances, CleanupExpiredSessions(i)
      PROVE  ServerInv'
  <2>1. registry' \subseteq registry /\ cancelled' = cancelled \cup (registry \ registry')
    BY <1>3 DEF CleanupExpiredSessions
  <2>2. UNCHANGED <<sess, menu, catalog, user, globalMFA>>
    BY <1>3 DEF CleanupExpiredSessions, menuVars, accountVars
  <2>3. ASSUME NEW s \in Sessions
        PROVE  GoodSession(s)'
    BY <2>1, <2>2 DEF ServerInv, GoodSession, Running
  <2> QED
    BY <2>1, <2>2, <2>3 DEF ServerInv
<1>4. ASSUME NEW i \in Instances, Stop(i)
      PROVE  ServerInv'
  <2>1. registry' = registry /\ cancelled \subseteq cancelled' /\ cancelled' \subseteq Sessions
    BY <1>4 DEF Stop, ServerInv
  <2>2. UNCHANGED <<menu, catalog, user, globalMFA>>
    BY <1>4 DEF Stop, menuVars, accountVars
  <2>3. ASSUME NEW s \in Sessions
        PROVE  /\ sess'[s] \in Connections /\ sess'[s].at = sess[s].at
               /\ sess'[s].tries = sess[s].tries
    <3>1. sess'[s] \in {sess[s], [sess[s] EXCEPT !.online = FALSE]}
      BY <1>4 DEF Stop
    <3>2. sess[s] \in Connections
      BY DEF ServerInv
    <3> QED
      BY <3>1, <3>2 DEF Connections
  <2>4. sess' \in [Sessions -> Connections]
    BY <1>4, <2>3 DEF Stop
  <2>5. ASSUME NEW s \in Sessions
        PROVE  GoodSession(s)'
    BY <2>1, <2>2, <2>3 DEF ServerInv, GoodSession, Running
  <2> QED
    BY <2>1, <2>2, <2>4, <2>5 DEF ServerInv
<1>5. ASSUME NEW i \in Instances, Exit(i)
      PROVE  ServerInv'
  <2> DEFINE mine == {s \in Sessions : sess[s].instance = i}
             gone == [NoSession EXCEPT !.at = "gone"]
  <2>1. registry' = registry \ mine /\ cancelled' = cancelled \ mine
    BY <1>5 DEF Exit
  <2>2. UNCHANGED <<catalog, user, globalMFA>>
    BY <1>5 DEF Exit, accountVars
  <2>3. /\ sess' = [s \in Sessions |-> IF s \in mine THEN gone ELSE sess[s]]
        /\ menu' = [s \in Sessions |-> IF s \in mine THEN NoMenu ELSE menu[s]]
    BY <1>5 DEF Exit
  <2>4. gone \in Connections /\ gone.at = "gone"
    <3>1. "gone" \in SessionStates
      BY DEF SessionStates
    <3>2. gone.at = "gone"
      BY DEF NoSession
    <3> QED
      BY <3>1, <3>2, NoSessionType
  <2> HIDE DEF mine, gone
  <2>5. NoMenu \in Menus /\ GoodMenu(NoMenu) /\ NoMenu.at = "closed"
    BY NoMenuGood DEF GoodMenu, NoMenu
  <2>6. sess' \in [Sessions -> Connections] /\ menu' \in [Sessions -> Menus]
    BY <2>3, <2>4, <2>5 DEF ServerInv
  <2>7. ASSUME NEW s \in Sessions
        PROVE  GoodSession(s)'
    <3>1. CASE s \in mine
      <4>1. sess'[s] = gone /\ menu'[s] = NoMenu /\ s \notin registry'
        BY <2>1, <2>3, <3>1
      <4> QED
        BY <2>4, <2>5, <4>1 DEF GoodSession, Running, AuthStates
    <3>2. CASE s \notin mine
      <4>1. /\ sess'[s] = sess[s] /\ menu'[s] = menu[s]
            /\ s \in registry' <=> s \in registry
            /\ s \in cancelled' <=> s \in cancelled
        BY <2>1, <2>3, <3>2
      <4> QED
        BY <4>1 DEF GoodSession, Running, ServerInv
    <3> QED
      BY <3>1, <3>2
  <2> QED
    BY <2>1, <2>2, <2>6, <2>7 DEF ServerInv
<1>6. CASE EditUser \/ UpdateGlobalConfig
  BY <1>2, <1>6 DEF EditUser, UpdateGlobalConfig, ServerInv
<1>7. CASE EditLists
  <2>1. UNCHANGED <<menu, serverVars, user, globalMFA>>
    BY <1>7 DEF EditLists, EditCatalog
  <2>2. catalog' \in Catalogs
    <3>1. catalog \in Catalogs
      BY DEF ServerInv
    <3>2. ASSUME NEW g \in HostGroups, catalog' = [catalog EXCEPT !.mine = Toggle(@, g)]
          PROVE  catalog' \in Catalogs
      BY <3>1, <3>2 DEF Catalogs, Toggle
    <3>3. ASSUME NEW g \in HostGroups, NEW h \in Hosts,
                 catalog' = [catalog EXCEPT !.members[g] = Toggle(@, h)]
          PROVE  catalog' \in Catalogs
      BY <3>1, <3>3 DEF Catalogs, Toggle
    <3> QED
      BY <1>7, <3>2, <3>3 DEF EditLists, EditCatalog
  <2> QED
    BY <2>1, <2>2 DEF ServerInv, serverVars, GoodSession, Running
<1>8. CASE UNCHANGED <<menuVars, serverVars, accountVars>>
  BY <1>2, <1>8 DEF ServerInv, accountVars
<1> QED
  BY <1>1, <1>3, <1>4, <1>5, <1>6, <1>7, <1>8, OneSessionMoves DEF Next, Elsewhere, vars

LEMMA ServerInit == Init => ServerInv
<1> SUFFICES ASSUME Init
             PROVE  ServerInv
  OBVIOUS
<1>1. NoSession \in Connections /\ NoSession.at = "idle" /\ NoSession.tries = 0
  <2>1. "idle" \in SessionStates
    BY DEF SessionStates
  <2> QED
    BY <2>1, Limits DEF NoSession, Connections
<1>2. GoodMenu(NoMenu) /\ NoMenu \in Menus /\ NoMenu.at = "closed"
  BY NoMenuGood DEF GoodMenu, NoMenu
<1>3. StartCatalog \in Catalogs
  BY GatewayAssumption
<1>4. ASSUME NEW s \in Sessions
      PROVE  GoodSession(s)
  BY <1>1, <1>2, Limits DEF Init, MenuInit, GoodSession, Running, AuthStates
<1> QED
  BY <1>1, <1>2, <1>3, <1>4 DEF Init, MenuInit, ServerInv

\* A number picks the host that bore it in the list last shown, for every
\* number of sessions, hosts and groups and every page size.
THEOREM PickedIsShownHolds == Spec => []PickedIsShown
<1>1. ServerInv => PickedIsShown
  BY DEF ServerInv, GoodSession, GoodMenu, PickedIsShown
<1> QED
  BY <1>1, ServerInit, ServerStep, PTL DEF Spec

-----------------------------------------------------------------------------
(* Logins.                                                                  *)

LEMMA UserFields ==
  ASSUME NEW u \in UserForms \cup {NoUser}
  PROVE  /\ u.known \in BOOLEAN /\ u.active \in BOOLEAN /\ u.twoFactor \in BOOLEAN
         /\ u.method \in {"", "password", "publickey"}
         /\ u.method = "publickey" => u.known
         /\ ~u.known => ~u.twoFactor /\ ~u.active
<1>1. UserForms \subseteq [known : {TRUE}, active : BOOLEAN, method : {"password", "publickey"},
                           key : {"", "k1", "k2"}, twoFactor : BOOLEAN]
  BY GatewayAssumption
<1>2. CASE u \in UserForms
  BY <1>1, <1>2
<1>3. CASE u = NoUser
  BY <1>3 DEF NoUser
<1> QED
  BY <1>2, <1>3

LEMMA AccountType ==
  ASSUME user \in UserForms \cup {NoUser}, globalMFA \in BOOLEAN
  PROVE  /\ Account \in [active : BOOLEAN, key : BOOLEAN]
         /\ Demands \in [global : BOOLEAN, own : BOOLEAN]
  BY UserFields DEF Account, Demands

\* What Remember makes of one session's history.
LEMMA Remembered ==
  ASSUME Remember, HistoryTypeOK, NEW s \in Sessions,
         Account' \in [active : BOOLEAN, key : BOOLEAN],
         Demands' \in [global : BOOLEAN, own : BOOLEAN]
  PROVE  /\ seen'[s] \in [active : BOOLEAN, key : BOOLEAN]
         /\ held'[s] \in [global : BOOLEAN, own : BOOLEAN]
         /\ sess'[s].at \in AuthStates => /\ Account'.active => seen'[s].active
                                          /\ Account'.key => seen'[s].key
         /\ sess'[s].at \in AuthStates \ {"auth"} => /\ seen[s].active => seen'[s].active
                                                     /\ seen[s].key => seen'[s].key
         /\ sess'[s].at \in {"open", "user", "config", "code"} => seen'[s] = seen[s]
         /\ sess'[s].at \notin AuthStates \cup {"idle", "open"} /\ sess[s].at # "menu" =>
              /\ held'[s].global => held[s].global /\ Demands'.global
              /\ held'[s].own => held[s].own /\ Demands'.own
         /\ sess[s].at = "menu" /\ sess'[s].at = "menu" => held'[s] = held[s]
<1> DEFINE either == [f \in DOMAIN Account |-> seen[s][f] \/ Account'[f]]
           both == [f \in DOMAIN Demands |-> held[s][f] /\ Demands'[f]]
<1>1. DOMAIN Account = {"active", "key"} /\ DOMAIN Demands = {"global", "own"}
  BY DEF Account, Demands
<1>2. /\ either = [active |-> seen[s].active \/ Account'.active,
                   key |-> seen[s].key \/ Account'.key]
      /\ both = [global |-> held[s].global /\ Demands'.global,
                 own |-> held[s].own /\ Demands'.own]
  BY <1>1
<1>3. seen'[s] = CASE sess'[s].at = "auth" -> Account'
                   [] sess'[s].at \in AuthStates \ {"auth"} -> either
                   [] sess'[s].at \in {"menu", "ended", "gone"} -> NothingSeen
                   [] OTHER -> seen[s]
  BY DEF Remember
<1>4. held'[s] = IF sess'[s].at \in AuthStates \cup {"idle", "open"} THEN Demands'
                 ELSE IF sess[s].at = "menu" THEN held[s] ELSE both
  BY DEF Remember
<1> HIDE DEF either, both
<1>15. /\ either.active <=> (seen[s].active \/ Account'.active)
       /\ either.key <=> (seen[s].key \/ Account'.key)
       /\ both.global <=> (held[s].global /\ Demands'.global)
       /\ both.own <=> (held[s].own /\ Demands'.own)
  BY <1>2
<1>5. seen[s] \in [active : BOOLEAN, key : BOOLEAN] /\ held[s] \in [global : BOOLEAN, own : BOOLEAN]
  BY DEF HistoryTypeOK
<1>6. /\ sess'[s].at = "auth" => seen'[s] = Account'
      /\ sess'[s].at \in AuthStates \ {"auth"} => seen'[s] = either
      /\ sess'[s].at \in {"menu", "ended", "gone"} => seen'[s] = NothingSeen
      /\ sess'[s].at \notin AuthStates \cup {"menu", "ended", "gone"} => seen'[s] = seen[s]
  BY <1>3 DEF AuthStates
<1>7. /\ sess'[s].at \in AuthStates \cup {"idle", "open"} => held'[s] = Demands'
      /\ sess'[s].at \notin AuthStates \cup {"idle", "open"} /\ sess[s].at = "menu" => held'[s] = held[s]
      /\ sess'[s].at \notin AuthStates \cup {"idle", "open"} /\ sess[s].at # "menu" => held'[s] = both
  BY <1>4
<1>8. either \in [active : BOOLEAN, key : BOOLEAN] /\ both \in [global : BOOLEAN, own : BOOLEAN]
  BY <1>2, <1>5
<1>9. NothingSeen \in [active : BOOLEAN, key : BOOLEAN]
  BY DEF NothingSeen
<1>10. seen'[s] \in [active : BOOLEAN, key : BOOLEAN]
  BY <1>5, <1>6, <1>8, <1>9
<1>11. held'[s] \in [global : BOOLEAN, own : BOOLEAN]
  BY <1>5, <1>7, <1>8
<1>12. sess'[s].at \in AuthStates => /\ Account'.active => seen'[s].active
                                     /\ Account'.key => seen'[s].key
  BY <1>2, <1>6
<1>13. sess'[s].at \in AuthStates \ {"auth"} => /\ seen[s].active => seen'[s].active
                                                /\ seen[s].key => seen'[s].key
  BY <1>15, <1>6, Zenon
<1>14. sess'[s].at \notin AuthStates \cup {"idle", "open"} /\ sess[s].at # "menu" =>
         /\ held'[s].global => held[s].global /\ Demands'.global
         /\ held'[s].own => held[s].own /\ Demands'.own
  BY <1>15, <1>7, Zenon
<1> QED
  BY <1>6, <1>7, <1>10, <1>11, <1>12, <1>13, <1>14 DEF AuthStates

\* A session whose stage does not change keeps a good login, whatever happens to
\* the account.
LEMMA SameStage ==
  ASSUME Remember, HistoryTypeOK, NEW s \in Sessions, GoodLogin(s),
         Account' \in [active : BOOLEAN, key : BOOLEAN],
         Demands' \in [global : BOOLEAN, own : BOOLEAN],
         sess'[s].at = sess[s].at, sess'[s].copy = sess[s].copy,
         sess'[s].proof = sess[s].proof, sess'[s].blind = sess[s].blind,
         sess'[s].verified = sess[s].verified
  PROVE  GoodLogin(s)'
<1>1. sess'[s].at \in AuthStates =>
        /\ Account'.active => seen'[s].active
        /\ Account'.key => seen'[s].key
        /\ sess'[s].at = "key" /\ sess'[s].copy.active => seen'[s].active
  BY Remembered DEF GoodLogin, AuthStates
<1>2. sess'[s].at \in {"open", "user", "config", "code"} =>
        seen'[s].active /\ (sess'[s].proof = "key" => seen'[s].key)
  BY Remembered DEF GoodLogin
<1>3. sess'[s].at \in {"config", "code"} /\ held'[s].own => sess'[s].copy.twoFactor
  BY Remembered DEF GoodLogin, AuthStates
<1>4. sess'[s].at = "menu" /\ ~sess'[s].blind /\ (held'[s].global \/ held'[s].own) =>
        sess'[s].verified
  BY Remembered DEF GoodLogin
<1> QED
  BY <1>1, <1>2, <1>3, <1>4 DEF GoodLogin

\* A step of the session itself.
LEMMA OwnStep ==
  ASSUME ServerInv, Remember, HistoryTypeOK, NEW s \in Sessions, GoodLogin(s),
         (\E i \in Instances : Connect(s, i)) \/ Session(s) \/ Client(s)
  PROVE  GoodLogin(s)'
<1> DEFINE c == sess[s]
           d == sess'[s]
<1>1. c \in Connections /\ DOMAIN sess = Sessions /\ UNCHANGED <<user, globalMFA>>
  BY OneSessionMoves DEF SessionMoves, ServerInv
<1>2. /\ Account \in [active : BOOLEAN, key : BOOLEAN]
      /\ Demands \in [global : BOOLEAN, own : BOOLEAN]
      /\ Account' = Account /\ Demands' = Demands
  BY <1>1, AccountType DEF ServerInv, Account, Demands
<1>3. /\ user.known \in BOOLEAN /\ user.active \in BOOLEAN /\ user.twoFactor \in BOOLEAN
      /\ user.method \in {"", "password", "publickey"}
      /\ user.method = "publickey" => user.known
      /\ ~user.known => ~user.twoFactor
  BY UserFields DEF ServerInv
<1>4. /\ d.at \in AuthStates => /\ Account.active => seen'[s].active
                                /\ Account.key => seen'[s].key
      /\ d.at \in AuthStates \ {"auth"} => (seen[s].active => seen'[s].active)
      /\ d.at \in {"open", "user", "config", "code"} => seen'[s] = seen[s]
      /\ d.at \notin AuthStates \cup {"idle", "open"} /\ c.at # "menu" =>
           /\ held'[s].global => held[s].global /\ Demands.global
           /\ held'[s].own => held[s].own /\ Demands.own
      /\ c.at = "menu" /\ d.at = "menu" => held'[s] = held[s]
  BY <1>2, Remembered
<1>5. (Account.active <=> user.active) /\ (Demands.own <=> user.twoFactor)
      /\ (Demands.global <=> user.known /\ globalMFA)
      /\ (Account.key <=> user.method = "publickey" /\ user.key # "")
  BY <1>1 DEF Account, Demands
<1>6. ASSUME d.at \in {"auth", "method", "status", "refused", "ended"}
      PROVE  GoodLogin(s)'
  BY <1>2, <1>4, <1>6 DEF GoodLogin, AuthStates
<1>7. ASSUME Rejected(s)
      PROVE  GoodLogin(s)'
  BY <1>1, <1>6, <1>7 DEF Rejected, Connections
<1>8. ASSUME NEW at \in {"method", "status", "refused"}, Goto(s, at)
      PROVE  GoodLogin(s)'
  BY <1>1, <1>6, <1>8 DEF Goto, Connections
<1>9. CASE Ended(s)
  BY <1>1, <1>6, <1>9 DEF Ended, NoSession
<1>10. ASSUME NEW v \in BOOLEAN, NEW b \in BOOLEAN, OpenMenu(s, v, b), c.at # "menu",
              v \/ b \/ ~((held[s].global /\ Demands.global) \/ (held[s].own /\ Demands.own))
       PROVE  GoodLogin(s)'
  <2>1. d.at = "menu" /\ d.verified = v /\ d.blind = b
    BY <1>1, <1>10 DEF OpenMenu, Connections
  <2> QED
    BY <1>4, <1>10, <2>1 DEF GoodLogin, AuthStates
<1>11. ASSUME NEW i \in Instances, Connect(s, i)
       PROVE  GoodLogin(s)'
  BY <1>1, <1>6, <1>11 DEF Connect, Connections
<1>12. ASSUME NEW right \in BOOLEAN, HandlePasswordAuth(s, right)
       PROVE  GoodLogin(s)'
  <2>1. CASE user.active /\ Accepted(s, "password")
    <3>1. d.at = "open" /\ d.proof = "password" /\ c.at = "auth"
      BY <1>1, <1>12, <2>1 DEF HandlePasswordAuth, Accepted, Connections
    <3> QED
      BY <1>4, <1>5, <2>1, <3>1 DEF GoodLogin, AuthStates
  <2> QED
    BY <1>7, <1>12, <2>1 DEF HandlePasswordAuth, ValidatePassword
<1>13. CASE HandlePublicKeyAuth(s) \/ CanHandle(s) \/ GiveUp(s)
  BY <1>7, <1>8, <1>13 DEF HandlePublicKeyAuth, CanHandle, GiveUp
<1>14. CASE ReadStatus(s)
  <2>1. CASE user.known
    <3>1. d.at = "key" /\ d.copy = user
      <4>1. sess' = [sess EXCEPT ![s].copy = user, ![s].at = "key"]
        BY <1>14, <2>1 DEF ReadStatus
      <4> QED
        BY <1>1, <4>1 DEF Connections
    <3> QED
      BY <1>2, <1>4, <1>5, <3>1 DEF GoodLogin, AuthStates
  <2> QED
    BY <1>7, <1>14, <2>1 DEF ReadStatus
<1>15. ASSUME NEW offered \in {"k1", "k2"}, Authenticate(s, offered)
       PROVE  GoodLogin(s)'
  <2>1. CASE GetUserPublicKey # "" /\ c.copy.active /\ Accepted(s, "key")
    <3>1. d.at = "open" /\ d.proof = "key" /\ c.at = "key"
      BY <1>1, <1>15, <2>1 DEF Authenticate, Accepted, Connections
    <3>2. Account.key
      BY <1>3, <1>5, <2>1 DEF GetUserPublicKey
    <3> QED
      BY <1>4, <2>1, <3>1, <3>2 DEF GoodLogin, AuthStates
  <2> QED
    BY <1>7, <1>15, <2>1 DEF Authenticate
<1>16. CASE BeginSession(s)
  <2>1. d.at = "user" /\ d.proof = c.proof /\ c.at = "open"
    BY <1>1, <1>16 DEF BeginSession, Connections
  <2> QED
    BY <1>4, <2>1 DEF GoodLogin, AuthStates
<1>17. CASE ReadSessionUser(s)
  <2>1. c.at = "user"
    BY <1>17 DEF ReadSessionUser
  <2>2. ASSUME user.known, sess' = [sess EXCEPT ![s].at = "config", ![s].copy = user]
        PROVE  GoodLogin(s)'
    <3>1. d.at = "config" /\ d.copy = user /\ d.proof = c.proof
      BY <1>1, <2>2 DEF Connections
    <3> QED
      BY <1>4, <1>5, <2>1, <3>1 DEF GoodLogin, AuthStates
  <2>3. ASSUME ~user.known, OpenMenu(s, FALSE, FALSE)
        PROVE  GoodLogin(s)'
    BY <1>3, <1>5, <1>10, <2>1, <2>3
  <2>4. ASSUME OpenMenu(s, FALSE, TRUE)
        PROVE  GoodLogin(s)'
    BY <1>10, <2>1, <2>4
  <2> QED
    BY <1>17, <2>2, <2>3, <2>4 DEF ReadSessionUser
<1>18. CASE CheckMFA(s)
  <2>1. c.at = "config"
    BY <1>18 DEF CheckMFA
  <2>2. CASE Goto(s, "code")
    <3>1. d.at = "code" /\ d.copy = c.copy /\ d.proof = c.proof
      BY <1>1, <2>2 DEF Goto, Connections
    <3> QED
      BY <1>4, <2>1, <3>1 DEF GoodLogin, AuthStates
  <2>3. ASSUME NEW failed \in BOOLEAN, ~(globalMFA /\ ~failed), ~c.copy.twoFactor,
               OpenMenu(s, FALSE, failed)
        PROVE  GoodLogin(s)'
    <3>1. ~held[s].own
      BY <2>1, <2>3 DEF GoodLogin
    <3>2. failed \/ ~Demands.global
      BY <1>5, <2>3
    <3> QED
      BY <1>10, <2>1, <2>3, <3>1, <3>2
  <2> QED
    BY <1>9, <1>18, <2>2, <2>3 DEF CheckMFA
<1>19. ASSUME NEW right \in BOOLEAN, PerformSessionMFA(s, right)
       PROVE  GoodLogin(s)'
  <2>1. c.at = "code"
    BY <1>19 DEF PerformSessionMFA
  <2>2. CASE OpenMenu(s, TRUE, FALSE)
    BY <1>10, <2>1, <2>2
  <2>3. CASE sess' = [sess EXCEPT ![s].codes = @ + 1]
    <3>1. d.at = "code" /\ d.copy = c.copy /\ d.proof = c.proof
      BY <1>1, <2>1, <2>3 DEF Connections
    <3> QED
      BY <1>4, <2>1, <3>1 DEF GoodLogin, AuthStates
  <2> QED
    BY <1>9, <1>19, <2>2, <2>3 DEF PerformSessionMFA
<1>20. CASE CodeReadFails(s) \/ LeaveMenu(s)
  BY <1>9, <1>20 DEF CodeReadFails, LeaveMenu
<1>21. CASE InMenu(s) \/ Command(s) \/ HangUp(s)
  <2>1. /\ d.at = c.at /\ d.copy = c.copy /\ d.proof = c.proof
        /\ d.blind = c.blind /\ d.verified = c.verified
    BY <1>1, <1>21 DEF InMenu, Command, serverVars, HangUp, Connections
  <2> QED
    BY <1>2, <2>1, SameStage
<1> QED
  BY <1>11, <1>12, <1>13, <1>14, <1>15, <1>16, <1>17, <1>18, <1>19, <1>20, <1>21
     DEF Session, Client

LEMMA LoginStep == ServerInv /\ LoginStateInv /\ [Next]_vars => LoginStateInv'
<1> SUFFICES ASSUME ServerInv, LoginStateInv, [Next]_vars
             PROVE  LoginStateInv'
  OBVIOUS
<1>1. CASE UNCHANGED vars
  BY <1>1 DEF vars, serverVars, accountVars, LoginStateInv, HistoryTypeOK, GoodLogin, Account
<1>2. CASE Next
  <2>1. Remember /\ HistoryTypeOK
    BY <1>2 DEF Next, LoginStateInv
  <2>2. ServerInv'
    BY ServerStep
  <2>3. /\ Account' \in [active : BOOLEAN, key : BOOLEAN]
        /\ Demands' \in [global : BOOLEAN, own : BOOLEAN]
    <3>1. user' \in UserForms \cup {NoUser} /\ globalMFA' \in BOOLEAN
      BY <2>2 DEF ServerInv
    <3>2. /\ user'.known \in BOOLEAN /\ user'.active \in BOOLEAN /\ user'.twoFactor \in BOOLEAN
      BY <3>1, UserFields
    <3> QED
      BY <3>1, <3>2 DEF Account, Demands
  <2>4. HistoryTypeOK'
    <3>1. \A s \in Sessions : /\ seen'[s] \in [active : BOOLEAN, key : BOOLEAN]
                              /\ held'[s] \in [global : BOOLEAN, own : BOOLEAN]
      BY <2>1, <2>3, Remembered
    <3> QED
      BY <2>1, <3>1 DEF Remember, HistoryTypeOK
  <2>5. ASSUME NEW s \in Sessions,
               /\ sess'[s].at = sess[s].at /\ sess'[s].copy = sess[s].copy
               /\ sess'[s].proof = sess[s].proof /\ sess'[s].blind = sess[s].blind
               /\ sess'[s].verified = sess[s].verified
        PROVE  GoodLogin(s)'
    BY <2>1, <2>3, <2>5, SameStage DEF LoginStateInv
  <2>6. ASSUME NEW t \in Sessions,
               (\E i \in Instances : Connect(t, i)) \/ Session(t) \/ Client(t),
               NEW s \in Sessions
        PROVE  GoodLogin(s)'
    <3>1. CASE s = t
      BY <2>1, <2>6, <3>1, OwnStep DEF LoginStateInv
    <3>2. CASE s # t
      <4>1. sess'[s] = sess[s]
        BY <2>6, <3>2, OneSessionMoves DEF SessionMoves, ServerInv
      <4> QED
        BY <2>5, <4>1
    <3> QED
      BY <3>1, <3>2
  <2>7. ASSUME NEW i \in Instances, Stop(i), NEW s \in Sessions
        PROVE  GoodLogin(s)'
    <3>1. sess'[s] \in {sess[s], [sess[s] EXCEPT !.online = FALSE]} /\ sess[s] \in Connections
      BY <2>7 DEF Stop, ServerInv
    <3> QED
      BY <2>5, <3>1 DEF Connections
  <2>8. ASSUME NEW i \in Instances, Exit(i), NEW s \in Sessions
        PROVE  GoodLogin(s)'
    <3>1. sess'[s] = sess[s] \/ sess'[s].at = "gone"
      BY <2>8 DEF Exit, NoSession
    <3> QED
      BY <2>5, <3>1 DEF GoodLogin, AuthStates
  <2>9. ASSUME UNCHANGED sess, NEW s \in Sessions
        PROVE  GoodLogin(s)'
    BY <2>5, <2>9
  <2>10. \A s \in Sessions : GoodLogin(s)'
    BY <1>2, <2>6, <2>7, <2>8, <2>9 DEF Next, CleanupExpiredSessions, EditUser,
       UpdateGlobalConfig, EditLists, Elsewhere, serverVars
  <2> QED
    BY <2>4, <2>10 DEF LoginStateInv
<1> QED
  BY <1>1, <1>2

LEMMA LoginInit == Init => LoginStateInv
<1> SUFFICES ASSUME Init
             PROVE  LoginStateInv
  OBVIOUS
<1>1. Demands \in [global : BOOLEAN, own : BOOLEAN]
  BY AccountType DEF Init
<1>2. NothingSeen \in [active : BOOLEAN, key : BOOLEAN]
  BY DEF NothingSeen
<1>3. HistoryTypeOK
  BY <1>1, <1>2 DEF Init, HistoryTypeOK
<1>4. \A s \in Sessions : GoodLogin(s)
  BY DEF Init, GoodLogin, NoSession, AuthStates
<1> QED
  BY <1>3, <1>4 DEF LoginStateInv

\* Who is let in had an active account since the attempt began, with the key it
\* was let in by, and no menu opens without the second factor that was demanded
\* from the login on: for every number of sessions, users and changes.
THEOREM LoginGuardedHolds == Spec => []LoginGuarded
<1>1. LoginStateInv => LoginGuarded
  BY DEF LoginStateInv, GoodLogin, LoginGuarded, LoginEntitled, SecondFactorHeld
<1> QED
  BY <1>1, ServerInit, ServerStep, LoginInit, LoginStep, PTL DEF Spec

\* The registry of sessions and the type of all the server's state, through the
\* sweep, Stop, exits and the end of sessions in every order.
THEOREM GatewaySoundHolds == Spec => []GatewaySound
<1>1. Init => HostKeyTypeOK
  BY HostKeyAssumption DEF Init, HostKeyInit, HostKeyTypeOK, Keys, ShippedKey, NoKey,
     InstanceStates
<1>2. HostKeyTypeOK /\ ServerInv /\ LoginStateInv => GatewaySound
  <2> SUFFICES ASSUME HostKeyTypeOK, ServerInv, LoginStateInv
               PROVE  GatewaySound
    OBVIOUS
  <2>1. MenuTypeOK
    BY DEF ServerInv, GoodSession, GoodMenu, MenuTypeOK
  <2>2. RegistryHoldsLive
    BY DEF ServerInv, GoodSession, RegistryHoldsLive
  <2>3. \A s \in Sessions : menu[s].at = "closed" <=> sess[s].at # "menu"
    BY DEF ServerInv, GoodSession
  <2> QED
    BY <2>1, <2>2, <2>3 DEF ServerInv, LoginStateInv, HistoryTypeOK, GatewaySound, TypeOK
<1> QED
  BY <1>1, <1>2, NextKeys, KeyTypeStep, ServerInit, ServerStep, LoginInit, LoginStep, PTL DEF Spec

=============================================================================

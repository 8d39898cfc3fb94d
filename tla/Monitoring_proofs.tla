--------------------------- MODULE Monitoring_proofs ---------------------------
(***************************************************************************)
(* Proofs about what watches the hosts and the proxies: the check of the      *)
(* hosts (HostCheck), for every set of instances and hosts and every expiry    *)
(* longer than the renewal period; the ticker that starts it (HostMonitor),    *)
(* for any number of concurrent reloads; and the registry of the proxies       *)
(* (ProxyRegistry), for any number of agents, requests and monitors.           *)
(***************************************************************************)
EXTENDS HostCheck, HostMonitor, ProxyRegistry, TLAPS

LEMMA LessBounds ==
  ASSUME NEW b \in Nat, NEW m \in 0 .. b, NEW n \in Nat
  PROVE  /\ Less(m, n) \in 0 .. b
         /\ Less(m, n) <= m
         /\ n = 1 /\ m > 0 => Less(m, n) = m - 1
  BY DEF Less

-----------------------------------------------------------------------------
(* Types.                                                                   *)

LEMMA TypeStep == TypeOK /\ [Next]_vars => TypeOK'
<1> SUFFICES ASSUME TypeOK, [Next]_vars
             PROVE  TypeOK'
  OBVIOUS
<1> USE HostCheckAssumption DEF TypeOK, LockType, TimerType, HostType
<1>1. CASE UNCHANGED vars
  BY <1>1 DEF vars
<1>2. CASE Tick \/ Pause
  <2>1. PICK n \in Nat : Advance(n)
    BY <1>2 DEF Tick, Pause
  <2>0. faults' \in Nat
    BY <1>2 DEF Tick, Pause, Fault
  <2>2. due' \in [Instances -> 0 .. Period]
    BY <2>1, LessBounds DEF Advance
  <2>3. wait' \in [Instances -> 0 .. Interval]
    BY <2>1, LessBounds DEF Advance
  <2>4. ttl' \in 0 .. Expiry /\ key' \in Instances \cup {None}
    BY <2>1, LessBounds DEF Advance
  <2> QED
    BY <2>0, <2>1, <2>2, <2>3, <2>4 DEF Advance, check, hand
<1>3. ASSUME NEW i \in Instances, Step(i)
      PROVE  TypeOK'
  <2>1. CASE StartCheck(i)
    <3>1. LockType'
      BY <2>1 DEF StartCheck, Lease
    <3>2. wait' \in [Instances -> 0 .. Interval]
      BY <2>1 DEF StartCheck, TakeTick
    <3>3. TimerType'
      <4>1. Period \in 0 .. Period
        OBVIOUS
      <4>2. due' \in [Instances -> 0 .. Period]
        BY <2>1, <4>1 DEF StartCheck
      <4> QED
        BY <2>1, <3>2, <4>2 DEF StartCheck
    <3>4. HostType'
      BY <2>1 DEF StartCheck, hand
    <3> QED
      BY <3>1, <3>3, <3>4
  <2>2. CASE SkipCheck(i)
    <3>1. LockType'
      BY <2>2 DEF SkipCheck, Fault, lock
    <3>2. TimerType'
      BY <2>2 DEF SkipCheck, TakeTick, check
    <3>3. HostType'
      BY <2>2 DEF SkipCheck, check, hand
    <3> QED
      BY <3>1, <3>2, <3>3
  <2>3. CASE AutoRenew(i)
    <3>1. LockType'
      BY <2>3 DEF AutoRenew, Fault
    <3>2. TimerType'
      <4>0. Period \in 0 .. Period
        OBVIOUS
      <4>1. due' \in [Instances -> 0 .. Period]
        <5>1. due' = [due EXCEPT ![i] = Period] \/ due' = due
          BY <2>3 DEF AutoRenew
        <5> QED
          BY <4>0, <5>1
      <4>2. renew' \in [Instances -> {"on", "off"}]
        BY <2>3 DEF AutoRenew
      <4>3. UNCHANGED <<phase, wait>>
        BY <2>3 DEF AutoRenew, check
      <4> QED
        BY <4>1, <4>2, <4>3
    <3>3. HostType'
      BY <2>3 DEF AutoRenew, check, hand
    <3> QED
      BY <3>1, <3>2, <3>3
  <2>4. CASE Unlock(i)
    BY <2>4 DEF Unlock, lock, hand
  <2>5. CASE EndCheck(i)
    BY <2>5 DEF EndCheck, lock, timers, hand
  <2>6. CASE Crash(i) \/ Restart(i)
    <3>1. LockType'
      BY <2>6 DEF Crash, Restart, Fault, lock
    <3>2. TimerType'
      <4>1. CASE Crash(i)
        BY <4>1 DEF Crash
      <4>2. CASE Restart(i)
        BY <4>2 DEF Restart
      <4> QED
        BY <2>6, <4>1, <4>2
    <3>3. HostType'
      BY <2>6 DEF Crash, Restart, hand
    <3> QED
      BY <3>1, <3>2, <3>3
  <2>7. ASSUME NEW h \in Hosts, UpdateStatus(i, h)
        PROVE  TypeOK'
    <3>1. status' \in [Hosts -> Status] /\ faults' \in Nat
      BY <2>7 DEF UpdateStatus, Fault, Status
    <3> QED
      BY <2>7, <3>1 DEF UpdateStatus, lock, timers, hand
  <2>8. ASSUME NEW h \in Hosts, NEW r \in Result, Probe(i, h, r)
        PROVE  TypeOK'
    BY <2>8 DEF Probe, lock, timers, hand, Status
  <2>9. CASE LoadHosts(i)
    <3>1. snap' \in [Instances -> [Hosts -> Status]]
      BY <2>9 DEF LoadHosts
    <3>2. probe' \in [Instances -> [Hosts -> {"todo", "done"} \cup Result]]
      BY <2>9 DEF LoadHosts
    <3>3. LockType'
      BY <2>9 DEF LoadHosts, Fault, lock
    <3>4. TimerType'
      BY <2>9 DEF LoadHosts, timers
    <3>5. HostType'
      BY <2>9, <3>1, <3>2 DEF LoadHosts, hand
    <3> QED
      BY <3>3, <3>4, <3>5
  <2> QED
    BY <1>3, <2>1, <2>2, <2>3, <2>4, <2>5, <2>6, <2>7, <2>8, <2>9 DEF Step
<1>4. ASSUME NEW h \in Hosts, UpdateNow(h)
      PROVE  TypeOK'
  <2>1. status' \in [Hosts -> Status] /\ faults' \in Nat
    BY <1>4 DEF UpdateNow, Fault, Status
  <2> QED
    BY <1>4, <2>1 DEF UpdateNow, lock, check, timers
<1>5. ASSUME NEW h \in Hosts, NEW r \in Result, ProbeNow(h, r)
      PROVE  TypeOK'
  BY <1>5 DEF ProbeNow, lock, check, timers, Status
<1> QED
  BY <1>1, <1>2, <1>3, <1>4, <1>5 DEF Next

\* Every reachable state is well typed: in particular no lease and no timer
\* exceeds what was asked for.
THEOREM TypeCorrect == Spec => []TypeOK
<1>1. Init => TypeOK
  BY HostCheckAssumption
  DEF Init, TypeOK, LockType, TimerType, HostType, Status
<1> QED
  BY <1>1, TypeStep, PTL DEF Spec

-----------------------------------------------------------------------------
(* Mutual exclusion.                                                        *)

LEMMA LeaseStep == TypeOK /\ LeaseInv /\ [Next]_vars => LeaseInv'
<1> SUFFICES ASSUME TypeOK, LeaseInv, [Next]_vars, faults' = 0
             PROVE  LeaseInv'
  BY DEF LeaseInv
<1> USE HostCheckAssumption DEF TypeOK, LockType, TimerType, LeaseInv
<1>0. faults = 0
  BY DEF Next, Tick, Pause, Step, StartCheck, SkipCheck, AutoRenew, Unlock,
         LoadHosts, EndCheck, Crash, Restart, UpdateStatus, Probe, UpdateNow,
         ProbeNow,
         Fault, vars
<1>1. CASE UNCHANGED <<key, ttl, phase, renew, due>>
  BY <1>0, <1>1
<1>2. CASE Tick
  <2>1. ASSUME NEW i \in Instances, phase[i] \in {"load", "check", "unlock"}
        PROVE  due[i] > 0 /\ ttl > 1 /\ due'[i] = due[i] - 1 /\ ttl' = ttl - 1
    <3>1. due[i] > 0 /\ ttl > 1
      BY <1>0, <1>2, <2>1 DEF Tick
    <3>2. due'[i] = Less(due[i], 1) /\ ttl' = Less(ttl, 1)
      BY <1>2 DEF Tick, Advance
    <3>3. due[i] \in Nat /\ ttl \in Nat
      OBVIOUS
    <3> QED
      BY <3>1, <3>2, <3>3 DEF Less
  <2> QED
    BY <1>0, <1>2, <2>1 DEF Tick, Advance, check
<1>3. CASE Pause
  BY <1>0, <1>3 DEF Pause, Fault
<1>4. ASSUME NEW i \in Instances, Step(i)
      PROVE  LeaseInv'
  <2>1. CASE StartCheck(i)
    <3>1. \A j \in Instances : phase[j] \notin {"load", "check", "unlock"}
      BY <1>0, <2>1 DEF StartCheck, Free
    <3> QED
      BY <2>1, <3>1 DEF StartCheck, Lease
  <2>2. CASE AutoRenew(i)
    <3>1. CASE Owned(i)
      BY <1>0, <2>2, <3>1 DEF AutoRenew, Owned, check, Fault
    <3>2. CASE ~Owned(i)
      BY <1>0, <2>2, <3>2 DEF AutoRenew, Owned, check, Fault
    <3> QED
      BY <3>1, <3>2
  <2>3. CASE Unlock(i)
    BY <1>0, <2>3 DEF Unlock, lock
  <2>4. CASE EndCheck(i) \/ LoadHosts(i)
    BY <1>0, <2>4 DEF EndCheck, LoadHosts, lock, timers
  <2>5. CASE Crash(i)
    BY <1>0, <2>5 DEF Crash, Fault
  <2>6. CASE Restart(i)
    BY <1>0, <2>6 DEF Restart, lock
  <2>7. CASE SkipCheck(i) \/ \E h \in Hosts :
               UpdateStatus(i, h) \/ (\E r \in Result : Probe(i, h, r))
    BY <1>1, <2>7 DEF SkipCheck, UpdateStatus, Probe, lock, check, timers
  <2> QED
    BY <1>4, <2>1, <2>2, <2>3, <2>4, <2>5, <2>6, <2>7 DEF Step
<1>5. CASE \E h \in Hosts : UpdateNow(h) \/ (\E r \in Result : ProbeNow(h, r))
  BY <1>1, <1>5 DEF UpdateNow, ProbeNow, lock, check, timers
<1>6. CASE UNCHANGED vars
  BY <1>1, <1>6 DEF vars
<1> QED
  BY <1>2, <1>3, <1>4, <1>5, <1>6 DEF Next

LEMMA LeaseInit == Init => LeaseInv
  BY DEF Init, LeaseInv

LEMMA LeaseExcludes == LeaseInv => OneChecker
  BY DEF LeaseInv, OneChecker, Checking

\* While no Redis call fails and no process is paused or dies, at most one
\* instance checks the hosts at a time, however long a check takes.
THEOREM OneCheckerHolds == Spec => []OneChecker
  BY LeaseInit, LeaseStep, LeaseExcludes, TypeCorrect, PTL DEF Spec

-----------------------------------------------------------------------------
(* The hosts' rows.                                                         *)

\* Only one instance checks, so what it read is what the row still holds.
LEMMA RowsStep ==
  TypeOK /\ LeaseInv /\ OneChecker /\ RowsInv /\ [Next]_vars => RowsInv'
<1> SUFFICES ASSUME TypeOK, LeaseInv, OneChecker, RowsInv, [Next]_vars
             PROVE  RowsInv'
  OBVIOUS
<1>1. (asked = 0 => \A h \in Hosts : manual[h] = "none")'
  <2>1. CASE UNCHANGED <<asked, manual>>
    BY <2>1 DEF RowsInv
  <2>2. ASSUME NEW h \in Hosts, UpdateNow(h)
        PROVE  asked' # 0
    BY <2>2 DEF UpdateNow, RowsInv
  <2>3. ASSUME NEW h \in Hosts, NEW r \in Result, ProbeNow(h, r)
        PROVE  asked' # 0
    BY <2>3 DEF ProbeNow, TypeOK, HostType
  <2>4. CASE Tick \/ Pause \/ \E i \in Instances : Step(i)
    BY <2>1, <2>4
    DEF Tick, Pause, Advance, Step, StartCheck, SkipCheck, AutoRenew, Unlock,
        LoadHosts, EndCheck, Crash, Restart, UpdateStatus, Probe, hand
  <2>5. CASE UNCHANGED vars
    BY <2>1, <2>5 DEF vars
  <2> QED
    BY <2>2, <2>3, <2>4, <2>5 DEF Next
<1>2. SUFFICES ASSUME faults' = 0, asked' = 0, NEW h \in Hosts
               PROVE  RowInv(h)'
  BY <1>1 DEF RowsInv
<1>3. faults = 0
  BY <1>2 DEF Next, Tick, Pause, Step, StartCheck, SkipCheck, AutoRenew, Unlock,
         LoadHosts, EndCheck, Crash, Restart, UpdateStatus, Probe, UpdateNow,
         ProbeNow,
         Fault, vars, TypeOK, LockType
<1>4. asked = 0 /\ ~(\E g \in Hosts, r \in Result : ProbeNow(g, r))
  BY <1>2 DEF Next, Tick, Pause, Advance, Step, StartCheck, SkipCheck,
         AutoRenew, Unlock, LoadHosts, EndCheck, Crash, Restart, UpdateStatus, Probe,
         UpdateNow, ProbeNow, hand, vars, TypeOK, HostType
<1>5. ~(\E g \in Hosts : UpdateNow(g))
  BY <1>4 DEF RowsInv, UpdateNow
<1>6. RowInv(h)
  BY <1>3, <1>4 DEF RowsInv
<1>7. CASE Checking' = Checking /\ UNCHANGED <<snap, probe, status, last>>
  BY <1>6, <1>7 DEF RowInv
<1>8. CASE Tick \/ Pause \/ UNCHANGED vars
  BY <1>7, <1>8 DEF Tick, Pause, Advance, check, vars, Checking
<1>9. ASSUME NEW i \in Instances, Step(i)
      PROVE  RowInv(h)'
  <2>1. CASE LoadHosts(i)
    <3>1. Checking = {} /\ UNCHANGED faults
      BY <1>2, <1>3, <2>1 DEF LoadHosts, Fault, LeaseInv, Checking
    <3>2. Checking' = {i}
      BY <1>3, <2>1, <3>1 DEF LoadHosts, Fault, Checking, TypeOK, TimerType
    <3>3. probe'[i][h] = "todo" /\ snap'[i][h] = status[h]
      BY <1>3, <2>1, <3>1 DEF LoadHosts, Fault, TypeOK, HostType
    <3> QED
      BY <1>6, <2>1, <3>1, <3>2, <3>3 DEF LoadHosts, RowInv, Result
  <2>2. CASE StartCheck(i) \/ SkipCheck(i) \/ AutoRenew(i) \/ Unlock(i) \/ Restart(i)
    <3>1. \A j \in Instances : phase'[j] = "check" <=> phase[j] = "check"
      BY <2>2 DEF StartCheck, TakeTick, SkipCheck, AutoRenew, Unlock, Restart,
                  check, TypeOK, TimerType
    <3> QED
      BY <1>7, <2>2, <3>1
      DEF StartCheck, SkipCheck, AutoRenew, Unlock, Restart, check, Checking
  <2>3. CASE Crash(i)
    BY <1>2, <1>3, <2>3 DEF Crash, Fault
  <2>4. CASE EndCheck(i)
    <3>1. Checking = {i}
      BY <1>3, <2>4 DEF EndCheck, OneChecker, Checking
    <3>2. Checking' = {}
      BY <2>4, <3>1 DEF EndCheck, Checking, TypeOK, TimerType
    <3> QED
      BY <1>6, <2>4, <3>1, <3>2 DEF EndCheck, RowInv
  <2>5. ASSUME NEW g \in Hosts, NEW r \in Result, Probe(i, g, r)
        PROVE  RowInv(h)'
    <3>1. Checking = {i} /\ Checking' = {i}
      BY <1>3, <2>5 DEF Probe, OneChecker, Checking
    <3>2. CASE g = h
      <4>1. probe'[i][h] = r /\ last'[h] = r
        BY <2>5, <3>2 DEF Probe, TypeOK, HostType
      <4> QED
        BY <1>6, <2>5, <3>1, <3>2, <4>1 DEF Probe, RowInv, Result
    <3>3. CASE g # h
      <4>1. probe'[i][h] = probe[i][h] /\ last'[h] = last[h]
        BY <2>5, <3>3 DEF Probe, TypeOK, HostType
      <4> QED
        BY <1>6, <2>5, <3>1, <4>1 DEF Probe, RowInv
    <3> QED
      BY <3>2, <3>3
  <2>6. ASSUME NEW g \in Hosts, UpdateStatus(i, g)
        PROVE  RowInv(h)'
    <3>1. Checking = {i} /\ Checking' = {i}
      BY <1>3, <2>6 DEF UpdateStatus, OneChecker, Checking
    <3>2. CASE g = h
      <4>1. probe'[i][h] = "done" /\ status'[h] = probe[i][h]
        BY <1>2, <1>3, <1>6, <2>6, <3>1, <3>2
        DEF UpdateStatus, Fault, Changed, RowInv, TypeOK, HostType, Status, Result
      <4> QED
        BY <1>6, <2>6, <3>1, <3>2, <4>1 DEF UpdateStatus, RowInv, Result
    <3>3. CASE g # h
      <4>1. probe'[i][h] = probe[i][h] /\ status'[h] = status[h]
        BY <2>6, <3>3 DEF UpdateStatus, TypeOK, HostType
      <4> QED
        BY <1>6, <2>6, <3>1, <4>1 DEF UpdateStatus, RowInv
    <3> QED
      BY <3>2, <3>3
  <2> QED
    BY <1>9, <2>1, <2>2, <2>3, <2>4, <2>5, <2>6 DEF Step
<1> QED
  BY <1>4, <1>5, <1>8, <1>9 DEF Next

\* With no failure and no check by hand, the rows show the latest probes
\* whenever no check is running, although an unchanged status is not written.
THEOREM RowsShowLatestProbeHolds == Spec => []RowsShowLatestProbe
<1>1. Init => RowsInv
  BY DEF Init, RowsInv, RowInv, Checking
<1>2. TypeOK /\ RowsInv => RowsShowLatestProbe
  <2> SUFFICES ASSUME TypeOK, RowsInv, faults = 0, asked = 0, Checking = {}
               PROVE  status = last
    BY DEF RowsShowLatestProbe
  <2>1. \A h \in Hosts : status[h] = last[h]
    BY DEF RowsInv, RowInv
  <2> QED
    BY <2>1 DEF TypeOK, HostType
<1> QED
  BY <1>1, <1>2, RowsStep, LeaseInit, LeaseStep, LeaseExcludes, TypeCorrect, PTL
  DEF Spec

\* Only the instance that still renews a lease extends it.
THEOREM ExtendedByOwnerHolds == Spec => ExtendedByOwner
<1>1. TypeOK /\ [Next]_vars
        => [(key' = key /\ ttl' > ttl /\ key \in Instances)
              => (renew[key] = "on")]_vars
  <2> SUFFICES ASSUME TypeOK, [Next]_vars, key' = key, ttl' > ttl,
                      key \in Instances
               PROVE  renew[key] = "on"
    OBVIOUS
  <2>1. ttl \in 0 .. Expiry /\ Expiry \in Nat
    BY HostCheckAssumption DEF TypeOK, LockType
  <2>2. ~UNCHANGED ttl
    BY <2>1
  <2>3. ASSUME NEW n \in Nat, Advance(n)
        PROVE  FALSE
    BY <2>1, <2>3, LessBounds DEF Advance
  <2>4. PICK i \in Instances : StartCheck(i) \/ AutoRenew(i)
    BY <2>2, <2>3
    DEF Next, Tick, Pause, Step, SkipCheck, Unlock, LoadHosts, EndCheck, Crash, Restart,
        UpdateStatus, Probe, UpdateNow, ProbeNow, lock, vars
  <2>5. ~StartCheck(i)
    BY HostCheckAssumption DEF StartCheck, Free
  <2> QED
    BY <2>2, <2>4, <2>5 DEF AutoRenew, Owned
<1> QED
  BY <1>1, TypeCorrect, PTL DEF Spec, ExtendedByOwner

\* The lock is well typed and, without failures, excludes a second checker.
THEOREM LeaseSoundHolds == Spec => []LeaseSound
<1>1. TypeOK /\ OneChecker => LeaseSound
  BY DEF LeaseSound
<1> QED
  BY <1>1, TypeCorrect, OneCheckerHolds, PTL

-----------------------------------------------------------------------------
(* The ticker of the service, for any number of callers that reload its       *)
(* configuration: the module HostMonitor.                                     *)

-----------------------------------------------------------------------------
(* The inductive invariant.                                                 *)

\* A ticker is handed to one caller to be stopped: while the service calls it
\* running nobody stops it, and a caller about to close its channel is alone.
HandedInv ==
  /\ \A i \in Tickers : ticker[i] = "none" =>
       i \notin closed /\ i # current /\ \A c \in Callers : mine[c] # i
  /\ isRunning = "yes" => current \notin closed
  /\ \A c \in Callers : pc[c] = "close" =>
       /\ mine[c] \notin closed
       /\ isRunning = "yes" /\ current # 0 => mine[c] # current
  /\ \A c, d \in Callers :
       pc[c] = "close" /\ pc[d] = "close" /\ mine[c] = mine[d] /\ mine[c] # 0 => c = d
  /\ crash # "twice"

Stops(c) == pc[c] \in {"close", "wait"}

Alone(c) == \A d \in Callers : d # c => pc[d] = "idle"

\* A ticker that lives is the running one or the one that c stops.
OneTickerAt(c) ==
  /\ crash = "no"
  /\ pc[c] \in {"close", "wait", "clear", "create"} => isRunning = "no"
  /\ Stops(c) => mine[c] # 0
  /\ isRunning = "yes" => current \in Live
  /\ \A i \in Live : \/ isRunning = "yes" /\ i = current
                     \/ Stops(c) /\ mine[c] = i

\* The ticker runs as the settings s say.
Follows(s) ==
  /\ s.enabled = "on" => isRunning = "yes" /\ every[current] = s.interval
  /\ s.enabled = "off" => isRunning = "no"

\* The ticker follows the configuration, or, while c loads another, the one that
\* c found; and past its decision c is on the way to what the new one says.
FollowsAt(c) ==
  stopping = "no" =>
    /\ pc[c] = "idle" => Follows(config)
    /\ pc[c] \in {"load", "loading", "decide"} => Follows(old[c])
    /\ pc[c] \in {"start", "create"} => config.enabled = "on"
    /\ pc[c] \in {"stop", "close", "wait", "clear"} =>
         config.enabled = (IF then[c] = "idle" THEN "off" ELSE "on")

\* As long as calls do not overlap there is one caller at a time, and what the
\* tickers do depends on where it is.
SequentialInv ==
  overlap = "no" => \E c \in Callers : Alone(c) /\ OneTickerAt(c) /\ FollowsAt(c)

MonitorInv == TickerTypeOK /\ HandedInv /\ SequentialInv

-----------------------------------------------------------------------------
\* A new ticker: it was none before, and it becomes the current one.
LEMMA CreateSound ==
  ASSUME TickerTypeOK, NEW c \in Callers, Create(c)
  PROVE  \E i \in Tickers :
           /\ ticker[i] = "none" /\ current' = i /\ isRunning' = "yes"
           /\ ticker' = [ticker EXCEPT ![i] = "wait"]
           /\ every' = [every EXCEPT ![i] = config.interval]
           /\ pc' = [pc EXCEPT ![c] = "idle"]
BY DEF Create, Fresh, Goto

\* Every step keeps the types.
LEMMA MonitorTypes ==
  ASSUME TickerTypeOK, [TickerNext]_tickerVars
  PROVE  TickerTypeOK'
<1> USE DEF TickerTypeOK, Goto
<1>0. ASSUME NEW c \in Callers, Create(c)
      PROVE  /\ current' \in 0 .. MaxTickers /\ isRunning' \in {"yes", "no"}
             /\ ticker' \in [Tickers -> {"none", "wait", "check", "stopped"}]
             /\ every' \in [Tickers -> Intervals]
             /\ pc' \in [Callers -> {"idle", "load", "loading", "decide", "start", "create",
                                     "stop", "close", "wait", "clear"}]
  <2>1. PICK i \in Tickers :
          /\ ticker[i] = "none" /\ current' = i /\ isRunning' = "yes"
          /\ ticker' = [ticker EXCEPT ![i] = "wait"]
          /\ every' = [every EXCEPT ![i] = config.interval]
          /\ pc' = [pc EXCEPT ![c] = "idle"]
    BY <1>0, CreateSound
  <2>2. config.interval \in Intervals /\ i \in 0 .. MaxTickers
    BY HostMonitorAssumption DEF Settings, Tickers
  <2>3. QED
    BY <2>1, <2>2
<1>1. CASE Save
  BY <1>1, HostMonitorAssumption DEF Save, service, locals
<1>2. CASE Stop
  BY <1>2 DEF Stop, locals
<1>3. ASSUME NEW c \in Callers, BeginReload(c) PROVE TickerTypeOK'
  BY <1>3, HostMonitorAssumption DEF BeginReload, service
<1>4. ASSUME NEW c \in Callers, LoadEnabled(c) PROVE TickerTypeOK'
  BY <1>4 DEF LoadEnabled, Settings, Stored
<1>5. ASSUME NEW c \in Callers, LoadInterval(c) PROVE TickerTypeOK'
  BY <1>5, HostMonitorAssumption DEF LoadInterval, Settings, Stored
<1>6. ASSUME NEW c \in Callers, Decide(c) PROVE TickerTypeOK'
  BY <1>6 DEF Decide, service
<1>7. ASSUME NEW c \in Callers, StartTicker(c) PROVE TickerTypeOK'
  <2>1. CASE isRunning = "yes"
    BY <1>7, <2>1 DEF StartTicker, Create
  <2>2. CASE isRunning = "no"
    BY <1>7, <1>0, <2>2 DEF StartTicker
  <2>3. QED
    BY <2>1, <2>2
<1>8. ASSUME NEW c \in Callers, CreateTicker(c) PROVE TickerTypeOK'
  BY <1>8, <1>0 DEF CreateTicker
<1>9. ASSUME NEW c \in Callers, BeginStop(c) PROVE TickerTypeOK'
  <2>1. pc' \in [Callers -> {"idle", "load", "loading", "decide", "start", "create",
                             "stop", "close", "wait", "clear"}]
    BY <1>9 DEF BeginStop
  <2>2. mine' \in [Callers -> 0 .. MaxTickers] /\ isRunning' \in {"yes", "no"}
    BY <1>9 DEF BeginStop
  <2>3. QED
    BY <1>9, <2>1, <2>2 DEF BeginStop
<1>10. ASSUME NEW c \in Callers, CloseStop(c) PROVE TickerTypeOK'
  <2>1. \A n \in 0 .. MaxTickers : n # 0 => n \in Tickers
    BY HostMonitorAssumption DEF Tickers
  <2>2. closed' \subseteq Tickers /\ crash' \in {"no", "nil", "twice"}
    BY <1>10, <2>1 DEF CloseStop
  <2>3. QED
    BY <1>10, <2>2 DEF CloseStop
<1>11. ASSUME NEW c \in Callers, AwaitStopped(c) \/ ClearTicker(c) PROVE TickerTypeOK'
  BY <1>11, HostMonitorAssumption DEF AwaitStopped, ClearTicker, service
<1>12. ASSUME NEW i \in Tickers,
              TickerFires(i) \/ CheckEnds(i) \/ TickerStops(i) \/ TickerQuits(i)
       PROVE TickerTypeOK'
  BY <1>12 DEF TickerFires, CheckEnds, TickerStops, TickerQuits, SetTicker, locals
<1>13. CASE UNCHANGED tickerVars
  BY <1>13 DEF tickerVars, service, locals
<1>14. QED
  BY <1>1, <1>2, <1>3, <1>4, <1>5, <1>6, <1>7, <1>8, <1>9, <1>10, <1>11, <1>12, <1>13
  DEF TickerNext, Call

\* Every step keeps who has been handed which ticker.
LEMMA HandedKeeps ==
  ASSUME TickerTypeOK, HandedInv, [TickerNext]_tickerVars
  PROVE  HandedInv'
<1> USE DEF TickerTypeOK, HandedInv, Goto
<1>1. CASE Save \/ Stop
  BY <1>1 DEF Save, Stop, service, locals
<1>2. ASSUME NEW c \in Callers,
             BeginReload(c) \/ LoadEnabled(c) \/ LoadInterval(c) \/ Decide(c)
      PROVE HandedInv'
  BY <1>2 DEF BeginReload, LoadEnabled, LoadInterval, Decide, service
<1>3. ASSUME NEW c \in Callers, Create(c), UNCHANGED <<closed, mine, crash>>
      PROVE  HandedInv'
  BY <1>3, CreateSound
<1>4. ASSUME NEW c \in Callers, StartTicker(c) PROVE HandedInv'
  <2>1. CASE isRunning = "yes"
    BY <1>4, <2>1 DEF StartTicker
  <2>2. CASE isRunning = "no"
    BY <1>3, <1>4, <2>2 DEF StartTicker
  <2>3. QED
    BY <2>1, <2>2
<1>5. ASSUME NEW c \in Callers, CreateTicker(c) PROVE HandedInv'
  BY <1>3, <1>5 DEF CreateTicker
<1>6. ASSUME NEW c \in Callers, BeginStop(c) PROVE HandedInv'
  <2>1. CASE isRunning = "no"
    BY <1>6, <2>1 DEF BeginStop
  <2>2. CASE isRunning = "yes"
    <3>1. /\ mine'[c] = current /\ pc'[c] = "close" /\ isRunning' = "no"
          /\ \A d \in Callers : d # c => mine'[d] = mine[d] /\ pc'[d] = pc[d]
          /\ UNCHANGED <<current, ticker, closed, crash>>
      BY <1>6, <2>2 DEF BeginStop
    <3>2. \A i \in Tickers : ticker'[i] = "none" => \A d \in Callers : mine'[d] # i
      BY <3>1
    <3>3. \A d \in Callers : pc'[d] = "close" => mine'[d] \notin closed'
      BY <2>2, <3>1
    <3>4. \A a, b \in Callers :
            pc'[a] = "close" /\ pc'[b] = "close" /\ mine'[a] = mine'[b] /\ mine'[a] # 0
              => a = b
      BY <2>2, <3>1
    <3>5. QED
      BY <3>1, <3>2, <3>3, <3>4
  <2>3. QED
    BY <2>1, <2>2
<1>7. ASSUME NEW c \in Callers, CloseStop(c) PROVE HandedInv'
  BY <1>7 DEF CloseStop, Tickers
<1>8. ASSUME NEW c \in Callers, AwaitStopped(c) \/ ClearTicker(c) PROVE HandedInv'
  <2>1. pc'[c] # "close" /\ \A d \in Callers : d # c => pc'[d] = pc[d]
    BY <1>8 DEF AwaitStopped, ClearTicker
  <2>2. UNCHANGED <<isRunning, ticker, closed, mine, crash>>
    BY <1>8 DEF AwaitStopped, ClearTicker, service
  <2>3. 0 \notin Tickers /\ (current' = current \/ current' = 0)
    BY <1>8, HostMonitorAssumption DEF AwaitStopped, ClearTicker, service, Tickers
  <2>4. QED
    BY <2>1, <2>2, <2>3
<1>9. ASSUME NEW i \in Tickers,
             TickerFires(i) \/ CheckEnds(i) \/ TickerStops(i) \/ TickerQuits(i)
      PROVE HandedInv'
  BY <1>9 DEF TickerFires, CheckEnds, TickerStops, TickerQuits, SetTicker, locals
<1>10. CASE UNCHANGED tickerVars
  BY <1>10 DEF tickerVars, service, locals
<1>11. QED
  BY <1>1, <1>2, <1>4, <1>5, <1>6, <1>7, <1>8, <1>9, <1>10 DEF TickerNext, Call

\* A caller's step while nobody else is under way.
LEMMA CallKeeps ==
  ASSUME TickerTypeOK, HandedInv, NEW c \in Callers, Call(c),
         Alone(c), OneTickerAt(c), FollowsAt(c)
  PROVE  Alone(c)' /\ OneTickerAt(c)' /\ FollowsAt(c)'
<1> USE DEF TickerTypeOK, Goto
<1>1. Alone(c)'
  BY DEF Alone, Call, LoadEnabled, LoadInterval, Decide, StartTicker, Create,
         CreateTicker,
         BeginStop, CloseStop, AwaitStopped, ClearTicker
<1>2. CASE LoadEnabled(c)
  BY <1>1, <1>2 DEF LoadEnabled, OneTickerAt, FollowsAt, Follows, Stops, Live
<1>3. CASE LoadInterval(c)
  BY <1>1, <1>3 DEF LoadInterval, OneTickerAt, FollowsAt, Follows, Stops, Live
<1>4. CASE Decide(c)
  <2>1. OneTickerAt(c)'
    BY <1>4 DEF Decide, service, OneTickerAt, Stops, Live
  <2>2. FollowsAt(c)'
    BY <1>4 DEF Decide, service, FollowsAt, Follows, Settings
  <2>3. QED
    BY <1>1, <2>1, <2>2
<1>5. ASSUME Create(c), pc[c] \in {"start", "create"}, isRunning = "no",
             UNCHANGED <<config, crash, stopping, mine, then>>
      PROVE  OneTickerAt(c)' /\ FollowsAt(c)'
  <2>1. PICK i \in Tickers :
           /\ ticker[i] = "none" /\ current' = i /\ isRunning' = "yes"
           /\ ticker' = [ticker EXCEPT ![i] = "wait"]
           /\ every' = [every EXCEPT ![i] = config.interval]
           /\ pc' = [pc EXCEPT ![c] = "idle"]
    BY <1>5, CreateSound
  <2>2. Live = {}
    BY <1>5 DEF OneTickerAt, Stops
  <2>3. Live' = {i}
    BY <2>1, <2>2 DEF Live
  <2>4. pc'[c] = "idle" /\ every'[i] = config.interval
    BY <2>1
  <2>5. OneTickerAt(c)'
    <3>1. crash' = "no" /\ current' = i /\ isRunning' = "yes"
      BY <1>5, <2>1 DEF OneTickerAt
    <3>2. QED
      BY <2>3, <2>4, <3>1 DEF OneTickerAt, Stops
  <2>6. FollowsAt(c)'
    BY <1>5, <2>1, <2>4 DEF FollowsAt, Follows
  <2>7. QED
    BY <2>5, <2>6
<1>6. CASE StartTicker(c)
  <2>1. CASE isRunning = "yes"
    BY <1>1, <1>6, <2>1 DEF StartTicker, OneTickerAt, FollowsAt, Stops, Live
  <2>2. CASE isRunning = "no"
    BY <1>1, <1>5, <1>6, <2>2 DEF StartTicker
  <2>3. QED
    BY <2>1, <2>2
<1>7. CASE CreateTicker(c)
  <2>1. isRunning = "no"
    BY <1>7 DEF CreateTicker, OneTickerAt
  <2>2. QED
    BY <1>1, <1>5, <1>7, <2>1 DEF CreateTicker
<1>8. CASE BeginStop(c)
  <2>1. CASE isRunning = "no"
    BY <1>1, <1>8, <2>1 DEF BeginStop, OneTickerAt, FollowsAt, Follows, Stops, Live
  <2>2. CASE isRunning = "yes"
    <3>1. /\ mine'[c] = current /\ pc'[c] = "close" /\ isRunning' = "no" /\ pc[c] = "stop"
          /\ UNCHANGED <<config, current, ticker, closed, crash, then, stopping>>
      BY <1>8, <2>2 DEF BeginStop
    <3>2. current \in Live /\ 0 \notin Live
      BY <2>2 DEF OneTickerAt, Live, Tickers
    <3>3. OneTickerAt(c)'
      BY <3>1, <3>2 DEF OneTickerAt, Stops, Live
    <3>4. FollowsAt(c)'
      BY <3>1 DEF FollowsAt
    <3>5. QED
      BY <1>1, <3>3, <3>4
  <2>3. QED
    BY <2>1, <2>2
<1>9. CASE CloseStop(c)
  <2>1. crash' = "no"
    BY <1>9 DEF CloseStop, OneTickerAt, Stops, HandedInv
  <2>2. QED
    BY <1>1, <1>9, <2>1 DEF CloseStop, OneTickerAt, FollowsAt, Stops, Live
<1>10. CASE AwaitStopped(c)
  BY <1>1, <1>10
  DEF AwaitStopped, Stopped, service, OneTickerAt, FollowsAt, Stops, Live
<1>11. CASE ClearTicker(c)
  BY <1>1, <1>11 DEF ClearTicker, OneTickerAt, FollowsAt, Follows, Stops, Live
<1>12. QED
  BY <1>2, <1>3, <1>4, <1>6, <1>7, <1>8, <1>9, <1>10, <1>11 DEF Call

\* Every step, while calls do not overlap.
LEMMA SequentialKeeps ==
  ASSUME TickerTypeOK, HandedInv, SequentialInv, [TickerNext]_tickerVars
  PROVE  SequentialInv'
<1> SUFFICES ASSUME overlap' = "no"
             PROVE  \E c \in Callers : Alone(c)' /\ OneTickerAt(c)' /\ FollowsAt(c)'
  BY DEF SequentialInv
<1> USE DEF TickerTypeOK
<1>1. CASE UNCHANGED tickerVars
  BY <1>1
  DEF tickerVars, service, locals, SequentialInv, Alone, OneTickerAt, FollowsAt, Follows,
                  Stops, Live
<1>2. CASE Save \/ Stop
  BY <1>2
  DEF Save, Stop, service, locals, SequentialInv, Alone, OneTickerAt, FollowsAt,
            Follows, Stops, Live
<1>3. ASSUME NEW d \in Callers, BeginReload(d)
      PROVE  Alone(d)' /\ OneTickerAt(d)' /\ FollowsAt(d)'
  <2>1. overlap = "no" /\ \A c \in Callers : pc[c] = "idle"
    BY <1>3 DEF BeginReload
  <2>2. PICK c \in Callers : Alone(c) /\ OneTickerAt(c) /\ FollowsAt(c)
    BY <2>1 DEF SequentialInv
  <2>3. /\ pc'[d] = "load" /\ old'[d] = config
        /\ \A x \in Callers : x # d => pc'[x] = "idle"
        /\ UNCHANGED <<service, mine, then>>
    BY <1>3, <2>1 DEF BeginReload, Goto
  <2>4. OneTickerAt(d)'
    <3>1. /\ Live' = Live /\ isRunning' = isRunning /\ current' = current /\ crash' = crash
      BY <2>3 DEF Live, service
    <3>2. QED
      BY <2>1, <2>2, <2>3, <3>1 DEF OneTickerAt, Stops
  <2>5. FollowsAt(d)'
    BY <2>1, <2>2, <2>3 DEF FollowsAt, Follows, service
  <2>6. QED
    BY <2>3, <2>4, <2>5 DEF Alone
<1>4. ASSUME NEW d \in Callers, Call(d)
      PROVE  Alone(d)' /\ OneTickerAt(d)' /\ FollowsAt(d)'
  <2>1. overlap = "no" /\ pc[d] # "idle"
    BY <1>4 DEF Call, LoadEnabled, LoadInterval, Decide, StartTicker, CreateTicker,
                BeginStop, CloseStop, AwaitStopped, ClearTicker
  <2>2. Alone(d) /\ OneTickerAt(d) /\ FollowsAt(d)
    BY <2>1 DEF SequentialInv, Alone
  <2>3. QED
    BY <1>4, <2>2, CallKeeps
<1>5. ASSUME NEW i \in Tickers,
             TickerFires(i) \/ CheckEnds(i) \/ TickerStops(i) \/ TickerQuits(i)
      PROVE  \E c \in Callers : Alone(c)' /\ OneTickerAt(c)' /\ FollowsAt(c)'
  <2>1. /\ overlap = "no"
        /\ UNCHANGED <<config, current, every, crash, stopping, pc, old, mine, then>>
    BY <1>5 DEF TickerFires, CheckEnds, TickerStops, TickerQuits, locals
  <2>2. PICK c \in Callers : Alone(c) /\ OneTickerAt(c) /\ FollowsAt(c)
    BY <2>1 DEF SequentialInv
  <2>3. i \in Live /\ Alone(c)'
    BY <1>5, <2>1, <2>2
    DEF TickerFires, CheckEnds, TickerStops, TickerQuits, Live, Alone
  <2>4. CASE TickerFires(i) \/ CheckEnds(i)
    <3>1. Live' = Live /\ isRunning' = isRunning
      BY <2>4 DEF TickerFires, CheckEnds, SetTicker, Live
    <3>2. QED
      BY <2>1, <2>2, <2>3, <3>1 DEF OneTickerAt, FollowsAt, Follows, Stops
  <2>5. CASE TickerStops(i)
    <3>1. Live' = Live \ {i} /\ isRunning' = isRunning /\ i \in closed
      BY <2>5 DEF TickerStops, SetTicker, Live
    <3>2. isRunning = "yes" => i # current
      BY <3>1 DEF HandedInv
    <3>3. QED
      BY <2>1, <2>2, <2>3, <3>1, <3>2 DEF OneTickerAt, FollowsAt, Follows, Stops
  <2>6. CASE TickerQuits(i)
    <3>1. Live' = Live \ {i} /\ isRunning' = "no" /\ stopping = "yes"
      BY <2>6 DEF TickerQuits, SetTicker, Live
    <3>2. OneTickerAt(c)'
      BY <2>1, <2>2, <2>3, <3>1 DEF OneTickerAt, Stops
    <3>3. QED
      BY <2>1, <2>3, <3>1, <3>2 DEF FollowsAt
  <2>7. QED
    BY <1>5, <2>4, <2>5, <2>6
<1>6. QED
  BY <1>1, <1>2, <1>3, <1>4, <1>5 DEF TickerNext

\* The invariant holds in every reachable state, however calls overlap.
LEMMA MonitorInvHolds == TickerSpec => []MonitorInv
<1>1. TickerInit => MonitorInv
  <2> SUFFICES ASSUME TickerInit PROVE MonitorInv
    OBVIOUS
  <2>1. TickerTypeOK
    BY HostMonitorAssumption DEF TickerInit, TickerTypeOK, Settings, Stored
  <2>2. HandedInv
    BY HostMonitorAssumption DEF TickerInit, HandedInv, Tickers
  <2>3. Live = {}
    BY DEF TickerInit, Live
  <2>4. Alone(Main) /\ OneTickerAt(Main) /\ FollowsAt(Main)
    BY <2>1, <2>3, HostMonitorAssumption
    DEF TickerInit, Alone, OneTickerAt, FollowsAt, Follows, Stops, TickerTypeOK,
                    Settings
  <2>5. QED
    BY <2>1, <2>2, <2>4, HostMonitorAssumption DEF MonitorInv, SequentialInv
<1>2. MonitorInv /\ [TickerNext]_tickerVars => MonitorInv'
  BY MonitorTypes, HandedKeeps, SequentialKeeps DEF MonitorInv
<1>3. QED
  BY <1>1, <1>2, PTL DEF TickerSpec

\* Every step keeps that a caller waits for a ticker that has been told to stop:
\* whoever closes a channel is the first to do so, and then waits.
LEMMA WaitsKeep ==
  ASSUME MonitorInv, WaitsForStopped, [TickerNext]_tickerVars
  PROVE  WaitsForStopped'
<1> USE DEF WaitsForStopped, MonitorInv, TickerTypeOK, Goto, Alive
<1>1. CASE Save \/ Stop
  BY <1>1 DEF Save, Stop, service, locals
<1>2. ASSUME NEW c \in Callers, pc[c] # "wait", pc' = [pc EXCEPT ![c] = pc'[c]],
             pc'[c] # "wait", UNCHANGED <<closed, crash>>,
             \A d \in Callers : d # c => mine'[d] = mine[d],
             \A i \in Tickers : ticker[i] # "none" => ticker'[i] # "none"
      PROVE  WaitsForStopped'
  BY <1>2
<1>3. ASSUME NEW c \in Callers,
             BeginReload(c) \/ LoadEnabled(c) \/ LoadInterval(c) \/ Decide(c)
      PROVE  WaitsForStopped'
  <2>1. /\ pc[c] # "wait" /\ pc'[c] # "wait" /\ pc' = [pc EXCEPT ![c] = pc'[c]]
        /\ UNCHANGED <<closed, crash, mine, ticker>>
    BY <1>3 DEF BeginReload, LoadEnabled, LoadInterval, Decide, service
  <2>2. QED
    BY <1>2, <2>1
<1>4. ASSUME NEW c \in Callers, Create(c)
      PROVE  \A i \in Tickers : ticker[i] # "none" => ticker'[i] # "none"
  BY <1>4, CreateSound
<1>5. ASSUME NEW c \in Callers, StartTicker(c) \/ CreateTicker(c)
      PROVE  WaitsForStopped'
  <2>1. /\ pc[c] # "wait" /\ pc'[c] # "wait" /\ pc' = [pc EXCEPT ![c] = pc'[c]]
        /\ UNCHANGED <<closed, crash, mine>>
    BY <1>5 DEF StartTicker, CreateTicker, Create
  <2>2. \A i \in Tickers : ticker[i] # "none" => ticker'[i] # "none"
    BY <1>4, <1>5 DEF StartTicker, CreateTicker
  <2>3. QED
    BY <1>2, <2>1, <2>2
<1>6. ASSUME NEW c \in Callers, BeginStop(c) PROVE WaitsForStopped'
  <2>1. /\ pc[c] # "wait" /\ pc'[c] # "wait" /\ pc' = [pc EXCEPT ![c] = pc'[c]]
        /\ UNCHANGED <<closed, crash, ticker>>
        /\ \A d \in Callers : d # c => mine'[d] = mine[d]
    BY <1>6 DEF BeginStop
  <2>2. QED
    BY <1>2, <2>1
<1>7. ASSUME NEW c \in Callers, CloseStop(c) PROVE WaitsForStopped'
  <2>1. SUFFICES ASSUME crash' = "no" PROVE WaitsForStopped'
    OBVIOUS
  <2>2. /\ mine[c] \in Tickers /\ mine[c] \notin closed /\ ticker[mine[c]] # "none"
    BY <1>7, <2>1, HostMonitorAssumption DEF CloseStop, HandedInv, Tickers
  <2>3. /\ crash = "no" /\ closed' = closed \cup {mine[c]} /\ UNCHANGED <<ticker, mine>>
        /\ pc' = [pc EXCEPT ![c] = "wait"]
    BY <1>7, <2>2, HostMonitorAssumption DEF CloseStop, Tickers
  <2>4. \A d \in Callers : pc[d] = "wait" => mine[d] # mine[c]
    BY <2>2, <2>3
  <2>5. QED
    BY <2>2, <2>3, <2>4
<1>8. ASSUME NEW c \in Callers, AwaitStopped(c) \/ ClearTicker(c)
      PROVE  WaitsForStopped'
  BY <1>8 DEF AwaitStopped, ClearTicker, service
<1>9. ASSUME NEW i \in Tickers,
             TickerFires(i) \/ CheckEnds(i) \/ TickerStops(i) \/ TickerQuits(i)
      PROVE  WaitsForStopped'
  BY <1>9 DEF TickerFires, CheckEnds, TickerStops, TickerQuits, SetTicker, locals
<1>10. CASE UNCHANGED tickerVars
  BY <1>10 DEF tickerVars, service, locals
<1>11. QED
  BY <1>1, <1>3, <1>5, <1>6, <1>7, <1>8, <1>9, <1>10 DEF TickerNext, Call

\* WaitsForStopped, for any number of callers: stopTickerInternal takes the
\* channels of the ticker under the mutex, closes the one and waits on the other,
\* and no overlapping call makes it wait for a ticker that nobody stops.
THEOREM WaitsForStoppedHolds == TickerSpec => []WaitsForStopped
<1>1. TickerInit => WaitsForStopped
  BY DEF TickerInit, WaitsForStopped
<1>2. MonitorInv /\ WaitsForStopped /\ [TickerNext]_tickerVars => WaitsForStopped'
  BY WaitsKeep
<1>3. QED
  BY <1>1, <1>2, MonitorInvHolds, PTL DEF TickerSpec

\* TickersSound, for any number of callers and intervals: no stop signal is
\* given twice however calls overlap (stopTickerInternal resets isRunning under
\* the mutex before it closes the channel), whoever waits for a ticker waits for
\* one that was told to stop, and while calls do not overlap there is one
\* ticker at most, which follows the configuration once nobody is reloading.
THEOREM TickersSoundHolds == TickerSpec => []TickersSound
<1>1. MonitorInv /\ WaitsForStopped => TickersSound
  <2> SUFFICES ASSUME MonitorInv, WaitsForStopped PROVE TickersSound
    OBVIOUS
  <2>1. OneTicker
    <3> SUFFICES ASSUME overlap = "no" PROVE Alive /\ \A i, j \in Live : i = j
      BY DEF OneTicker
    <3>1. PICK c \in Callers : OneTickerAt(c)
      BY DEF MonitorInv, SequentialInv
    <3>2. QED
      BY <3>1 DEF OneTickerAt, Stops, Alive
  <2>2. TickerFollowsConfig
    <3> SUFFICES ASSUME \A c \in Callers : pc[c] = "idle", overlap = "no", stopping = "no"
                 PROVE  IF config.enabled = "on"
                        THEN /\ current \in Tickers /\ Live = {current}
                             /\ every[current] = config.interval
                        ELSE Live = {}
      BY DEF TickerFollowsConfig
    <3>1. PICK c \in Callers : OneTickerAt(c) /\ FollowsAt(c)
      BY DEF MonitorInv, SequentialInv
    <3>2. Follows(config) /\ config.enabled \in {"on", "off"}
      BY <3>1 DEF FollowsAt, MonitorInv, TickerTypeOK, Settings
    <3>3. /\ isRunning = "yes" => current \in Live
          /\ \A i \in Live : isRunning = "yes" /\ i = current
      BY <3>1 DEF OneTickerAt, Stops
    <3>4. QED
      BY <3>2, <3>3 DEF Follows, Live
  <2>3. QED
    BY <2>1, <2>2 DEF MonitorInv, HandedInv, TickersSound, NoDoubleClose
<1>2. QED
  BY <1>1, MonitorInvHolds, WaitsForStoppedHolds, PTL

-----------------------------------------------------------------------------
(* The registry of the proxies: the module ProxyRegistry.                     *)

-----------------------------------------------------------------------------
(* The inductive invariant.                                                 *)

\* A request whose sender waits was sent by the present run of its agent, from
\* the goroutine that sends its kind, with the agent's address: the end of a
\* process leaves its requests without a sender.
SenderInv ==
  \A s \in Slots :
    /\ slot[s].kind # "free" => slot[s].proxy \in Proxies
    /\ slot[s].by = "main" => slot[s].kind \in {"register", "unregister"}
    /\ slot[s].by = "beat" => slot[s].kind \in {"register", "heartbeat"}
    /\ slot[s].by # Nothing => /\ agent[slot[s].proxy].main # "down"
                               /\ slot[s].addr = agent[slot[s].proxy].addr

\* Heartbeats are sent only by a process that runs.
ProcessInv ==
  \A p \in Proxies : agent[p].main = "down" => agent[p].beat = "off"

RegistryInv == RegistrySound /\ SenderInv /\ ProcessInv

-----------------------------------------------------------------------------
(* The network and the processes.                                           *)

\* The parts of the types that a request and its answer can change.
WireTypes == agent \in [Proxies -> Agent] /\ slot \in [Slots -> Request]

\* An orphaned request is what it was, without a sender.
LEMMA OrphanedSound ==
  ASSUME WireTypes, NEW p
  PROVE  /\ Orphaned(p) \in [Slots -> Request]
         /\ \A s \in Slots :
              /\ Orphaned(p)[s].kind = slot[s].kind
              /\ Orphaned(p)[s].proxy = slot[s].proxy
              /\ Orphaned(p)[s].addr = slot[s].addr
              /\ slot[s].proxy = p => Orphaned(p)[s].by = Nothing
              /\ slot[s].proxy # p => Orphaned(p)[s] = slot[s]
BY DEF WireTypes, Orphaned, Request

\* A process that is down does not beat and is not registered.
LEMMA DownSound ==
  /\ Down \in Agent /\ Down.registered = FALSE
  /\ Down.main = "down" /\ Down.beat = "off"
BY DEF Down, Agent

\* A free slot has no sender.
LEMMA FreeSound ==
  /\ FreeSlot \in Request /\ FreeSlot.kind = "free" /\ FreeSlot.by = Nothing
BY DEF FreeSlot, Request

\* The end of a process.
LEMMA EndSound ==
  ASSUME WireTypes, SenderInv, ProcessInv, NEW p \in Proxies,
         agent' = [agent EXCEPT ![p] = Down], slot' = Orphaned(p)
  PROVE  WireTypes' /\ SenderInv' /\ ProcessInv'
<1>1. /\ slot' \in [Slots -> Request]
      /\ \A s \in Slots : /\ slot'[s].kind = slot[s].kind /\ slot'[s].proxy = slot[s].proxy
                          /\ slot'[s].addr = slot[s].addr
                          /\ slot[s].proxy = p => slot'[s].by = Nothing
                          /\ slot[s].proxy # p => slot'[s] = slot[s]
  BY OrphanedSound
<1>2. /\ agent' \in [Proxies -> Agent] /\ agent'[p] = Down
      /\ \A q \in Proxies : q # p => agent'[q] = agent[q]
  BY DownSound DEF WireTypes
<1>3. WireTypes'
  BY <1>1, <1>2 DEF WireTypes
<1>4. ProcessInv'
  BY <1>2, DownSound DEF ProcessInv
<1>5. SenderInv'
  <2>1. ASSUME NEW s \in Slots, slot'[s].by # Nothing
        PROVE  agent'[slot'[s].proxy] = agent[slot[s].proxy] /\ slot'[s] = slot[s]
    <3>1. slot[s].proxy # p /\ slot'[s] = slot[s]
      BY <1>1, <2>1
    <3>2. slot[s].kind # "free"
      BY <2>1, <3>1 DEF SenderInv, WireTypes, Request
    <3>3. slot[s].proxy \in Proxies
      BY <3>2 DEF SenderInv
    <3>4. QED
      BY <1>2, <3>1, <3>3
  <2>2. ASSUME NEW s \in Slots, slot'[s].by = Nothing
        PROVE  /\ slot'[s].kind # "free" => slot'[s].proxy \in Proxies
               /\ slot'[s].by # "main" /\ slot'[s].by # "beat"
    BY <1>1, <2>2 DEF SenderInv, Nothing
  <2>3. QED
    BY <1>1, <2>1, <2>2 DEF SenderInv
<1>6. QED
  BY <1>3, <1>4, <1>5

\* What an answer makes of its agent: a farewell ends the process; anything else
\* leaves it up and at its address, and only a good answer makes it registered.
LEMMA AnsweredSound ==
  ASSUME WireTypes, SenderInv, ProcessInv, NEW s \in Slots, NEW ok \in BOOLEAN,
         slot[s].by # Nothing
  PROVE  LET r == slot[s]
             a == agent[r.proxy]
             b == Answered(r, ok)
         IN /\ r.proxy \in Proxies /\ b \in Agent
            /\ r.kind = "unregister" => b = Down
            /\ r.kind # "unregister" => b.main # "down" /\ b.addr = a.addr
            /\ b.registered => a.registered \/ (ok /\ r.kind \in {"register", "heartbeat"})
<1> DEFINE r == slot[s]
           a == agent[r.proxy]
           b == Answered(r, ok)
<1>1. /\ r \in Request /\ r.proxy \in Proxies /\ a \in Agent /\ a.main # "down"
      /\ \/ r.by = "main" /\ r.kind \in {"register", "unregister"}
         \/ r.by = "beat" /\ r.kind \in {"register", "heartbeat"}
  BY DEF WireTypes, SenderInv, Request
<1> HIDE DEF r
<1>2. CASE r.by = "beat" /\ r.kind = "heartbeat"
  <2>1. b = [a EXCEPT !.registered = ok, !.beat = IF ok THEN "idle" ELSE "retry"]
    BY <1>2 DEF Answered, HeartbeatAnswer
  <2>2. QED
    BY <1>1, <1>2, <2>1 DEF Agent, r
<1>3. CASE r.by = "beat" /\ r.kind = "register"
  <2>1. b = [a EXCEPT !.registered = ok \/ a.registered, !.beat = "idle"]
    BY <1>3 DEF Answered
  <2>2. QED
    BY <1>1, <1>3, <2>1 DEF Agent, r
<1>4. CASE r.by = "main" /\ r.kind = "register"
  <2>1. b = [a EXCEPT !.registered = ok, !.main = "starting", !.beat = "idle"]
    BY <1>4 DEF Answered
  <2>2. QED
    BY <1>1, <1>4, <2>1 DEF Agent, r
<1>5. CASE r.by = "main" /\ r.kind = "unregister"
  <2>1. b = Down
    BY <1>5 DEF Answered
  <2>2. QED
    BY <1>1, <1>5, <2>1, DownSound DEF r
<1>6. QED
  BY <1>1, <1>2, <1>3, <1>4, <1>5

\* A request leaves the network and its sender hears of it.
LEMMA ReplySound ==
  ASSUME WireTypes, SenderInv, ProcessInv, NEW s \in Slots, NEW ok \in BOOLEAN,
         slot[s].kind # "free", Reply(s, ok)
  PROVE  /\ WireTypes' /\ SenderInv' /\ ProcessInv'
         /\ \A q \in Proxies :
              /\ agent'[q].main # "down" => /\ agent[q].main # "down"
                                            /\ agent'[q].addr = agent[q].addr
              /\ agent'[q].registered =>
                   \/ agent[q].registered
                   \/ q = slot[s].proxy /\ ok /\ slot[s].kind \in {"register", "heartbeat"}
<1> DEFINE r == slot[s]
<1>1. CASE r.by = Nothing
  <2>1. agent' = agent /\ slot' = [slot EXCEPT ![s] = FreeSlot]
    BY <1>1 DEF Reply, Nothing
  <2>2. /\ slot' \in [Slots -> Request] /\ slot'[s] = FreeSlot
        /\ \A t \in Slots : t # s => slot'[t] = slot[t]
    BY <2>1, FreeSound DEF WireTypes
  <2>3. WireTypes' /\ ProcessInv'
    BY <2>1, <2>2 DEF WireTypes, ProcessInv
  <2>4. SenderInv'
    BY <2>1, <2>2, FreeSound DEF SenderInv, Nothing
  <2>5. QED
    BY <2>1, <2>3, <2>4
<1>2. CASE r.by # Nothing
  <2> DEFINE b == Answered(r, ok)
             p == r.proxy
  <2>1. /\ p \in Proxies /\ b \in Agent
        /\ r.kind = "unregister" => b = Down
        /\ r.kind # "unregister" => b.main # "down" /\ b.addr = agent[p].addr
        /\ b.registered => agent[p].registered \/ (ok /\ r.kind \in {"register", "heartbeat"})
    BY <1>2, AnsweredSound
  <2>2. agent' = [agent EXCEPT ![p] = b]
    BY <1>2 DEF Reply
  <2>3. agent[p].main # "down"
    BY <1>2 DEF SenderInv
  <2>4. /\ slot' = IF r.by = "main" /\ r.kind = "unregister"
                   THEN [Orphaned(p) EXCEPT ![s] = FreeSlot] ELSE [slot EXCEPT ![s] = FreeSlot]
        /\ r.kind = "unregister" => r.by = "main"
    BY <1>2 DEF Reply, SenderInv, WireTypes, Request
  <2> HIDE DEF b
  <2>5. /\ agent' \in [Proxies -> Agent] /\ agent'[p] = b
        /\ \A q \in Proxies : q # p => agent'[q] = agent[q]
    BY <2>1, <2>2 DEF WireTypes
  <2>6. /\ slot' \in [Slots -> Request] /\ slot'[s] = FreeSlot
        /\ \A t \in Slots : /\ slot'[t].kind # "free" => slot'[t].kind = slot[t].kind
                            /\ slot'[t].kind # "free" => slot'[t].proxy = slot[t].proxy
                            /\ slot'[t].by # Nothing => slot'[t] = slot[t] /\ t # s
                            /\ slot'[t].by # Nothing /\ slot[t].proxy = p =>
                                 r.kind # "unregister"
    <3>1. CASE r.kind = "unregister"
      <4>1. slot' = [Orphaned(p) EXCEPT ![s] = FreeSlot]
        BY <2>4, <3>1
      <4>2. QED
        BY <4>1, <3>1, OrphanedSound, FreeSound
    <3>2. CASE r.kind # "unregister"
      <4>1. slot' = [slot EXCEPT ![s] = FreeSlot]
        BY <2>4, <3>2
      <4>2. QED
        BY <4>1, <3>2, FreeSound DEF WireTypes
    <3>3. QED
      BY <3>1, <3>2
  <2>7. WireTypes'
    BY <2>5, <2>6 DEF WireTypes
  <2>8. ProcessInv'
    BY <2>1, <2>5, DownSound DEF ProcessInv
  <2>9. SenderInv'
    <3>1. ASSUME NEW t \in Slots, slot'[t].by # Nothing
          PROVE  /\ slot'[t] = slot[t] /\ slot[t].proxy \in Proxies
                 /\ agent'[slot[t].proxy].main # "down"
                 /\ agent'[slot[t].proxy].addr = agent[slot[t].proxy].addr
      <4>1. slot'[t] = slot[t] /\ slot[t].by # Nothing
        BY <2>6, <3>1
      <4>2. slot[t].kind # "free"
        BY <4>1 DEF SenderInv, WireTypes, Request
      <4>3. slot[t].proxy \in Proxies /\ agent[slot[t].proxy].main # "down"
        BY <4>1, <4>2 DEF SenderInv
      <4>4. CASE slot[t].proxy = p
        BY <2>1, <2>5, <2>6, <3>1, <4>1, <4>4
      <4>5. CASE slot[t].proxy # p
        BY <2>5, <4>1, <4>3, <4>5
      <4>6. QED
        BY <4>1, <4>3, <4>4, <4>5
    <3>2. ASSUME NEW t \in Slots, slot'[t].by = Nothing
          PROVE  /\ slot'[t].kind # "free" => slot'[t].proxy \in Proxies
                 /\ slot'[t].by # "main" /\ slot'[t].by # "beat"
      BY <2>6, <3>2 DEF SenderInv, Nothing
    <3>3. QED
      BY <3>1, <3>2 DEF SenderInv
  <2>10. QED
    BY <2>1, <2>3, <2>5, <2>7, <2>8, <2>9, DownSound
<1>3. QED
  BY <1>1, <1>2

\* A goroutine of a process that is up posts a request with its address.
LEMMA PostSound ==
  ASSUME WireTypes, SenderInv, ProcessInv, NEW p \in Proxies, NEW a \in Agent,
         NEW by, NEW kind, agent' = [agent EXCEPT ![p] = a], Post(p, a.addr, by, kind),
         a.main # "down",
         agent[p].main # "down" => a.addr = agent[p].addr,
         \/ by = "main" /\ kind \in {"register", "unregister"}
         \/ by = "beat" /\ kind \in {"register", "heartbeat"}
  PROVE  WireTypes' /\ SenderInv' /\ ProcessInv'
<1>1. PICK s \in Slots :
        slot' = [slot EXCEPT ![s] = [kind |-> kind, proxy |-> p, addr |-> a.addr,
                                     by |-> by, found |-> "unread"]]
  BY DEF Post
<1> DEFINE r == [kind |-> kind, proxy |-> p, addr |-> a.addr, by |-> by, found |-> "unread"]
<1>2. /\ r \in Request /\ r.kind = kind /\ r.proxy = p /\ r.addr = a.addr /\ r.by = by
  BY DEF Request, Agent
<1>3. slot' = [slot EXCEPT ![s] = r]
  BY <1>1
<1> HIDE DEF r
<1>4. /\ slot' \in [Slots -> Request] /\ slot'[s] = r
      /\ \A t \in Slots : t # s => slot'[t] = slot[t]
  BY <1>2, <1>3 DEF WireTypes
<1>5. /\ agent' \in [Proxies -> Agent] /\ agent'[p] = a
      /\ \A q \in Proxies : q # p => agent'[q] = agent[q]
  BY DEF WireTypes
<1>6. WireTypes' /\ ProcessInv'
  BY <1>4, <1>5 DEF WireTypes, ProcessInv
<1>7. SenderInv'
  <2>1. ASSUME NEW t \in Slots, t # s, slot[t].by # Nothing
        PROVE  /\ agent'[slot[t].proxy].main # "down"
               /\ slot[t].addr = agent'[slot[t].proxy].addr
    <3>1. slot[t].kind # "free"
      BY <2>1 DEF SenderInv, WireTypes, Request
    <3>2. /\ slot[t].proxy \in Proxies /\ agent[slot[t].proxy].main # "down"
          /\ slot[t].addr = agent[slot[t].proxy].addr
      BY <2>1, <3>1 DEF SenderInv
    <3>3. QED
      BY <1>5, <3>2
  <2>2. QED
    BY <1>2, <1>4, <1>5, <2>1 DEF SenderInv
<1>8. QED
  BY <1>6, <1>7

-----------------------------------------------------------------------------
(* The steps.                                                               *)

\* A step that leaves the rows' addresses and takes none of them away, after
\* which an agent that is up is where it was and registered only if it was.
LEMMA QuietKeeps ==
  ASSUME RegistryTypeOK, RegisteredHasRow, AddressCurrent, RegistryTypeOK',
         \A p \in Proxies :
           /\ row[p].status # "absent" => row'[p].status # "absent"
           /\ row'[p].addr = row[p].addr
           /\ agent'[p].main # "down" =>
                agent[p].main # "down" /\ agent'[p].addr = agent[p].addr
           /\ agent'[p].registered => agent[p].registered \/ row'[p].status # "absent",
         UNCHANGED history
  PROVE  RegisteredHasRow' /\ AddressCurrent'
<1>1. confirmed' = confirmed /\ late' = late
  BY DEF history
<1>2. RegisteredHasRow'
  BY DEF RegisteredHasRow
<1>3. AddressCurrent'
  BY <1>1 DEF AddressCurrent
<1>4. QED
  BY <1>2, <1>3

\* The agent's own steps.
LEMMA AgentKeeps ==
  ASSUME RegistryInv, NEW p \in Proxies, AgentNext(p)
  PROVE  RegistryInv'
<1>1. /\ RegistryTypeOK /\ RegisteredHasRow /\ AddressCurrent
      /\ SenderInv /\ ProcessInv /\ WireTypes
      /\ agent[p] \in Agent
  BY DEF RegistryInv, RegistrySound, RegistryTypeOK, WireTypes
<1>2. ASSUME NEW a \in Addrs, StartAgent(p, a) PROVE RegistryInv'
  <2> DEFINE b == [main |-> "registering", beat |-> "off", addr |-> a, registered |-> FALSE]
  <2>1. /\ b \in Agent /\ b.main = "registering" /\ b.addr = a /\ b.registered = FALSE
    BY DEF Agent
  <2>2. /\ agent' = [agent EXCEPT ![p] = b] /\ Post(p, b.addr, "main", "register")
        /\ agent[p].main = "down"
    BY <1>2 DEF StartAgent
  <2> HIDE DEF b
  <2>3. WireTypes' /\ SenderInv' /\ ProcessInv'
    BY <1>1, <2>1, <2>2, PostSound
  <2>4. /\ confirmed' = [confirmed EXCEPT ![p] = FALSE]
        /\ late' = [late EXCEPT ![p] = FALSE]
        /\ row' = row /\ sweep' = sweep /\ guest' = guest /\ starts' = starts + 1
        /\ starts < MaxStarts
    BY <1>2 DEF StartAgent
  <2>5. RegistryTypeOK'
    <3>1. starts' \in 0 .. MaxStarts
      BY <1>1, <2>4, ProxyAssumption DEF RegistryTypeOK
    <3>2. confirmed' \in [Proxies -> BOOLEAN] /\ late' \in [Proxies -> BOOLEAN]
      BY <1>1, <2>4 DEF RegistryTypeOK
    <3>3. QED
      BY <1>1, <2>3, <2>4, <3>1, <3>2 DEF RegistryTypeOK, WireTypes
  <2>6. /\ agent'[p] = b /\ \A q \in Proxies : q # p => agent'[q] = agent[q]
        /\ confirmed'[p] = FALSE /\ \A q \in Proxies : q # p => confirmed'[q] = confirmed[q]
        /\ \A q \in Proxies : q # p => late'[q] = late[q]
    BY <1>1, <2>2, <2>4 DEF RegistryTypeOK
  <2>7. RegisteredHasRow' /\ AddressCurrent'
    BY <1>1, <2>1, <2>4, <2>6 DEF RegisteredHasRow, AddressCurrent
  <2>8. QED
    BY <2>3, <2>5, <2>7 DEF RegistryInv, RegistrySound
<1>3. ASSUME WireTypes', SenderInv', ProcessInv',
             UNCHANGED <<row, sweep, guest, starts, history>>,
             \A q \in Proxies :
               /\ agent'[q].main # "down" =>
                    agent[q].main # "down" /\ agent'[q].addr = agent[q].addr
               /\ agent'[q].registered => agent[q].registered
      PROVE  RegistryInv'
  <2>1. RegistryTypeOK'
    BY <1>1, <1>3 DEF RegistryTypeOK, WireTypes, history
  <2>2. RegisteredHasRow' /\ AddressCurrent'
    BY <1>1, <1>3, <2>1, QuietKeeps
  <2>3. QED
    BY <1>3, <2>1, <2>2 DEF RegistryInv, RegistrySound
<1>4. ASSUME agent' = [agent EXCEPT ![p] = Down], slot' = Orphaned(p),
             UNCHANGED <<row, sweep, guest, starts, history>>
      PROVE  RegistryInv'
  <2>1. WireTypes' /\ SenderInv' /\ ProcessInv'
    BY <1>1, <1>4, EndSound
  <2>2. agent'[p] = Down /\ \A q \in Proxies : q # p => agent'[q] = agent[q]
    BY <1>1, <1>4 DEF RegistryTypeOK
  <2>3. QED
    BY <1>3, <1>4, <2>1, <2>2, DownSound
<1>5. ASSUME NEW b \in Agent, NEW by, NEW kind, agent[p].main # "down", b.main # "down",
             b.addr = agent[p].addr, b.registered = agent[p].registered,
             agent' = [agent EXCEPT ![p] = b], Post(p, agent[p].addr, by, kind),
             \/ by = "main" /\ kind \in {"register", "unregister"}
             \/ by = "beat" /\ kind \in {"register", "heartbeat"},
             UNCHANGED <<row, sweep, guest, starts, history>>
      PROVE  RegistryInv'
  <2>1. WireTypes' /\ SenderInv' /\ ProcessInv'
    BY <1>1, <1>5, PostSound
  <2>2. agent'[p] = b /\ \A q \in Proxies : q # p => agent'[q] = agent[q]
    BY <1>1, <1>5 DEF RegistryTypeOK
  <2>3. QED
    BY <1>3, <1>5, <2>1, <2>2
<1>6. ASSUME NEW b \in Agent, agent[p].main # "down", b.main # "down",
             b.addr = agent[p].addr, b.registered = agent[p].registered,
             agent' = [agent EXCEPT ![p] = b], slot' = slot,
             UNCHANGED <<row, sweep, guest, starts, history>>
      PROVE  RegistryInv'
  <2>1. /\ agent'[p] = b /\ \A q \in Proxies : q # p => agent'[q] = agent[q]
        /\ agent' \in [Proxies -> Agent]
    BY <1>1, <1>6 DEF RegistryTypeOK
  <2>2. WireTypes' /\ ProcessInv'
    BY <1>1, <1>6, <2>1 DEF WireTypes, ProcessInv
  <2>3. SenderInv'
    <3>1. ASSUME NEW s \in Slots, slot[s].by # Nothing
          PROVE  /\ agent'[slot[s].proxy].main # "down"
                 /\ slot[s].addr = agent'[slot[s].proxy].addr
      <4>1. slot[s].proxy \in Proxies
        BY <1>1, <3>1 DEF SenderInv, WireTypes, Request
      <4>2. QED
        BY <1>1, <1>6, <2>1, <3>1, <4>1 DEF SenderInv
    <3>2. QED
      BY <1>1, <1>6, <3>1 DEF SenderInv
  <2>4. QED
    BY <1>3, <1>6, <2>1, <2>2, <2>3
<1>7. CASE Listen(p)
  <2>1. CASE Listening(agent[p].addr)
    BY <1>4, <1>7, <2>1 DEF Listen
  <2>2. CASE ~Listening(agent[p].addr)
    <3> DEFINE b == [agent[p] EXCEPT !.main = "serving"]
    <3>1. /\ b \in Agent /\ b.main # "down" /\ b.addr = agent[p].addr
          /\ b.registered = agent[p].registered
      BY <1>1 DEF Agent
    <3>2. /\ agent[p].main # "down" /\ agent' = [agent EXCEPT ![p] = b] /\ slot' = slot
          /\ UNCHANGED <<row, sweep, guest, starts, history>>
      BY <1>1, <1>7, <2>2 DEF Listen, RegistryTypeOK
    <3> HIDE DEF b
    <3>3. QED
      BY <1>6, <3>1, <3>2
  <2>3. QED
    BY <2>1, <2>2
<1>8. CASE SendHeartbeat(p)
  <2> DEFINE b == [agent[p] EXCEPT !.beat = "heartbeat"]
  <2>1. agent[p].main # "down"
    BY <1>1, <1>8 DEF SendHeartbeat, ProcessInv
  <2>2. /\ b \in Agent /\ b.main # "down" /\ b.addr = agent[p].addr
        /\ b.registered = agent[p].registered
    BY <1>1, <2>1 DEF Agent
  <2>3. /\ agent' = [agent EXCEPT ![p] = b] /\ Post(p, agent[p].addr, "beat", "heartbeat")
        /\ UNCHANGED <<row, sweep, guest, starts, history>>
    BY <1>1, <1>8 DEF SendHeartbeat, RegistryTypeOK
  <2> HIDE DEF b
  <2>4. QED
    BY <1>5, <2>1, <2>2, <2>3
<1>9. CASE RegisterAgain(p)
  <2> DEFINE b == [agent[p] EXCEPT !.beat = "register"]
  <2>1. agent[p].main # "down"
    BY <1>1, <1>9 DEF RegisterAgain, ProcessInv
  <2>2. /\ b \in Agent /\ b.main # "down" /\ b.addr = agent[p].addr
        /\ b.registered = agent[p].registered
    BY <1>1, <2>1 DEF Agent
  <2>3. /\ agent' = [agent EXCEPT ![p] = b] /\ Post(p, agent[p].addr, "beat", "register")
        /\ UNCHANGED <<row, sweep, guest, starts, history>>
    BY <1>1, <1>9 DEF RegisterAgain, RegistryTypeOK
  <2> HIDE DEF b
  <2>4. QED
    BY <1>5, <2>1, <2>2, <2>3
<1>10. CASE StopAgent(p)
  <2>1. CASE agent[p].registered
    <3> DEFINE b == [agent[p] EXCEPT !.main = "unregistering"]
    <3>1. agent[p].main # "down"
      BY <1>10 DEF StopAgent
    <3>2. /\ b \in Agent /\ b.main # "down" /\ b.addr = agent[p].addr
          /\ b.registered = agent[p].registered
      BY <1>1 DEF Agent
    <3>3. /\ agent' = [agent EXCEPT ![p] = b] /\ Post(p, agent[p].addr, "main", "unregister")
          /\ UNCHANGED <<row, sweep, guest, starts, history>>
      BY <1>1, <1>10, <2>1 DEF StopAgent, RegistryTypeOK
    <3> HIDE DEF b
    <3>4. QED
      BY <1>5, <3>1, <3>2, <3>3
  <2>2. CASE ~agent[p].registered
    BY <1>4, <1>10, <2>2 DEF StopAgent
  <2>3. QED
    BY <2>1, <2>2
<1>11. CASE StopBeating(p)
  <2> DEFINE b == [agent[p] EXCEPT !.beat = "off"]
  <2>1. agent[p].main # "down"
    BY <1>11 DEF StopBeating
  <2>2. /\ b \in Agent /\ b.main # "down" /\ b.addr = agent[p].addr
        /\ b.registered = agent[p].registered
    BY <1>1, <2>1 DEF Agent
  <2>3. /\ agent' = [agent EXCEPT ![p] = b] /\ slot' = slot
        /\ UNCHANGED <<row, sweep, guest, starts, history>>
    BY <1>1, <1>11 DEF StopBeating, RegistryTypeOK
  <2> HIDE DEF b
  <2>4. QED
    BY <1>6, <2>1, <2>2, <2>3
<1>12. CASE CrashAgent(p)
  BY <1>4, <1>12 DEF CrashAgent
<1>13. QED
  BY <1>2, <1>7, <1>8, <1>9, <1>10, <1>11, <1>12 DEF AgentNext
\* A step of a request, or of the monitor, that leaves the rows' addresses.
LEMMA WireKeeps ==
  ASSUME RegistryInv, WireTypes', SenderInv', ProcessInv', row' \in [Proxies -> Row],
         sweep' \in [Monitors -> Sweep], UNCHANGED <<guest, starts, history>>,
         \A p \in Proxies :
           /\ row[p].status # "absent" => row'[p].status # "absent"
           /\ row'[p].addr = row[p].addr
           /\ agent'[p].main # "down" =>
                agent[p].main # "down" /\ agent'[p].addr = agent[p].addr
           /\ agent'[p].registered => agent[p].registered \/ row'[p].status # "absent"
  PROVE  RegistryInv'
<1>1. RegistryTypeOK /\ RegisteredHasRow /\ AddressCurrent
  BY DEF RegistryInv, RegistrySound
<1>2. RegistryTypeOK'
  BY <1>1 DEF RegistryTypeOK, WireTypes, history
<1>3. RegisteredHasRow' /\ AddressCurrent'
  BY <1>1, <1>2, QuietKeeps
<1>4. QED
  BY <1>2, <1>3 DEF RegistryInv, RegistrySound

\* What the invariant says of a request on its way.
LEMMA RequestSound ==
  ASSUME RegistryInv, NEW s \in Slots, slot[s].kind # "free"
  PROVE  /\ slot[s] \in Request /\ slot[s].proxy \in Proxies
         /\ row \in [Proxies -> Row] /\ sweep \in [Monitors -> Sweep]
         /\ agent \in [Proxies -> Agent] /\ WireTypes /\ SenderInv /\ ProcessInv
BY DEF RegistryInv, RegistrySound, RegistryTypeOK, WireTypes, SenderInv

LEMMA LoseKeeps ==
  ASSUME RegistryInv, NEW s \in Slots, Lose(s)
  PROVE  RegistryInv'
<1>1. /\ slot[s].kind # "free" /\ Reply(s, FALSE)
      /\ UNCHANGED <<row, sweep, guest, starts, history>>
  BY DEF Lose
<1>2. /\ WireTypes /\ SenderInv /\ ProcessInv
      /\ row \in [Proxies -> Row] /\ sweep \in [Monitors -> Sweep]
  BY <1>1, RequestSound
<1>3. /\ WireTypes' /\ SenderInv' /\ ProcessInv'
      /\ \A q \in Proxies :
           /\ agent'[q].main # "down" => agent[q].main # "down" /\ agent'[q].addr = agent[q].addr
           /\ agent'[q].registered => agent[q].registered
  BY <1>1, <1>2, ReplySound
<1>4. QED
  BY <1>1, <1>2, <1>3, WireKeeps

\* The sender gives up, and its request loses its sender.
LEMMA TimeOutKeeps ==
  ASSUME RegistryInv, NEW s \in Slots, TimeOut(s)
  PROVE  RegistryInv'
<1> DEFINE r == slot[s]
           p == r.proxy
           b == Answered(r, FALSE)
<1>1. /\ r.kind # "free" /\ r.by # Nothing /\ agent' = [agent EXCEPT ![p] = b]
      /\ slot' = IF r.kind = "unregister" THEN Orphaned(p)
                 ELSE [slot EXCEPT ![s].by = Nothing]
      /\ UNCHANGED <<row, sweep, guest, starts, history>>
  BY DEF TimeOut
<1>2. /\ WireTypes /\ SenderInv /\ ProcessInv
      /\ r \in Request /\ agent \in [Proxies -> Agent]
      /\ row \in [Proxies -> Row] /\ sweep \in [Monitors -> Sweep]
  BY <1>1, RequestSound
<1>3. /\ p \in Proxies /\ b \in Agent
      /\ r.kind = "unregister" => b = Down
      /\ r.kind # "unregister" => b.main # "down" /\ b.addr = agent[p].addr
      /\ b.registered => agent[p].registered
  BY <1>1, <1>2, AnsweredSound
<1>4. agent[p].main # "down"
  BY <1>1, <1>2 DEF SenderInv
<1> HIDE DEF b
<1>5. /\ agent' \in [Proxies -> Agent] /\ agent'[p] = b
      /\ \A q \in Proxies : q # p => agent'[q] = agent[q]
  BY <1>1, <1>2, <1>3
<1>6. WireTypes' /\ SenderInv' /\ ProcessInv'
  <2>1. CASE r.kind = "unregister"
    BY <1>1, <1>2, <1>3, <2>1, EndSound
  <2>2. CASE r.kind # "unregister"
    <3>1. /\ slot' \in [Slots -> Request] /\ slot'[s] = [r EXCEPT !.by = Nothing]
          /\ \A t \in Slots : t # s => slot'[t] = slot[t]
      BY <1>1, <1>2, <2>2 DEF WireTypes, Request
    <3>2. slot'[s].by = Nothing /\ slot'[s].proxy = p /\ slot'[s].kind = r.kind
      BY <1>2, <3>1 DEF Request
    <3>3. WireTypes' /\ ProcessInv'
      BY <1>2, <1>3, <1>5, <2>2, <3>1 DEF WireTypes, ProcessInv
    <3>4. ASSUME NEW t \in Slots, t # s, slot[t].by # Nothing
          PROVE  /\ agent'[slot[t].proxy].main # "down"
                 /\ slot[t].addr = agent'[slot[t].proxy].addr
      <4>1. slot[t].proxy \in Proxies
        BY <1>2, <3>4 DEF SenderInv, WireTypes, Request
      <4>2. /\ agent[slot[t].proxy].main # "down"
            /\ slot[t].addr = agent[slot[t].proxy].addr
        BY <1>2, <3>4 DEF SenderInv
      <4>3. QED
        BY <1>3, <1>5, <2>2, <4>1, <4>2
    <3>5. SenderInv'
      <4>1. ASSUME NEW t \in Slots, t # s
            PROVE  /\ slot'[t] = slot[t]
                   /\ slot[t].kind # "free" => slot[t].proxy \in Proxies
                   /\ slot[t].by = "main" => slot[t].kind \in {"register", "unregister"}
                   /\ slot[t].by = "beat" => slot[t].kind \in {"register", "heartbeat"}
        BY <1>2, <3>1, <4>1 DEF SenderInv
      <4>2. slot'[s].proxy \in Proxies /\ slot'[s].by # "main" /\ slot'[s].by # "beat"
        BY <1>3, <3>2 DEF Nothing
      <4>3. QED
        BY <3>2, <3>4, <4>1, <4>2 DEF SenderInv
    <3>6. QED
      BY <3>3, <3>5
  <2>3. QED
    BY <2>1, <2>2
<1>7. ASSUME NEW q \in Proxies
      PROVE  /\ agent'[q].main # "down" =>
                  agent[q].main # "down" /\ agent'[q].addr = agent[q].addr
             /\ agent'[q].registered => agent[q].registered
  BY <1>3, <1>4, <1>5, DownSound
<1>8. QED
  BY <1>1, <1>2, <1>6, <1>7, WireKeeps

\* The handlers: a registration writes the address that its sender still has, or
\* it is served after its sender's end and late says so.
LEMMA ServeKeeps ==
  ASSUME RegistryInv, NEW s \in Slots, Serve(s)
  PROVE  RegistryInv'
<1> DEFINE r == slot[s]
           p == r.proxy
<1>1. r.kind # "free"
  BY DEF Serve, RegisterFind, RegisterProxy, Heartbeat, Unregister
<1>2. /\ WireTypes /\ SenderInv /\ ProcessInv /\ r \in Request /\ p \in Proxies
      /\ row \in [Proxies -> Row] /\ sweep \in [Monitors -> Sweep]
      /\ agent \in [Proxies -> Agent]
  BY <1>1, RequestSound
<1>3. CASE RegisterFind(s)
  <2>1. /\ slot' = [slot EXCEPT ![s].found = FindProxy(p)]
        /\ FindProxy(p) \in {"yes", "no"}
        /\ UNCHANGED <<row, agent, sweep, guest, starts, history>>
    BY <1>3 DEF RegisterFind, FindProxy
  <2>2. /\ slot' \in [Slots -> Request]
        /\ \A t \in Slots : /\ slot'[t].kind = slot[t].kind /\ slot'[t].proxy = slot[t].proxy
                            /\ slot'[t].addr = slot[t].addr /\ slot'[t].by = slot[t].by
    BY <1>2, <2>1 DEF WireTypes, Request
  <2>3. WireTypes' /\ ProcessInv'
    BY <1>2, <2>1, <2>2 DEF WireTypes, ProcessInv
  <2>4. SenderInv'
    BY <1>2, <2>1, <2>2 DEF SenderInv
  <2>5. QED
    BY <1>2, <2>1, <2>3, <2>4, WireKeeps
<1>4. CASE RegisterProxy(s)
  <2> DEFINE ok == r.found = "yes" \/ row[p].status = "absent"
  <2>1. /\ row' = IF ok THEN [row EXCEPT ![p] = RegisterColumns(r)] ELSE row
        /\ Reply(s, ok) /\ r.kind = "register"
        /\ confirmed' = [confirmed EXCEPT ![p] = @ \/ (ok /\ r.by # Nothing)]
        /\ late' = [late EXCEPT ![p] = @ \/ (r.by = Nothing /\ r.addr # agent[p].addr)]
        /\ UNCHANGED <<sweep, guest, starts>>
    BY <1>4 DEF RegisterProxy
  <2>2. RegistryTypeOK /\ RegisteredHasRow /\ AddressCurrent
    BY DEF RegistryInv, RegistrySound
  <2>3. ok \in BOOLEAN
    OBVIOUS
  <2>4. ~ok => row[p].status # "absent"
    OBVIOUS
  <2>5. r.by # Nothing => r.addr = agent[p].addr
    BY <1>2 DEF SenderInv
  <2> HIDE DEF ok
  <2>6. /\ WireTypes' /\ SenderInv' /\ ProcessInv'
        /\ \A q \in Proxies :
             /\ agent'[q].main # "down" =>
                  agent[q].main # "down" /\ agent'[q].addr = agent[q].addr
             /\ agent'[q].registered => agent[q].registered \/ (q = p /\ ok)
    BY <1>1, <1>2, <2>1, <2>3, ReplySound
  <2>7. /\ row' \in [Proxies -> Row]
        /\ ok => row'[p].status = "online" /\ row'[p].addr = r.addr
        /\ ~ok => row'[p] = row[p]
        /\ \A q \in Proxies : q # p => row'[q] = row[q]
    BY <1>2, <2>1 DEF RegisterColumns, Row, Request
  <2>8. /\ confirmed' \in [Proxies -> BOOLEAN] /\ late' \in [Proxies -> BOOLEAN]
        /\ confirmed'[p] = (confirmed[p] \/ (ok /\ r.by # Nothing))
        /\ late'[p] = (late[p] \/ (r.by = Nothing /\ r.addr # agent[p].addr))
        /\ \A q \in Proxies : q # p => confirmed'[q] = confirmed[q] /\ late'[q] = late[q]
    BY <1>2, <2>1, <2>2 DEF RegistryTypeOK
  <2>9. RegistryTypeOK'
    BY <2>1, <2>2, <2>6, <2>7, <2>8 DEF RegistryTypeOK, WireTypes
  <2>10. RegisteredHasRow'
    <3>1. ASSUME NEW q \in Proxies, agent'[q].registered PROVE row'[q].status # "absent"
      <4>1. CASE q = p /\ ok
        BY <2>7, <4>1
      <4>2. CASE ~(q = p /\ ok)
        <5>1. agent[q].registered
          BY <2>6, <3>1, <4>2
        <5>2. row[q].status # "absent"
          BY <2>2, <5>1 DEF RegisteredHasRow
        <5>3. QED
          BY <2>7, <4>2, <5>2
      <4>3. QED
        BY <4>1, <4>2
    <3>2. QED
      BY <3>1 DEF RegisteredHasRow
  <2>11. AddressCurrent'
    <3>1. ASSUME NEW q \in Proxies, agent'[q].main # "down", confirmed'[q], ~late'[q]
          PROVE  row'[q].addr = agent'[q].addr
      <4>1. agent[q].main # "down" /\ agent'[q].addr = agent[q].addr
        BY <2>6, <3>1
      <4>2. CASE q # p
        <5>1. confirmed[q] /\ ~late[q] /\ row'[q] = row[q]
          BY <2>7, <2>8, <3>1, <4>2
        <5>2. QED
          BY <2>2, <4>1, <5>1 DEF AddressCurrent
      <4>3. CASE q = p /\ ok
        <5>1. row'[q].addr = r.addr
          BY <2>7, <4>3
        <5>2. r.by = Nothing => r.addr = agent[p].addr
          BY <2>8, <3>1, <4>3
        <5>3. QED
          BY <2>5, <4>1, <4>3, <5>1, <5>2
      <4>4. CASE q = p /\ ~ok
        <5>1. confirmed[q] /\ ~late[q] /\ row'[q] = row[q]
          BY <2>7, <2>8, <3>1, <4>4
        <5>2. QED
          BY <2>2, <4>1, <5>1 DEF AddressCurrent
      <4>5. QED
        BY <4>2, <4>3, <4>4
    <3>2. QED
      BY <3>1 DEF AddressCurrent
  <2>12. QED
    BY <2>6, <2>9, <2>10, <2>11 DEF RegistryInv, RegistrySound
<1>5. ASSUME NEW ok \in BOOLEAN, NEW new \in {"online", "offline"}, Reply(s, ok),
             row' = IF row[p].status = "absent" THEN row ELSE [row EXCEPT ![p].status = new],
             ok /\ r.kind \in {"register", "heartbeat"} => row[p].status # "absent",
             UNCHANGED <<sweep, guest, starts, history>>
      PROVE  RegistryInv'
  <2>1. /\ WireTypes' /\ SenderInv' /\ ProcessInv'
        /\ \A q \in Proxies :
             /\ agent'[q].main # "down" =>
                  agent[q].main # "down" /\ agent'[q].addr = agent[q].addr
             /\ agent'[q].registered =>
                  \/ agent[q].registered
                  \/ q = p /\ ok /\ r.kind \in {"register", "heartbeat"}
    BY <1>1, <1>2, <1>5, ReplySound
  <2>2. /\ row' \in [Proxies -> Row]
        /\ \A q \in Proxies : /\ row[q].status # "absent" => row'[q].status # "absent"
                              /\ row'[q].addr = row[q].addr
    BY <1>2, <1>5 DEF Row
  <2>3. QED
    BY <1>2, <1>5, <2>1, <2>2, WireKeeps
<1>6. CASE Heartbeat(s)
  <2>1. /\ Reply(s, row[p].status # "absent")
        /\ row' = IF row[p].status = "absent" THEN row ELSE [row EXCEPT ![p].status = "online"]
        /\ UNCHANGED <<sweep, guest, starts, history>>
    BY <1>6 DEF Heartbeat
  <2>2. QED
    BY <1>5, <2>1
<1>7. CASE Unregister(s)
  <2>1. /\ Reply(s, TRUE) /\ r.kind = "unregister"
        /\ row' = IF row[p].status = "absent" THEN row ELSE [row EXCEPT ![p].status = "offline"]
        /\ UNCHANGED <<sweep, guest, starts, history>>
    BY <1>7 DEF Unregister
  <2>2. QED
    BY <1>5, <2>1
<1>8. QED
  BY <1>3, <1>4, <1>6, <1>7 DEF Serve

\* The monitor writes a status into rows, never an address.
LEMMA MonitorKeeps ==
  ASSUME RegistryInv, NEW m \in Monitors, Monitor(m)
  PROVE  RegistryInv'
<1>1. /\ RegistryTypeOK /\ WireTypes /\ SenderInv /\ ProcessInv
      /\ row \in [Proxies -> Row] /\ sweep \in [Monitors -> Sweep] /\ sweep[m] \in Sweep
  BY DEF RegistryInv, RegistrySound, RegistryTypeOK, WireTypes
<1>2. ASSUME row' \in [Proxies -> Row], sweep' \in [Monitors -> Sweep],
             \A p \in Proxies : /\ row[p].status # "absent" => row'[p].status # "absent"
                                /\ row'[p].addr = row[p].addr,
             UNCHANGED <<agent, slot, guest, starts, history>>
      PROVE  RegistryInv'
  <2>1. WireTypes' /\ SenderInv' /\ ProcessInv'
    BY <1>1, <1>2 DEF WireTypes, SenderInv, ProcessInv
  <2>2. QED
    BY <1>2, <2>1, WireKeeps
<1>3. CASE CheckProxies(m)
  <2>1. /\ sweep' = [sweep EXCEPT ![m] = [todo |-> Rows, snap |-> row,
                                          probed |-> Nothing, up |-> FALSE]]
        /\ UNCHANGED <<row, agent, slot, guest, starts, history>>
    BY <1>3 DEF CheckProxies
  <2>2. Rows \in SUBSET Proxies
    BY DEF Rows
  <2>3. sweep' \in [Monitors -> Sweep]
    BY <1>1, <2>1, <2>2 DEF Sweep
  <2>4. QED
    BY <1>1, <1>2, <2>1, <2>3
<1>4. ASSUME NEW p \in Proxies, ProbeProxy(m, p) PROVE RegistryInv'
  <2>1. PICK up \in CheckProxyHealth(sweep[m].snap[p].addr) :
          sweep' = [sweep EXCEPT ![m].probed = p, ![m].up = up]
    BY <1>4 DEF ProbeProxy
  <2>2. up \in BOOLEAN
    BY <2>1 DEF CheckProxyHealth, Listening
  <2>3. sweep' \in [Monitors -> Sweep]
    BY <1>1, <2>1, <2>2 DEF Sweep
  <2>4. QED
    BY <1>1, <1>2, <1>4, <2>3 DEF ProbeProxy
<1>5. CASE UpdateProxyStatus(m)
  <2> DEFINE p == sweep[m].probed
             new == IF sweep[m].up THEN "online" ELSE "offline"
  <2>1. /\ p # Nothing
        /\ row' = IF sweep[m].snap[p].status # new THEN [row EXCEPT ![p].status = new] ELSE row
        /\ sweep' = [sweep EXCEPT ![m].todo = @ \ {p}, ![m].snap[p] = NoRow,
                                  ![m].probed = Nothing, ![m].up = FALSE]
        /\ UNCHANGED <<agent, slot, guest, starts, history>>
    BY <1>5 DEF UpdateProxyStatus
  <2>2. p \in Proxies /\ new \in {"online", "offline"}
    BY <1>1, <2>1 DEF Sweep
  <2> HIDE DEF new
  <2>3. /\ row' \in [Proxies -> Row]
        /\ \A q \in Proxies : /\ row[q].status # "absent" => row'[q].status # "absent"
                              /\ row'[q].addr = row[q].addr
    BY <1>1, <2>1, <2>2 DEF Row
  <2>4. sweep' \in [Monitors -> Sweep]
    <3>1. NoRow \in Row
      BY DEF NoRow, Row
    <3>2. sweep'[m] = [sweep[m] EXCEPT !.todo = @ \ {p}, !.snap = [@ EXCEPT ![p] = NoRow],
                                       !.probed = Nothing, !.up = FALSE]
      BY <1>1, <2>1
    <3>3. sweep'[m] \in Sweep
      <4>1. [sweep[m].snap EXCEPT ![p] = NoRow] \in [Proxies -> Row]
        BY <1>1, <3>1 DEF Sweep
      <4>2. sweep[m].todo \ {p} \in SUBSET Proxies
        BY <1>1 DEF Sweep
      <4>3. QED
        BY <1>1, <3>2, <4>1, <4>2 DEF Sweep
    <3>4. QED
      BY <1>1, <2>1, <3>3
  <2>5. QED
    BY <1>2, <2>1, <2>3, <2>4
<1>6. QED
  BY <1>3, <1>4, <1>5 DEF Monitor

\* The invariant holds of every behaviour of agents, network, handlers and
\* monitors.
THEOREM RegistryInvHolds == RegistrySpec => []RegistryInv
<1>1. RegistryInit => RegistryInv
  <2>1. SUFFICES ASSUME RegistryInit PROVE RegistryInv
    OBVIOUS
  <2>2. NoRow \in Row /\ NoRow.status = "absent" /\ Resting \in Sweep
    BY DEF NoRow, Row, Resting, Sweep
  <2>3. RegistryTypeOK
    BY <2>1, <2>2, DownSound, FreeSound, ProxyAssumption DEF RegistryInit, RegistryTypeOK
  <2>4. RegisteredHasRow /\ AddressCurrent /\ ProcessInv
    BY <2>1, DownSound DEF RegistryInit, RegisteredHasRow, AddressCurrent, ProcessInv
  <2>5. SenderInv
    BY <2>1, FreeSound DEF RegistryInit, SenderInv, Nothing
  <2>6. QED
    BY <2>3, <2>4, <2>5 DEF RegistryInv, RegistrySound
<1>2. RegistryInv /\ [RegistryNext]_registryVars => RegistryInv'
  <2>1. SUFFICES ASSUME RegistryInv, [RegistryNext]_registryVars PROVE RegistryInv'
    OBVIOUS
  <2>2. ASSUME NEW p \in Proxies, AgentNext(p) PROVE RegistryInv'
    BY <2>1, <2>2, AgentKeeps
  <2>3. ASSUME NEW s \in Slots, Serve(s) \/ Lose(s) \/ TimeOut(s) PROVE RegistryInv'
    BY <2>1, <2>3, ServeKeeps, LoseKeeps, TimeOutKeeps
  <2>4. ASSUME NEW m \in Monitors, Monitor(m) PROVE RegistryInv'
    BY <2>1, <2>4, MonitorKeeps
  <2>5. RegistryTypeOK /\ SenderInv /\ ProcessInv /\ RegisteredHasRow /\ AddressCurrent
    BY <2>1 DEF RegistryInv, RegistrySound
  <2>6. ASSUME NEW a \in SharedAddrs \cup {Nothing}, GuestMoves(a) PROVE RegistryInv'
    BY <2>5, <2>6
    DEF GuestMoves, RegistryInv, RegistrySound, RegistryTypeOK, SenderInv, ProcessInv,
        RegisteredHasRow, AddressCurrent, history
  <2>7. CASE UNCHANGED registryVars
    BY <2>5, <2>7
    DEF registryVars, history, RegistryInv, RegistrySound, RegistryTypeOK, SenderInv, ProcessInv,
        RegisteredHasRow, AddressCurrent
  <2>8. QED
    BY <2>1, <2>2, <2>3, <2>4, <2>6, <2>7 DEF RegistryNext
<1>3. QED
  BY <1>1, <1>2, PTL DEF RegistrySpec

\* Whatever is lost, late or collides: an agent that takes itself for registered
\* has a row, and the row has its address unless an earlier run's registration
\* was served late, for any number of agents, requests and monitors.
THEOREM RegistrySoundHolds == RegistrySpec => []RegistrySound
<1>1. RegistryInv => RegistrySound
  BY DEF RegistryInv
<1>2. QED
  BY <1>1, RegistryInvHolds, PTL
=============================================================================

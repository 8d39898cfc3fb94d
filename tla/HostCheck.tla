------------------------------ MODULE HostCheck ------------------------------
(***************************************************************************)
(* The periodic host check of several server instances, serialised by a     *)
(* lock with a lease in Redis: checkAllHosts, checkAllHostsWithLock,        *)
(* doCheckAllHosts and CheckHostStatusNow in service/host_monitor_service.go *)
(* and the whole of pkg/distributed/redis_lock.go.                          *)
(*                                                                         *)
(* Time is discrete.  An instance is one process; it runs its checks one    *)
(* after the other, so its name stands for the UUID its current lock uses.  *)
(***************************************************************************)
EXTENDS Integers

CONSTANTS
  Instances,  \* server processes sharing the database and Redis
  Hosts,
  None,       \* the lock's key does not exist
  Interval,   \* the ticker's period
  Expiry,     \* the lock's expiry, 2 * Interval in the code
  Period,     \* the renewal period, Expiry / 3 in the code
  MaxFaults,  \* Redis errors, pauses and crashes (bound)
  MaxManual   \* checks triggered by hand (bound)

ASSUME HostCheckAssumption ==
  /\ Interval \in Nat \ {0} /\ Expiry \in Nat /\ Period \in Nat
  /\ 0 < Period /\ Period < Expiry
  /\ MaxFaults \in Nat /\ MaxManual \in Nat
  /\ None \notin Instances

VARIABLES
  key,     \* whose value the lock's key holds
  ttl,     \* its remaining lease; 0 means that it does not expire
  phase,   \* "idle", "load", "check", "unlock" or "down", per instance
  renew,   \* the autoRenew goroutine of the current lock
  due,     \* time until its next renewal
  wait,    \* time until the instance's ticker fires
  snap,    \* host statuses read at the start of the check
  probe,   \* per host of the running check: "todo", a result, or "done"
  status,  \* hosts.status
  manual,  \* per host, the result of a check triggered by hand
  asked,   \* how many were triggered
  last,    \* the result of the latest probe of a host
  faults

lock   == <<key, ttl>>
timers == <<renew, due, wait>>
check  == <<phase, snap, probe>>
hand   == <<manual, asked>>
vars   == <<key, ttl, phase, renew, due, wait, snap, probe, status, manual,
            asked, last, faults>>

Result == {"online", "offline"}

\* hosts.status; a new host's is unknown.
Status == Result \cup {"unknown"}

LockType ==
  /\ key \in Instances \cup {None}
  /\ ttl \in 0 .. Expiry
  /\ faults \in Nat

TimerType ==
  /\ phase \in [Instances -> {"idle", "load", "check", "unlock", "down"}]
  /\ renew \in [Instances -> {"on", "off"}]
  /\ due \in [Instances -> 0 .. Period]
  /\ wait \in [Instances -> 0 .. Interval]

HostType ==
  /\ snap \in [Instances -> [Hosts -> Status]]
  /\ probe \in [Instances -> [Hosts -> {"todo", "done"} \cup Result]]
  /\ status \in [Hosts -> Status]
  /\ last \in [Hosts -> Status]
  /\ manual \in [Hosts -> {"none"} \cup Result]
  /\ asked \in Nat

TypeOK == LockType /\ TimerType /\ HostType

Init ==
  /\ key = None /\ ttl = 0
  /\ phase = [i \in Instances |-> "idle"]
  /\ renew = [i \in Instances |-> "off"]
  /\ due = [i \in Instances |-> Period]
  /\ wait \in [Instances -> 0 .. Interval]
  /\ status = [h \in Hosts |-> "unknown"]
  /\ last = status
  /\ snap = [i \in Instances |-> status]
  /\ probe = [i \in Instances |-> [h \in Hosts |-> "done"]]
  /\ manual = [h \in Hosts |-> "none"] /\ asked = 0
  /\ faults = 0

Fault == faults < MaxFaults /\ faults' = faults + 1

-----------------------------------------------------------------------------
(* The lock.                                                                *)

\* Mistake: SET NX without an expiry.
LeaseForever == 0

\* Mistake: twice the lease that was asked for.
LeaseDoubled == 2 * Expiry

\* The lease TryLock asks for.
Lease == Expiry

\* Mistake: SET instead of SET NX.
FreeAlways == TRUE

\* SET NX succeeds when the key does not exist.
Free == key = None

\* A tick is taken.  The ticker keeps its phase: when this one was taken late,
\* because the previous check took long, the next comes sooner.
TakeTick(i) ==
  /\ phase[i] = "idle" /\ wait[i] = 0
  /\ \E w \in 1 .. Interval : wait' = [wait EXCEPT ![i] = w]

\* TryLock gets the lock and starts autoRenew.
StartCheck(i) ==
  /\ TakeTick(i) /\ Free
  /\ key' = i /\ ttl' = Lease
  /\ phase' = [phase EXCEPT ![i] = "load"]
  /\ renew' = [renew EXCEPT ![i] = "on"]
  /\ due' = [due EXCEPT ![i] = Period]
  /\ UNCHANGED <<snap, probe, status, hand, last, faults>>

\* The key exists, or Redis fails: the check is skipped until the next tick.
SkipCheck(i) ==
  /\ TakeTick(i)
  /\ \/ ~Free /\ UNCHANGED faults
     \/ Fault
  /\ UNCHANGED <<lock, check, renew, due, status, hand, last>>

\* Mistake: the lease is extended whoever holds it.
OwnedOrNot(i) == key # None

\* The script of autoRenew extends the lease only if the key holds the lock's
\* own value.
Owned(i) == key = i

\* One turn of autoRenew; an error or a lost lock ends it.
AutoRenew(i) ==
  /\ renew[i] = "on" /\ due[i] = 0 /\ phase[i] # "down"
  /\ \/ /\ Owned(i)
        /\ ttl' = Expiry
        /\ due' = [due EXCEPT ![i] = Period]
        /\ UNCHANGED <<renew, faults>>
     \/ /\ ~Owned(i)
        /\ renew' = [renew EXCEPT ![i] = "off"]
        /\ UNCHANGED <<ttl, due, faults>>
     \/ /\ Fault
        /\ renew' = [renew EXCEPT ![i] = "off"]
        /\ UNCHANGED <<ttl, due>>
  /\ UNCHANGED <<key, check, wait, status, hand, last>>

\* Unlock cancels the lock's context, which ends autoRenew, and then runs the
\* releasing script under that cancelled context: Redis never sees it.
Unlock(i) ==
  /\ phase[i] = "unlock"
  /\ phase' = [phase EXCEPT ![i] = "idle"]
  /\ renew' = [renew EXCEPT ![i] = "off"]
  /\ UNCHANGED <<lock, due, wait, snap, probe, status, hand, last, faults>>

-----------------------------------------------------------------------------
(* The check.                                                               *)

\* doCheckAllHosts reads the hosts; if it cannot, it gives up.
LoadHosts(i) ==
  /\ phase[i] = "load"
  /\ \/ /\ phase' = [phase EXCEPT ![i] = "check"]
        /\ snap' = [snap EXCEPT ![i] = status]
        /\ probe' = [probe EXCEPT ![i] = [h \in Hosts |-> "todo"]]
        /\ UNCHANGED faults
     \/ /\ Fault
        /\ phase' = [phase EXCEPT ![i] = "unlock"]
        /\ UNCHANGED <<snap, probe>>
  /\ UNCHANGED <<lock, timers, status, hand, last>>

\* A goroutine of doCheckAllHosts probes a host; the answer is the host's.
Probe(i, h, r) ==
  /\ phase[i] = "check" /\ probe[i][h] = "todo"
  /\ probe' = [probe EXCEPT ![i][h] = r]
  /\ last' = [last EXCEPT ![h] = r]
  /\ UNCHANGED <<lock, phase, timers, snap, status, hand, faults>>

\* The row is written only if the result differs from the status read at the
\* start of the check.
Changed(i, h) == snap[i][h] # probe[i][h]

\* A failing write is only logged.
UpdateStatus(i, h) ==
  /\ phase[i] = "check" /\ probe[i][h] \in Result
  /\ \/ /\ status' = IF Changed(i, h) THEN [status EXCEPT ![h] = probe[i][h]]
                                      ELSE status
        /\ UNCHANGED faults
     \/ /\ Changed(i, h) /\ Fault
        /\ UNCHANGED status
  /\ probe' = [probe EXCEPT ![i][h] = "done"]
  /\ UNCHANGED <<lock, phase, timers, snap, hand, last>>

\* wg.Wait returns.
EndCheck(i) ==
  /\ phase[i] = "check" /\ \A h \in Hosts : probe[i][h] = "done"
  /\ phase' = [phase EXCEPT ![i] = "unlock"]
  /\ UNCHANGED <<lock, timers, snap, probe, status, hand, last, faults>>

\* CheckHostStatusNow probes a host and writes its row in any case.
ProbeNow(h, r) ==
  /\ manual[h] = "none" /\ asked < MaxManual
  /\ asked' = asked + 1
  /\ manual' = [manual EXCEPT ![h] = r]
  /\ last' = [last EXCEPT ![h] = r]
  /\ UNCHANGED <<lock, check, timers, status, faults>>

UpdateNow(h) ==
  /\ manual[h] # "none"
  /\ \/ status' = [status EXCEPT ![h] = manual[h]] /\ UNCHANGED faults
     \/ Fault /\ UNCHANGED status
  /\ manual' = [manual EXCEPT ![h] = "none"]
  /\ UNCHANGED <<lock, check, timers, asked, last>>

-----------------------------------------------------------------------------
(* Time and failures.                                                       *)

Less(m, n) == IF m > n THEN m - n ELSE 0

\* n units of time pass: Redis drops the key when its lease ends.
Advance(n) ==
  /\ key' = IF ttl \in 1 .. n THEN None ELSE key
  /\ ttl' = Less(ttl, n)
  /\ due' = [i \in Instances |-> Less(due[i], n)]
  /\ wait' = [i \in Instances |-> Less(wait[i], n)]
  /\ UNCHANGED <<check, renew, status, hand, last>>

\* Renewals that are due happen before time goes on ...
Tick ==
  /\ \A i \in Instances : renew[i] = "on" => due[i] > 0
  /\ Advance(1)
  /\ UNCHANGED faults

\* ... unless the process is paused.
Pause ==
  /\ \E i \in Instances : renew[i] = "on" /\ due[i] = 0
  /\ \E n \in 1 .. Expiry : Advance(n)
  /\ Fault

\* A process dies; its lease runs out by itself.
Crash(i) ==
  /\ phase[i] # "down" /\ Fault
  /\ phase' = [phase EXCEPT ![i] = "down"]
  /\ renew' = [renew EXCEPT ![i] = "off"]
  /\ UNCHANGED <<lock, due, wait, snap, probe, status, hand, last>>

\* It is started again: a new ticker, no lock.
Restart(i) ==
  /\ phase[i] = "down"
  /\ phase' = [phase EXCEPT ![i] = "idle"]
  /\ wait' = [wait EXCEPT ![i] = Interval]
  /\ UNCHANGED <<lock, renew, due, snap, probe, status, hand, last, faults>>

-----------------------------------------------------------------------------
Step(i) ==
  \/ StartCheck(i) \/ SkipCheck(i) \/ AutoRenew(i) \/ Unlock(i)
  \/ LoadHosts(i) \/ EndCheck(i) \/ Crash(i) \/ Restart(i)
  \/ \E h \in Hosts : UpdateStatus(i, h) \/ (\E r \in Result : Probe(i, h, r))

Next ==
  \/ Tick \/ Pause
  \/ \E i \in Instances : Step(i)
  \/ \E h \in Hosts : UpdateNow(h) \/ (\E r \in Result : ProbeNow(h, r))

Spec == Init /\ [][Next]_vars

\* Time goes on, and so do renewals and running checks.
Fairness ==
  /\ WF_vars(Tick \/ Pause)
  /\ \A i \in Instances : WF_vars(AutoRenew(i)) /\ WF_vars(LoadHosts(i) \/ EndCheck(i) \/ Unlock(i))
  /\ \A i \in Instances, h \in Hosts :
       WF_vars(UpdateStatus(i, h) \/ \E r \in Result : Probe(i, h, r))

FairSpec == Spec /\ Fairness

-----------------------------------------------------------------------------
(* Properties.                                                              *)

Checking == {i \in Instances : phase[i] = "check"}

\* As long as nothing failed and no process was paused, at most one
\* instance is checking hosts: SET NX and the renewal keep the others out,
\* however long the check takes (host_monitor_service.go 295-320,
\* redis_lock.go 37-50, 79-110).
OneChecker == faults = 0 => \A i, j \in Checking : i = j

\* The lock is well typed (no lease exceeds what was asked for), and without
\* failures it lets one instance check at a time.
LeaseSound == TypeOK /\ OneChecker

\* When no check is running, a host's row shows the latest probe of it, if
\* nobody checked by hand and nothing failed: skipping the write of an
\* unchanged status is sound only because checks exclude each other
\* (host_monitor_service.go 372-382).
RowsShowLatestProbe ==
  faults = 0 /\ asked = 0 /\ Checking = {} => status = last

\* A lease is extended only for an instance that is still renewing it: one
\* that lost its lock while it was paused cannot prolong its successor's
\* (redis_lock.go 87-93).
ExtendedByOwner ==
  [][(key' = key /\ ttl' > ttl /\ key \in Instances) => (renew[key] = "on")]_vars

\* A crashed instance does not keep the lock: the key expires.
CrashedLeaseEnds ==
  \A i \in Instances : (phase[i] = "down" /\ key = i) ~> (key # i)

\* host_monitor_service.go 308: a tick is skipped because another instance is
\* checking hosts.
SkippedOnlyWhileChecking ==
  [][\A i \in Instances :
       (faults' = 0 /\ phase[i] = "idle" /\ wait[i] < wait'[i] /\ key' = key)
         => \E j \in Instances : phase[j] \in {"load", "check", "unlock"}]_vars

-----------------------------------------------------------------------------
(* Inductive strengthening, used by Monitoring_proofs.                      *)

\* While nothing has failed, an instance that checks holds the key with a
\* lease that outlasts its next renewal.
LeaseInv ==
  faults = 0 => \A i \in Instances :
    phase[i] \in {"load", "check", "unlock"} =>
      /\ key = i
      /\ renew[i] = "on"
      /\ ttl >= Expiry - Period + due[i]

\* What a running check has done to the row of host h.
RowInv(h) ==
  /\ Checking = {} => status[h] = last[h]
  /\ \A i \in Checking :
       /\ probe[i][h] = "todo" => status[h] = last[h] /\ snap[i][h] = status[h]
       /\ probe[i][h] \in Result => last[h] = probe[i][h] /\ snap[i][h] = status[h]
       /\ probe[i][h] = "done" => status[h] = last[h]

RowsInv ==
  /\ faults = 0 /\ asked = 0 => \A h \in Hosts : RowInv(h)
  /\ asked = 0 => \A h \in Hosts : manual[h] = "none"
=============================================================================

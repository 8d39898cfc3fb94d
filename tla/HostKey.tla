------------------------------ MODULE HostKey -------------------------------
(***************************************************************************)
(* The gateway's host key when an instance starts.  Instances share a row  *)
(* of ssh_host_keys, which the first one to start fills if the schema has  *)
(* not; a file or a key of the process's own are the other settings.  The  *)
(* table has a unique index on type and name.  Keys are numbered by the    *)
(* start that generates them.                                              *)
(***************************************************************************)
EXTENDS Naturals

CONSTANTS Instances,        \* processes that run the gateway
          SharedInstances,  \* those with UseSharedHostKey
          FileInstances,    \* those with a HostKeyPath
          MaxStarts,        \* bound: starts of processes, all together
          MaxFaults         \* bound: queries and file operations that fail

ASSUME HostKeyAssumption ==
  /\ SharedInstances \subseteq Instances /\ FileInstances \subseteq Instances
  /\ MaxStarts \in Nat /\ MaxFaults \in Nat

VARIABLES
  instance,     \* instance[i]: how far the process is
  hostKey,      \* hostKey[i]: the key it presents to clients
  startNo,      \* startNo[i]: the number of its last start
  starts,       \* starts so far
  hostKeyRow,   \* the row of ssh_host_keys
  hostKeyFile,  \* hostKeyFile[i]: the file at its HostKeyPath
  faults        \* failures so far

keyVars == <<instance, hostKey, startNo, starts, hostKeyRow, hostKeyFile>>

NoKey == 0
ShippedKey == MaxStarts + 1   \* the row that init.sql inserts
Keys == 1..ShippedKey
InstanceStates ==
  {"down", "query", "generate", "local", "up", "noGateway", "stopping"}

HostKeyTypeOK ==
  /\ instance \in [Instances -> InstanceStates]
  /\ hostKey \in [Instances -> Keys \cup {NoKey}]
  /\ startNo \in [Instances -> 0..MaxStarts]
  /\ starts \in 0..MaxStarts /\ faults \in 0..MaxFaults
  /\ hostKeyRow \in Keys \cup {NoKey}
  /\ hostKeyFile \in [Instances -> Keys \cup {NoKey}]

HostKeyInit ==
  /\ instance = [i \in Instances |-> "down"]
  /\ hostKey = [i \in Instances |-> NoKey]
  /\ startNo = [i \in Instances |-> 0]
  /\ starts = 0 /\ faults = 0
  /\ hostKeyRow \in {NoKey, ShippedKey}
  /\ hostKeyFile = [i \in Instances |-> NoKey]

Fault == faults < MaxFaults /\ faults' = faults + 1

\* AddHostKey, and then the server listens.
Serve(i, k) ==
  /\ instance' = [instance EXCEPT ![i] = "up"]
  /\ hostKey' = [hostKey EXCEPT ![i] = k]

Becomes(i, state) ==
  /\ instance' = [instance EXCEPT ![i] = state]
  /\ UNCHANGED hostKey

\* Without a key from the database: the file if there is a path, and no
\* gateway otherwise; the rest of the process goes on.
WithoutSharedKey(i) ==
  Becomes(i, IF i \in FileInstances THEN "local" ELSE "noGateway")

Start(i) ==
  /\ instance[i] = "down" /\ starts < MaxStarts
  /\ starts' = starts + 1
  /\ startNo' = [startNo EXCEPT ![i] = starts + 1]
  /\ Becomes(i, IF i \in SharedInstances THEN "query" ELSE "local")
  /\ UNCHANGED <<hostKeyRow, hostKeyFile, faults>>

\* GetOrGenerateSharedHostKey reads the row, and parses it.
QueryHostKey(i) ==
  /\ instance[i] = "query"
  /\ \/ hostKeyRow # NoKey /\ Serve(i, hostKeyRow) /\ UNCHANGED faults
     \/ hostKeyRow = NoKey /\ Becomes(i, "generate") /\ UNCHANGED faults
     \/ Fault /\ WithoutSharedKey(i)
  /\ UNCHANGED <<startNo, starts, hostKeyRow, hostKeyFile>>

\* Mistake: the key just generated is used although its INSERT failed.
CreateHostKeyAnyway(i) ==
  /\ instance[i] = "generate"
  /\ hostKeyRow' = IF hostKeyRow = NoKey THEN startNo[i] ELSE hostKeyRow
  /\ Serve(i, startNo[i])
  /\ UNCHANGED <<startNo, starts, hostKeyFile, faults>>

\* A new key is inserted; if another instance was first, the unique index
\* refuses it, and the start goes on without a shared key.
CreateHostKey(i) ==
  /\ instance[i] = "generate"
  /\ \/ /\ hostKeyRow = NoKey /\ hostKeyRow' = startNo[i]
        /\ Serve(i, startNo[i]) /\ UNCHANGED faults
     \/ hostKeyRow # NoKey /\ WithoutSharedKey(i) /\ UNCHANGED <<hostKeyRow, faults>>
     \/ Fault /\ WithoutSharedKey(i) /\ UNCHANGED hostKeyRow
  /\ UNCHANGED <<startNo, starts, hostKeyFile>>

\* loadOrGenerateHostKey: the file, or a new one.  As the fallback of a shared
\* key it runs twice, so that it may fail with the file in place.
KeyInFile(i) == IF hostKeyFile[i] # NoKey THEN hostKeyFile[i] ELSE startNo[i]
LoadOrGenerateHostKey(i) ==
  /\ instance[i] = "local" /\ i \in FileInstances
  /\ \/ /\ hostKeyFile[i] # NoKey /\ Serve(i, hostKeyFile[i])
        /\ UNCHANGED <<hostKeyFile, faults>>
     \/ /\ hostKeyFile[i] = NoKey /\ Serve(i, startNo[i])
        /\ hostKeyFile' = [hostKeyFile EXCEPT ![i] = startNo[i]]
        /\ UNCHANGED faults
     \/ /\ Fault /\ Becomes(i, "noGateway")
        /\ hostKeyFile' \in {hostKeyFile, [hostKeyFile EXCEPT ![i] = KeyInFile(i)]}
  /\ UNCHANGED <<startNo, starts, hostKeyRow>>

\* Neither database nor file: a key that lives as long as the process.
TemporaryKey(i) ==
  /\ instance[i] = "local" /\ i \notin FileInstances
  /\ Serve(i, startNo[i])
  /\ UNCHANGED <<startNo, starts, hostKeyRow, hostKeyFile, faults>>

\* The process ends, at any time.
ProcessEnds(i) ==
  /\ instance[i] # "down"
  /\ instance' = [instance EXCEPT ![i] = "down"]
  /\ hostKey' = [hostKey EXCEPT ![i] = NoKey]
  /\ UNCHANGED <<startNo, starts, hostKeyRow, hostKeyFile, faults>>

SetupHostKey(i) ==
  Start(i) \/ QueryHostKey(i) \/ CreateHostKey(i) \/ LoadOrGenerateHostKey(i)
    \/ TemporaryKey(i)

=============================================================================

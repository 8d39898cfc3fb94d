--------------------------- MODULE WebSession_proofs ---------------------------
(***************************************************************************)
(* Proofs about WebSession for every capacity of errChan and every number   *)
(* of chunks and failing statements.                                        *)
(***************************************************************************)
EXTENDS WebSession, TLAPS

\* The actions that leave the rows and the handler's flags alone.
Quiet ==
  UNCHANGED <<pc, mode, success, rec, login, recording, faults>>

\* The copiers and the countdown are among them.
LEMMA CopiersAreQuiet ==
  ASSUME NEW p \in Pumps,
         Copier(p) \/ Chunk(p) \/ ForwardIn \/ StdinWritten \/ InputEnds \/ CountdownTick
           \/ CountdownStop \/ CountdownWritten
  PROVE  Quiet /\ UNCHANGED <<shell, client>>
  BY DEF Copier, RecordSend, WriteOut, Written, StreamEnds, Post, Chunk,
         ForwardIn, StdinWritten, InputEnds, CountdownTick, CountdownStop,
         CountdownWritten, Quiet, rows, timer

-----------------------------------------------------------------------------
(* The rows.                                                                *)

\* Every step keeps the rows as the handler's position says.
LEMMA WebRowsStep == WebRowsInv /\ faults \in Nat /\ [Next]_vars => WebRowsInv'
<1> SUFFICES ASSUME WebRowsInv, faults \in Nat, [Next]_vars, faults' = 0
             PROVE  StageInv'
  BY DEF WebRowsInv
<1>0. faults = 0 /\ StageInv
  BY DEF WebRowsInv, Next, Handler, Refuse, Route, CreateLogin, DialFails,
         ShellStarts, OpenRecording, ActivateLogin, ConnectProxy, Leave, Report, CloseRecorder,
         UpdateRecording, UpdateLogin, Statement, Copier, RecordSend, WriteOut,
         Written, StreamEnds, Post, Chunk, ForwardIn, StdinWritten, InputEnds,
         CountdownTick, CountdownStop, CountdownWritten, Disconnect, ShellExits, vars
<1> USE <1>0 DEF StageInv, Rows
<1>1. CASE Refuse
  BY <1>1 DEF Refuse, rows
<1>2. ASSUME NEW m \in {"direct", "proxy"}, Route(m)
      PROVE  StageInv'
  BY <1>2 DEF Route, rows
<1>3. CASE CreateLogin
  <2>1. login' = "connecting"
    BY <1>3 DEF CreateLogin, Statement
  <2> QED
    BY <1>3, <2>1 DEF CreateLogin
<1>4. CASE DialFails
  BY <1>4 DEF DialFails, rows
<1>5. CASE ShellStarts
  BY <1>5 DEF ShellStarts, rows
<1>6. CASE OpenRecording \/ ActivateLogin
  <2>1. CASE OpenRecording
    <3>1. recording' = "active" /\ login' = login
      BY <2>1 DEF OpenRecording, Statement
    <3> QED
      BY <2>1, <3>1 DEF OpenRecording
  <2>2. CASE ActivateLogin
    <3>1. recording' = recording /\ login' = "active"
      BY <2>2 DEF ActivateLogin, Statement
    <3> QED
      BY <2>2, <3>1 DEF ActivateLogin
  <2> QED
    BY <1>6, <2>1, <2>2
<1>7. CASE ConnectProxy
  BY <1>7 DEF ConnectProxy, rows
<1>8. CASE Leave
  BY <1>8 DEF Leave, rows
<1>9. CASE Report \/ CloseRecorder
  BY <1>9 DEF Report, CloseRecorder, rows
<1>10. CASE UpdateRecording
  <2>1. recording' = IF success = "yes" THEN "closed" ELSE recording
    BY <1>10 DEF UpdateRecording, Statement
  <2> QED
    BY <1>10, <2>1 DEF UpdateRecording
<1>11. CASE UpdateLogin
  <2>1. login' = IF success = "yes" THEN "completed" ELSE "failed"
    BY <1>11 DEF UpdateLogin, Statement
  <2> QED
    BY <1>11, <2>1 DEF UpdateLogin
<1>12. CASE Disconnect \/ ShellExits
  BY <1>12 DEF Disconnect, ShellExits, rows
<1>13. CASE Quiet /\ UNCHANGED shell
  BY <1>13 DEF Quiet
<1>14. CASE UNCHANGED vars
  BY <1>13, <1>14 DEF Quiet, vars
<1> QED
  BY <1>1, <1>2, <1>3, <1>4, <1>5, <1>6, <1>7, <1>8, <1>9, <1>10, <1>11, <1>12,
     <1>13, <1>14, CopiersAreQuiet DEF Next, Handler, Pumps

-----------------------------------------------------------------------------
(* Types.                                                                   *)

\* A copier moves among its states.
LEMMA MoveType ==
  ASSUME pump \in [Pumps -> PumpState], NEW p \in Pumps,
         NEW s \in PumpState, Move(p, s)
  PROVE  pump' \in [Pumps -> PumpState]
  BY DEF Move

\* A write that begins keeps the socket well typed, whoever writes.
LEMMA BeginWriteType ==
  ASSUME SocketType, NEW g \in Writers, BeginWrite(g), UNCHANGED chunks
  PROVE  SocketType'
<1>1. writing' \subseteq Writers /\ talk' \subseteq Writers
  BY DEF SocketType, BeginWrite
<1>2. crash' \in {"no", "socket"}
  BY DEF BeginWrite
<1> QED
  BY <1>1, <1>2 DEF SocketType

\* So does a write that ends.
LEMMA EndWriteType ==
  ASSUME SocketType, NEW g, EndWrite(g), UNCHANGED chunks
  PROVE  SocketType'
  BY DEF SocketType, EndWrite

\* A copier of the set Pumps moves or keeps its place.
LEMMA CopierType ==
  ASSUME TypeOK, NEW p \in Pumps, Copier(p) \/ Chunk(p)
  PROVE  TypeOK'
<1> USE WebSessionAssumption DEF TypeOK
<1>1. pump' \in [Pumps -> PumpState]
  <2>1. PICK s \in PumpState : Move(p, s)
    BY DEF PumpState, Copier, Chunk, RecordSend, WriteOut, Written, StreamEnds,
           Post
  <2> QED
    BY <2>1, MoveType DEF GoroutineType
<1>2. errs' \in 0 .. ErrCap
  <2>1. CASE Post(p)
    BY <2>1 DEF Post, Room, GoroutineType
  <2>2. CASE UNCHANGED errs
    BY <2>2 DEF GoroutineType
  <2> QED
    BY <2>1, <2>2 DEF Copier, Chunk, RecordSend, WriteOut, Written, StreamEnds
<1>3. SocketType'
  <2>0. p \in Writers
    BY DEF Writers
  <2>1. CASE RecordSend(p)
    BY <2>1 DEF RecordSend, SocketType
  <2>2. CASE WriteOut(p)
    BY <2>0, <2>2, BeginWriteType DEF WriteOut
  <2>3. CASE Written(p)
    BY <2>3, EndWriteType DEF Written
  <2>4. CASE StreamEnds(p) \/ Post(p)
    BY <2>4 DEF StreamEnds, Post, socket, SocketType
  <2>5. CASE Chunk(p)
    BY <2>5 DEF Chunk, socket, SocketType
  <2> QED
    BY <2>1, <2>2, <2>3, <2>4, <2>5 DEF Copier
<1>4. UNCHANGED <<pc, mode, client, shell, success, left, countdown, shown,
                  rec, login, recording, faults>>
  BY DEF Copier, RecordSend, WriteOut, Written, StreamEnds, Post, Chunk, rows,
         timer
<1> QED
  BY <1>1, <1>2, <1>3, <1>4 DEF ControlType, GoroutineType, RowsType

\* Every step keeps the types.
LEMMA TypeStep == TypeOK /\ [Next]_vars => TypeOK'
<1> SUFFICES ASSUME TypeOK, [Next]_vars
             PROVE  TypeOK'
  OBVIOUS
<1> USE WebSessionAssumption DEF TypeOK
<1>0. "in" \in Pumps /\ "handler" \in Writers /\ "countdown" \in Writers
        /\ "in" \in Writers
  BY DEF Pumps, Writers
<1>1. CASE Refuse \/ DialFails \/ ShellStarts \/ CloseRecorder
           \/ Disconnect \/ ShellExits \/ UNCHANGED vars
  BY <1>1 DEF Refuse, DialFails, ShellStarts, CloseRecorder, Disconnect,
              ShellExits, rows, socket, timer, vars, ControlType,
              GoroutineType, RowsType, SocketType
<1>2. ASSUME NEW m \in {"direct", "proxy"}, Route(m)
      PROVE  TypeOK'
  BY <1>2 DEF Route, rows, socket, timer, ControlType, GoroutineType, RowsType,
              SocketType
<1>3. CASE CreateLogin
  BY <1>3 DEF CreateLogin, Statement, socket, ControlType, GoroutineType,
              RowsType, SocketType
<1>4. CASE OpenRecording \/ ActivateLogin
  <2>1. pump' \in [Pumps -> PumpState]
    BY <1>4 DEF OpenRecording, ActivateLogin, PumpState, GoroutineType
  <2>2. RowsType'
    BY <1>4 DEF OpenRecording, ActivateLogin, Statement, RowsType
  <2> QED
    BY <1>4, <2>1, <2>2 DEF OpenRecording, ActivateLogin, socket, timer, ControlType,
                            GoroutineType, SocketType
<1>5. CASE ConnectProxy
  <2>1. pump' \in [Pumps -> PumpState]
    BY <1>5 DEF ConnectProxy, PumpState, GoroutineType
  <2> QED
    BY <1>5, <2>1 DEF ConnectProxy, rows, socket, timer, ControlType,
                      GoroutineType, RowsType, SocketType
<1>6. CASE Leave
  <2>1. errs' \in 0 .. ErrCap
    BY <1>6 DEF Leave, GoroutineType
  <2>2. left' \in {"no", "early", "late"}
    BY <1>6 DEF Leave
  <2>3. ControlType'
    BY <1>6, <2>2 DEF Leave, ControlType
  <2> QED
    BY <1>6, <2>1, <2>3 DEF Leave, rows, socket, timer, GoroutineType,
                            RowsType, SocketType
<1>7. CASE Report
  <2>1. SocketType'
    BY <1>0, <1>7, BeginWriteType, EndWriteType DEF Report
  <2> QED
    BY <1>7, <2>1 DEF Report, rows, timer, ControlType, GoroutineType, RowsType
<1>8. CASE UpdateRecording \/ UpdateLogin
  <2>1. recording' \in {"none", "active", "closed"} /\ faults' \in Nat
    BY <1>8 DEF UpdateRecording, UpdateLogin, Statement, RowsType
  <2>2. login' \in {"none", "connecting", "active", "completed", "failed"}
    BY <1>8 DEF UpdateRecording, UpdateLogin, RowsType
  <2> QED
    BY <1>8, <2>1, <2>2 DEF UpdateRecording, UpdateLogin, socket, timer,
                            ControlType, GoroutineType, RowsType, SocketType
<1>9. ASSUME NEW p \in Pumps, Copier(p) \/ Chunk(p)
      PROVE  TypeOK'
  BY <1>9, CopierType
<1>10. CASE ForwardIn \/ StdinWritten
  <2>1. pump' \in [Pumps -> PumpState]
    <3>1. PICK s \in PumpState : Move("in", s)
      BY <1>10 DEF ForwardIn, StdinWritten, PumpState
    <3> QED
      BY <1>0, <3>1, MoveType DEF GoroutineType
  <2>2. SocketType'
    <3>1. UNCHANGED socket \/ BeginWrite("in")
      BY <1>10 DEF ForwardIn, StdinWritten
    <3>2. UNCHANGED chunks
      BY <1>10 DEF ForwardIn, StdinWritten
    <3> QED
      BY <1>0, <3>1, <3>2, BeginWriteType DEF socket, SocketType
  <2> QED
    BY <1>10, <2>1, <2>2 DEF ForwardIn, StdinWritten, rows, timer, ControlType,
                             GoroutineType, RowsType
<1>11. CASE InputEnds
  <2>1. pump' \in [Pumps -> PumpState]
    BY <1>0, <1>11, MoveType DEF InputEnds, PumpState, GoroutineType
  <2> QED
    BY <1>11, <2>1 DEF InputEnds, rows, socket, timer, ControlType,
                       GoroutineType, RowsType, SocketType
<1>12. CASE CountdownTick \/ CountdownStop \/ CountdownWritten
  <2>1. SocketType'
    <3>1. BeginWrite("countdown") \/ EndWrite("countdown") \/ UNCHANGED socket
      BY <1>12 DEF CountdownTick, CountdownStop, CountdownWritten
    <3>2. UNCHANGED chunks
      BY <1>12 DEF CountdownTick, CountdownStop, CountdownWritten
    <3> QED
      BY <1>0, <3>1, <3>2, BeginWriteType, EndWriteType DEF socket, SocketType
  <2>2. countdown' \in {"off", "tick", "write", "clear", "done"}
          /\ shown' \in {"no", "yes"}
    BY <1>12 DEF CountdownTick, CountdownStop, CountdownWritten, GoroutineType
  <2> QED
    BY <1>12, <2>1, <2>2 DEF CountdownTick, CountdownStop, CountdownWritten,
                             rows, ControlType, GoroutineType, RowsType
<1> QED
  BY <1>1, <1>2, <1>3, <1>4, <1>5, <1>6, <1>7, <1>8, <1>9, <1>10, <1>11, <1>12
  DEF Next, Handler

\* Every reachable state is well typed; in particular errChan never holds more
\* than its capacity.
THEOREM TypeCorrect == Spec => []TypeOK
<1>1. Init => TypeOK
  <2>1. Init => pump \in [Pumps -> PumpState]
    BY DEF Init, PumpState
  <2> QED
    BY <2>1, WebSessionAssumption
    DEF Init, TypeOK, ControlType, GoroutineType, RowsType, SocketType
<1> QED
  BY <1>1, TypeStep, PTL DEF Spec

\* The rows are always as the handler's position says.
LEMMA WebRowsHold == Spec => []WebRowsInv
<1>1. Init => WebRowsInv
  BY DEF Init, WebRowsInv, StageInv, Rows
<1>2. TypeOK => faults \in Nat
  BY DEF TypeOK, RowsType
<1> QED
  BY <1>1, <1>2, WebRowsStep, TypeCorrect, PTL DEF Spec

\* At every moment the login and the recording row agree, unless a statement
\* failed.
THEOREM WebRowsAgreeHolds == Spec => []WebRowsAgree
<1>1. TypeOK /\ WebRowsInv => WebRowsAgree
  BY DEF TypeOK, ControlType, WebRowsInv, StageInv, Rows, WebRowsAgree
<1> QED
  BY <1>1, WebRowsHold, TypeCorrect, PTL

\* A direct connection that has ended left rows that tell whether a shell ran.
THEOREM WebSessionSettledHolds == Spec => []WebSessionSettled
<1>1. WebRowsInv => WebSessionSettled
  BY DEF WebRowsInv, StageInv, Rows, WebSessionSettled
<1> QED
  BY <1>1, WebRowsHold, PTL

-----------------------------------------------------------------------------
(* What can kill the process.                                               *)

\* A write begins: whoever meets another writer, one of the two is noted.
LEMMA BeginWriteExplained ==
  ASSUME NEW g \in Writers, TypeOK, CrashInv, Alive, BeginWrite(g),
         g = "out" => "out" \notin writing
  PROVE  /\ writing' \subseteq talk' \cup {"out"}
         /\ crash' # "recorder"
         /\ crash' = "socket" => talk' # {}
         /\ "out" \in writing' => "out" \in writing \/ g = "out"
  BY DEF BeginWrite, CrashInv, Writers, Pumps, Streams

LEMMA CrashStep == TypeOK /\ CrashInv /\ [Next]_vars => CrashInv'
<1> SUFFICES ASSUME TypeOK, CrashInv, [Next]_vars
             PROVE  CrashInv'
  OBVIOUS
<1> USE DEF TypeOK, ControlType, GoroutineType, CrashInv, WebCrashExplained, AllPumps
<1>1. CASE UNCHANGED vars
  BY <1>1 DEF vars
<1>2. CASE Refuse \/ CreateLogin \/ DialFails \/ ShellStarts \/ OpenRecording
             \/ CloseRecorder \/ UpdateRecording \/ UpdateLogin \/ Disconnect \/ ShellExits
             \/ \E m \in {"direct", "proxy"} : Route(m)
  <2>1. UNCHANGED <<pump, left, writing, talk, crash>>
    BY <1>2 DEF Refuse, CreateLogin, DialFails, ShellStarts, OpenRecording, CloseRecorder,
                UpdateRecording, UpdateLogin, Disconnect, ShellExits, Route, socket
  <2>2. pc' = "bridge" <=> pc = "bridge"
    BY <1>2 DEF Refuse, CreateLogin, DialFails, ShellStarts, OpenRecording, CloseRecorder,
                UpdateRecording, UpdateLogin, Disconnect, ShellExits, Route
  <2>3. pc' \in {"request", "direct", "dial", "rows", "activate",
             "proxy", "bridge"} =>
          /\ rec' \in {rec, "open"}
          /\ pc \in {"request", "direct", "dial", "rows", "activate",
             "proxy", "bridge"}
    BY <1>2 DEF Refuse, CreateLogin, DialFails, ShellStarts, OpenRecording, CloseRecorder,
                UpdateRecording, UpdateLogin, Disconnect, ShellExits, Route
  <2> QED
    BY <2>1, <2>2, <2>3
<1>3. CASE ActivateLogin \/ ConnectProxy
  <2>1. left = "no" /\ AllPumps("off") /\ rec # "closed" /\ "out" \notin writing
    BY <1>3 DEF ActivateLogin, ConnectProxy, Pumps, Streams
  <2>2. pc' = "bridge" /\ UNCHANGED <<left, rec, writing, talk, crash>>
    BY <1>3 DEF ActivateLogin, ConnectProxy, socket
  <2> QED
    BY <2>1, <2>2
<1>4. CASE Leave
  BY <1>4 DEF Leave, socket
<1>5. CASE Report
  <2>1. CASE pc = "report" /\ BeginWrite("handler") /\ pc' = "reporting"
    BY <1>5, <2>1, BeginWriteExplained DEF Report, Writers
  <2>2. CASE pc = "reporting" /\ EndWrite("handler") /\ pc' = "close"
    BY <1>5, <2>2 DEF Report, EndWrite
  <2> QED
    BY <1>5, <2>1, <2>2 DEF Report
<1>6. ASSUME NEW p \in Pumps, Copier(p) \/ Chunk(p)
      PROVE  CrashInv'
  <2>1. pump[p] \notin {"off", "done"}
    BY <1>6 DEF Copier, Chunk, RecordSend, WriteOut, Written, StreamEnds, Post
  <2>2. UNCHANGED <<pc, left, rec>> /\ Alive
    BY <1>6 DEF Copier, Chunk, RecordSend, WriteOut, Written, StreamEnds, Post
  <2>3. left = "early" \/ pc = "bridge"
    BY <2>1
  <2>4. rec = "closed" => left = "early"
    BY <2>3
  <2>5. \A q \in Pumps : q # p => pump'[q] = pump[q]
    BY <1>6 DEF Copier, Chunk, RecordSend, WriteOut, Written, StreamEnds, Post, Move
  <2>6. "out" \in Pumps
    BY DEF Pumps, Streams
  <2>7. CASE WriteOut(p)
    <3>1. pump'[p] = "write" /\ pump[p] # "write" /\ BeginWrite(p) /\ p \in Writers
      BY <2>7 DEF WriteOut, Move, Writers
    <3>2. p = "out" => "out" \notin writing
      BY <3>1
    <3>3. "out" \in writing' => pump'["out"] = "write"
      BY <2>2, <2>5, <2>6, <3>1, <3>2, BeginWriteExplained
    <3> QED
      BY <2>2, <2>3, <3>1, <3>2, <3>3, BeginWriteExplained
  <2>8. CASE Written(p)
    <3>1. EndWrite(p)
      BY <2>8 DEF Written
    <3> QED
      BY <2>2, <2>3, <2>5, <2>6, <3>1 DEF EndWrite
  <2>9. CASE RecordSend(p) \/ StreamEnds(p) \/ Post(p) \/ Chunk(p)
    <3>1. UNCHANGED <<writing, talk>> /\ pump[p] # "write"
      BY <2>9 DEF RecordSend, StreamEnds, Post, Chunk, socket
    <3>2. crash' = crash \/ (crash' = "recorder" /\ rec = "closed")
      BY <2>9 DEF RecordSend, StreamEnds, Post, Chunk, socket
    <3> QED
      BY <2>2, <2>3, <2>4, <2>5, <2>6, <3>1, <3>2
  <2> QED
    BY <1>6, <2>7, <2>8, <2>9 DEF Copier
<1>7. CASE ForwardIn \/ StdinWritten \/ InputEnds
  <2>1. "in" \in Pumps /\ "out" \in Pumps /\ "in" \in Writers
    BY DEF Pumps, Streams, Writers
  <2>2. /\ pump["in"] \notin {"off", "done"} /\ Alive
        /\ UNCHANGED <<pc, left, rec>> /\ pump'["out"] = pump["out"]
        /\ UNCHANGED socket \/ BeginWrite("in")
    BY <1>7, <2>1 DEF ForwardIn, StdinWritten, InputEnds, Move
  <2>3. left = "early" \/ pc = "bridge"
    BY <2>1, <2>2
  <2>4. /\ writing' \subseteq talk' \cup {"out"}
        /\ crash' # "recorder" /\ (crash' = "socket" => talk' # {})
        /\ "out" \in writing' => "out" \in writing
    BY <2>1, <2>2, BeginWriteExplained DEF socket, Alive
  <2> QED
    BY <2>2, <2>3, <2>4
<1>8. CASE CountdownTick \/ CountdownStop \/ CountdownWritten
  <2>1. UNCHANGED <<pc, left, rec, pump>> /\ Alive
    BY <1>8 DEF CountdownTick, CountdownStop, CountdownWritten
  <2>2. BeginWrite("countdown") \/ EndWrite("countdown") \/ UNCHANGED socket
    BY <1>8 DEF CountdownTick, CountdownStop, CountdownWritten
  <2>3. CASE BeginWrite("countdown")
    BY <2>1, <2>3, BeginWriteExplained DEF Writers
  <2>4. CASE EndWrite("countdown") \/ UNCHANGED socket
    BY <2>1, <2>4 DEF EndWrite, socket
  <2> QED
    BY <2>2, <2>3, <2>4
<1> QED
  BY <1>1, <1>2, <1>3, <1>4, <1>5, <1>6, <1>7, <1>8 DEF Next, Handler

\* The process dies only of the causes named: a copier that outlives the bridge
\* and finds the recorder closed, or a second writer that is no stdout copier.
THEOREM WebCrashExplainedHolds == Spec => []WebCrashExplained
<1>1. Init => CrashInv
  BY DEF Init, CrashInv, WebCrashExplained, AllPumps
<1>2. CrashInv => WebCrashExplained
  BY DEF CrashInv
<1> QED
  BY <1>1, <1>2, CrashStep, TypeCorrect, PTL DEF Spec

\* The rows of a web connection agree and are settled, in typed states.
THEOREM WebRowsSoundHolds == Spec => []WebRowsSound
<1>1. TypeOK /\ WebRowsAgree /\ WebSessionSettled => WebRowsSound
  BY DEF WebRowsSound
<1> QED
  BY <1>1, TypeCorrect, WebRowsAgreeHolds, WebSessionSettledHolds, PTL

-----------------------------------------------------------------------------
(* The life of the session.                                                 *)

LEMMA LifeInit == Init => LifeInv
  BY DEF Init, LifeInv, Rows

\* Every step keeps the flags and rows with the handler's position.
LEMMA LifeStep == TypeOK /\ LifeInv /\ [Next]_vars => LifeInv'
<1> SUFFICES ASSUME TypeOK, LifeInv, [Next]_vars
             PROVE  LifeInv'
  OBVIOUS
<1> USE DEF TypeOK, ControlType, LifeInv, Rows
<1>1. CASE Refuse \/ DialFails \/ ShellStarts \/ ConnectProxy \/ Report
           \/ CloseRecorder \/ \E m \in {"direct", "proxy"} : Route(m)
  BY <1>1 DEF Refuse, DialFails, ShellStarts, ConnectProxy, Report, CloseRecorder,
              Route, rows
<1>2. CASE CreateLogin
  BY <1>2 DEF CreateLogin
<1>3. CASE OpenRecording \/ ActivateLogin
  BY <1>3 DEF OpenRecording, ActivateLogin
<1>4. CASE Leave
  BY <1>4 DEF Leave, rows
<1>5. CASE UpdateRecording
  BY <1>5 DEF UpdateRecording
<1>6. CASE UpdateLogin
  BY <1>6 DEF UpdateLogin
<1>7. CASE Quiet
  BY <1>7 DEF Quiet
<1>8. CASE Disconnect \/ ShellExits \/ UNCHANGED vars
  BY <1>7, <1>8 DEF Disconnect, ShellExits, rows, vars, Quiet
<1> QED
  BY <1>1, <1>2, <1>3, <1>4, <1>5, <1>6, <1>7, <1>8, CopiersAreQuiet
  DEF Next, Handler, Pumps

\* The abstract session, read off its only member.
LEMMA LifeFunctions ==
  /\ [s \in {"web"} |-> Stage]["web"] = Stage
  /\ [s \in {"web"} |-> login]["web"] = login
  /\ [s \in {"web"} |-> recording]["web"] = recording
  /\ [s \in {"web"} |-> Stage']["web"] = Stage'
  /\ [s \in {"web"} |-> login']["web"] = login'
  /\ [s \in {"web"} |-> recording']["web"] = recording'
  OBVIOUS

\* Every step of the connection is a step of the session's life, or none.
LEMMA LifeSteps ==
  TypeOK /\ WebRowsInv /\ LifeInv /\ [Next]_vars => [Life!Next]_(Life!vars)
<1> SUFFICES ASSUME TypeOK, WebRowsInv, LifeInv, [Next]_vars
             PROVE  Life!Next
  OBVIOUS
<1> USE LifeFunctions DEF TypeOK, ControlType, RowsType, LifeInv, Rows
<1>1. ASSUME faults' \in Nat, faults' >= faults,
             Life!Step("web") \/ Life!Rests("web")
      PROVE  Life!Next
  BY <1>1 DEF Life!Next
<1>2. CASE Refuse
  <2>1. Stage = "idle" /\ Stage' = "over" /\ UNCHANGED <<login, recording, faults>>
    BY <1>2 DEF Refuse, Stage, rows
  <2> QED
    BY <1>1, <2>1 DEF Life!Step, Life!Refuse, Life!Goes
<1>3. CASE Stage' = Stage /\ UNCHANGED <<login, recording, faults>>
  BY <1>1, <1>3 DEF Life!Rests
<1>4. CASE \E m \in {"direct", "proxy"} : Route(m)
  BY <1>3, <1>4 DEF Route, Stage, rows
<1>5. CASE CreateLogin
  <2>1. /\ Stage = "idle" /\ Stage' = "connecting" /\ UNCHANGED recording
        /\ login' \in {login, "connecting"} /\ (faults' = faults => login' = "connecting")
        /\ faults' \in Nat /\ faults' >= faults
    BY <1>5 DEF CreateLogin, Stage, Statement
  <2> QED
    BY <1>1, <2>1 DEF Life!Step, Life!Begin, Life!Goes, Life!Gets
<1>6. CASE DialFails \/ ShellStarts \/ ConnectProxy \/ Report \/ CloseRecorder
  BY <1>3, <1>6 DEF DialFails, ShellStarts, ConnectProxy, Report, CloseRecorder, Stage,
                    rows
<1>7. CASE OpenRecording \/ ActivateLogin
  <2>1. CASE OpenRecording
    <3>1. /\ Stage = "connecting" /\ Stage' = "opening" /\ UNCHANGED login
          /\ faults' \in Nat /\ faults' >= faults
          /\ recording' \in {recording, "active"}
          /\ faults' = faults => recording' = "active"
      BY <2>1 DEF OpenRecording, Stage, Statement
    <3> QED
      BY <1>1, <3>1 DEF Life!Step, Life!Record, Life!Goes, Life!Gets
  <2>2. CASE ActivateLogin
    <3>1. /\ Stage = "opening" /\ Stage' = "active" /\ UNCHANGED recording
          /\ faults' \in Nat /\ faults' >= faults
          /\ login = "none" => login' = login
          /\ login' \in {login, "active"}
          /\ faults' = faults /\ login # "none" => login' = "active"
      BY <2>2 DEF ActivateLogin, Stage, Statement
    <3> QED
      BY <1>1, <3>1 DEF Life!Step, Life!Activate, Life!Goes, Life!Gets, Life!GetsIfThere
  <2> QED
    BY <1>7, <2>1, <2>2
<1>8. CASE Leave
  <2>1. CASE mode = "direct"
    BY <1>3, <1>8, <2>1 DEF Leave, Stage, rows
  <2>2. CASE mode = "proxy"
    <3>1. Stage = "idle" /\ Stage' = "over" /\ UNCHANGED <<login, recording, faults>>
      BY <1>8, <2>2 DEF Leave, Stage, rows
    <3> QED
      BY <1>1, <3>1 DEF Life!Step, Life!Refuse, Life!Goes
  <2> QED
    BY <1>8, <2>1, <2>2 DEF Leave
<1>9. CASE UpdateRecording
  <2>1. CASE success = "no"
    BY <1>3, <1>9, <2>1 DEF UpdateRecording, Stage
  <2>2. CASE success = "yes"
    <3>1. /\ Stage = "active" /\ Stage' = "active" /\ UNCHANGED login
          /\ faults' \in Nat /\ faults' >= faults
          /\ recording = "none" => recording' = recording
          /\ recording' \in {recording, "closed"}
          /\ faults' = faults /\ recording # "none" => recording' = "closed"
      BY <1>9, <2>2 DEF UpdateRecording, Stage, Statement
    <3> QED
      BY <1>1, <3>1 DEF Life!Step, Life!Close, Life!Goes, Life!Gets, Life!GetsIfThere
  <2> QED
    BY <2>1, <2>2
<1>10. CASE UpdateLogin
  <2>1. /\ Stage' = "over" /\ UNCHANGED recording /\ faults' \in Nat /\ faults' >= faults
        /\ login = "none" => login' = login
    BY <1>10 DEF UpdateLogin, Stage, Statement
  <2>2. CASE success = "no"
    <3>1. /\ Stage = "connecting" /\ login' \in {login, "failed"}
          /\ faults' = faults /\ login # "none" => login' = "failed"
      BY <1>10, <2>2 DEF UpdateLogin, Stage, Statement
    <3> QED
      BY <1>1, <2>1, <3>1 DEF Life!Step, Life!Fail, Life!Goes, Life!Gets, Life!GetsIfThere
  <2>3. CASE success = "yes"
    <3>1. Stage = "active" /\ login' \in {login, "completed"}
      BY <1>10, <2>3 DEF UpdateLogin, Stage
    \* While no statement has failed, the recording was closed before.
    <3>2. faults' = 0 => login' = "completed" /\ recording' = "closed"
      <4> SUFFICES ASSUME faults' = 0
                   PROVE  login' = "completed" /\ recording' = "closed"
        OBVIOUS
      <4>1. faults = 0 /\ pc = "complete"
        BY <1>10, <2>1 DEF UpdateLogin
      <4>2. login = "active" /\ recording = "closed"
        BY <2>3, <4>1 DEF WebRowsInv, StageInv
      <4> QED
        BY <1>10, <2>1, <2>3, <4>1, <4>2 DEF UpdateLogin, Statement
    <3> QED
      BY <1>1, <2>1, <3>1, <3>2 DEF Life!Step, Life!End, Life!Settles, Life!Goes
  <2> QED
    BY <2>2, <2>3
<1>11. CASE Quiet
  BY <1>3, <1>11 DEF Quiet, Stage
<1>12. CASE Disconnect \/ ShellExits \/ UNCHANGED vars
  BY <1>11, <1>12 DEF Disconnect, ShellExits, rows, vars, Quiet
<1> QED
  BY <1>2, <1>4, <1>5, <1>6, <1>7, <1>8, <1>9, <1>10, <1>11, <1>12, CopiersAreQuiet
  DEF Next, Handler, Pumps

\* A web connection implements SessionLife, for every bound and however many
\* statements fail: its login and recording rows follow it from the attempt to
\* the end and are completed, or marked failed, once.
THEOREM ImplementsLifeHolds == Spec => ImplementsLife
<1>1. Init => Life!Init
  BY DEF Init, Life!Init, Stage
<1> QED
  BY <1>1, LifeInit, LifeStep, LifeSteps, WebRowsHold, TypeCorrect, PTL
  DEF Spec, ImplementsLife, Life!Spec

-----------------------------------------------------------------------------
(* Room in errChan.                                                         *)

\* Every step keeps the errors below the copiers that have ended.
LEMMA PostStep == TypeOK /\ CrashInv /\ LifeInv /\ PostInv /\ [Next]_vars => PostInv'
<1> SUFFICES ASSUME TypeOK, CrashInv, LifeInv, PostInv, [Next]_vars
             PROVE  PostInv'
  OBVIOUS
<1>1. /\ pump \in [Pumps -> PumpState] /\ errs \in Nat
      /\ "in" \in Pumps /\ "out" \in Pumps /\ "err" \in Pumps
      /\ mode \in {"none", "direct", "proxy"}
  BY WebSessionAssumption DEF TypeOK, GoroutineType, ControlType, Pumps, Streams
<1>2. CASE UNCHANGED <<mode, pump, errs>>
  BY <1>2 DEF PostInv
<1>3. CASE \E m \in {"direct", "proxy"} : Route(m)
  BY <1>3 DEF Route, PostInv, LifeInv
<1>4. CASE ActivateLogin \/ ConnectProxy
  <2>1. pump["in"] = "off" /\ pump["out"] = "off" /\ pump["err"] = "off"
    BY <1>1, <1>4 DEF ActivateLogin, ConnectProxy, CrashInv, AllPumps
  <2>2. errs' = 0 /\ UNCHANGED mode
    BY <1>1, <1>4, <2>1 DEF ActivateLogin, ConnectProxy, PostInv
  <2>3. (pump'["err"] = "read" /\ mode = "direct") \/ pump'["err"] = "off"
    BY <1>1, <1>4, <2>1 DEF ActivateLogin, ConnectProxy, LifeInv
  <2> QED
    BY <1>1, <2>2, <2>3 DEF PostInv
<1>5. CASE Leave
  BY <1>1, <1>5 DEF Leave, PostInv
\* A copier moves; one that has ended does not.
<1>6. ASSUME NEW p \in Pumps, NEW s, Move(p, s), UNCHANGED mode,
             pump[p] \notin {"off", "done"}, p = "err" => s # "post",
             \/ UNCHANGED errs
             \/ pump[p] = "post" /\ s = "done" /\ errs' = errs + 1
      PROVE  PostInv'
  <2>1. pump'[p] = s /\ \A q \in Pumps : q # p => pump'[q] = pump[q]
    BY <1>1, <1>6 DEF Move
  <2>2. /\ pump'["err"] # "post"
        /\ mode' # "direct" => pump'["err"] = "off"
    BY <1>1, <1>6, <2>1 DEF PostInv
  <2>3. CASE UNCHANGED errs
    BY <1>1, <1>6, <2>1, <2>2, <2>3 DEF PostInv
  <2>4. CASE pump[p] = "post" /\ s = "done" /\ errs' = errs + 1
    <3>1. p \in {"in", "out"}
      BY <2>4 DEF PostInv, Pumps, Streams
    <3> QED
      BY <1>1, <2>1, <2>2, <2>4, <3>1 DEF PostInv
  <2> QED
    BY <1>6, <2>3, <2>4
<1>7. ASSUME NEW p \in Pumps, Copier(p) \/ Chunk(p)
      PROVE  PostInv'
  <2>1. CASE RecordSend(p) \/ WriteOut(p) \/ Chunk(p)
    BY <1>6, <2>1 DEF RecordSend, WriteOut, Chunk
  <2>2. CASE Written(p) \/ StreamEnds(p)
    <3>1. p = "err" => mode = "direct"
      BY <2>2 DEF Written, StreamEnds, PostInv
    <3>2. CASE Written(p)
      BY <1>6, <3>1, <3>2 DEF Written
    <3>3. CASE StreamEnds(p)
      BY <1>6, <3>1, <3>3 DEF StreamEnds
    <3> QED
      BY <2>2, <3>2, <3>3
  <2>3. CASE Post(p)
    BY <1>6, <2>3 DEF Post
  <2> QED
    BY <1>7, <2>1, <2>2, <2>3 DEF Copier
<1>8. CASE ForwardIn \/ StdinWritten \/ InputEnds
  BY <1>1, <1>6, <1>8 DEF ForwardIn, StdinWritten, InputEnds
<1>9. CASE Refuse \/ CreateLogin \/ DialFails \/ ShellStarts \/ OpenRecording
           \/ Report \/ CloseRecorder
           \/ UpdateRecording \/ UpdateLogin \/ Disconnect \/ ShellExits
           \/ CountdownTick \/ CountdownStop \/ CountdownWritten \/ UNCHANGED vars
  BY <1>2, <1>9
  DEF Refuse, CreateLogin, DialFails, ShellStarts, OpenRecording, Report,
      CloseRecorder, UpdateRecording, UpdateLogin, Disconnect, ShellExits, CountdownTick, CountdownStop,
      CountdownWritten, vars
<1> QED
  BY <1>3, <1>4, <1>5, <1>7, <1>8, <1>9 DEF Next, Handler

\* Nobody who has an error to post ever finds errChan full, at the code's
\* capacity or a larger one: no copier is left behind blocked.
THEOREM PostersHaveRoomHolds == Spec => []PostersHaveRoom
<1>1. Init => CrashInv /\ PostInv
  BY DEF Init, CrashInv, PostInv, WebCrashExplained, AllPumps, Pumps, Streams
<1>2. TypeOK /\ PostInv => PostersHaveRoom
  <2> SUFFICES ASSUME TypeOK, PostInv, ErrCap >= 2, NEW p \in Pumps, pump[p] = "post"
               PROVE  errs < ErrCap
    BY DEF PostersHaveRoom, Room
  <2>1. errs \in Nat /\ p \in {"in", "out"}
    BY WebSessionAssumption DEF TypeOK, GoroutineType, PostInv, Pumps, Streams
  <2> QED
    BY <2>1, WebSessionAssumption DEF PostInv
<1> QED
  BY <1>1, <1>2, LifeInit, LifeStep, CrashStep, PostStep, TypeCorrect, PTL DEF Spec

\* Both: what a crash through the copiers needs, and room for whoever reports.
THEOREM WebCopiersSoundHolds == Spec => []WebCopiersSound
<1>1. WebCrashExplained /\ PostersHaveRoom => WebCopiersSound
  BY DEF WebCopiersSound
<1> QED
  BY <1>1, WebCrashExplainedHolds, PostersHaveRoomHolds, PTL
=============================================================================

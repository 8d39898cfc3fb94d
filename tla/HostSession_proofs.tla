-------------------------- MODULE HostSession_proofs --------------------------
(***************************************************************************)
(* Proofs about HostSession for every number of host sessions, every set    *)
(* of output copiers and every capacity, chunk and fault bound.             *)
(***************************************************************************)
EXTENDS HostSession, TLAPS

\* What each database routine leaves in the audit rows is well typed.
LEMMA LoginStartRows ==
  ASSUME NEW h \in HS, RowsType, AuditLoginStart(h), UNCHANGED <<recording, content>>
  PROVE  RowsType'
  BY DEF RowsType, AuditLoginStart, LoginStatus, DbOutcome, Outcome

LEMMA LoginFailedRows ==
  ASSUME NEW h \in HS, RowsType, AuditLoginFailed(h), UNCHANGED <<recording, content>>
  PROVE  RowsType'
  BY DEF RowsType, AuditLoginFailed, LoginStatus, DbOutcome, Outcome

LEMMA LoginSuccessRows ==
  ASSUME NEW h \in HS, RowsType, AuditLoginSuccess(h), UNCHANGED content
  PROVE  RowsType'
  BY DEF RowsType, AuditLoginSuccess, LoginStatus, RecordingStatus, DbOutcome,
         Outcome

LEMMA SessionEndRows ==
  ASSUME NEW h \in HS, RowsType, AuditSessionEnd(h)
  PROVE  RowsType'
  BY DEF RowsType, AuditSessionEnd, LoginStatus, RecordingStatus, DbOutcome,
         Outcome, Blank, rows

LEMMA CloseRows ==
  ASSUME NEW h \in HS, NEW text \in Int, RowsType, CloseSessionInDB(h, text)
  PROVE  RowsType'
  BY DEF RowsType, CloseSessionInDB, LoginStatus, RecordingStatus, DbOutcome,
         Outcome

LEMMA CloseSessionRows ==
  ASSUME NEW h \in HS, NEW text \in Int, RowsType, CloseSession(h, text)
  PROVE  RowsType'
  BY CloseRows DEF CloseSession, RowsType, rows

\* Moving one copier keeps the bridge well typed.
LEMMA SetPumpType ==
  ASSUME NEW h \in HS, NEW p, NEW s \in PumpState, BridgeType,
         SetPump(h, p, s), errChan' \in SUBSET HS, UNCHANGED <<shell, how>>
  PROVE  BridgeType'
<1>1. [pump[h] EXCEPT ![p] = s] \in [Pumps -> PumpState]
  BY DEF BridgeType
<1> QED
  BY <1>1 DEF SetPump, BridgeType

\* Type correctness: no action of the handler, the copiers, the workers or the
\* environment takes a variable out of its type.
THEOREM TypeCorrect == Spec => []TypeOK
<1>1. Init => TypeOK
  BY HostSessionAssumption
  DEF Init, TypeOK, ControlType, BridgeType, RowsType, TapeType, AsyncType,
      Blank, Bridging, HS, PumpState, LoginStatus, RecordingStatus
<1>2. TypeOK /\ [Next]_vars => TypeOK'
  <2> SUFFICES ASSUME TypeOK, [Next]_vars
               PROVE  TypeOK'
    OBVIOUS
  <2> USE HostSessionAssumption DEF TypeOK
  <2>1. CASE UNCHANGED vars
    BY <2>1 DEF vars, ControlType, BridgeType, RowsType, TapeType, AsyncType
  <2>2. CASE SelectHostManyUsers
    <3>1. ControlType'
      BY <2>2 DEF SelectHostManyUsers, ControlType, Bridging, HS
    <3> QED
      BY <2>2, <3>1
      DEF SelectHostManyUsers, BridgeType, RowsType, TapeType, AsyncType,
          rows, tape, async
  <2>3. CASE SelectHostOneUser
    <3>1. ControlType'
      BY <2>3 DEF SelectHostOneUser, ControlType, Bridging, HS
    <3>2. RowsType'
      <4>1. cur + 1 \in HS
        BY <2>3 DEF SelectHostOneUser, ControlType, Bridging, HS
      <4> QED
        BY <2>3, <4>1, LoginStartRows DEF SelectHostOneUser
    <3> QED
      BY <2>3, <3>1, <3>2
      DEF SelectHostOneUser, BridgeType, TapeType, AsyncType, rows, tape,
          async
  <2>4. CASE SelectHostDenied
    <3>1. ControlType'
      BY <2>4 DEF SelectHostDenied, ControlType, Bridging, HS
    <3> QED
      BY <2>4, <3>1
      DEF SelectHostDenied, BridgeType, RowsType, TapeType, AsyncType, rows,
          tape, async
  <2>5. CASE ChooseUser
    <3>1. ControlType'
      BY <2>5 DEF ChooseUser, ControlType, Bridging, HS
    <3>2. RowsType'
      <4>1. cur \in HS
        BY <2>5 DEF ChooseUser, ControlType, Bridging, HS
      <4> QED
        BY <2>5, <4>1, LoginStartRows DEF ChooseUser
    <3> QED
      BY <2>5, <3>1, <3>2
      DEF ChooseUser, BridgeType, TapeType, AsyncType, rows, tape, async
  <2>6. CASE ChooseUserFails
    <3>1. ControlType'
      BY <2>6 DEF ChooseUserFails, ControlType, Bridging, HS
    <3> QED
      BY <2>6, <3>1
      DEF ChooseUserFails, BridgeType, RowsType, TapeType, AsyncType, rows,
          tape, async
  <2>7. CASE PromptReturns
    <3>1. ControlType'
      BY <2>7 DEF PromptReturns, ControlType, Bridging, HS
    <3> QED
      BY <2>7, <3>1
      DEF PromptReturns, BridgeType, RowsType, TapeType, AsyncType, rows,
          tape, async
  <2>8. CASE Quit
    <3>1. ControlType'
      BY <2>8 DEF Quit, ControlType, Bridging, HS
    <3> QED
      BY <2>8, <3>1
      DEF Quit, BridgeType, RowsType, TapeType, AsyncType, rows, tape, async
  <2>9. CASE DialFails
    <3>1. ControlType'
      BY <2>9 DEF DialFails, ControlType, Bridging, HS
    <3>2. RowsType'
      <4>1. cur \in HS
        BY <2>9 DEF DialFails, ControlType, Bridging, HS
      <4> QED
        BY <2>9, <4>1, LoginFailedRows DEF DialFails
    <3> QED
      BY <2>9, <3>1, <3>2
      DEF DialFails, BridgeType, TapeType, AsyncType, rows, tape, async
  <2>10. CASE DialSucceeds
    <3>1. ControlType'
      BY <2>10 DEF DialSucceeds, ControlType, Bridging, HS
    <3>2. RowsType'
      <4>1. cur \in HS
        BY <2>10 DEF DialSucceeds, ControlType, Bridging, HS
      <4> QED
        BY <2>10, <4>1, LoginSuccessRows DEF DialSucceeds
    <3>3. TapeType'
      BY <2>10 DEF DialSucceeds, RecordStart, TapeType
    <3> QED
      BY <2>10, <3>1, <3>2, <3>3
      DEF DialSucceeds, BridgeType, AsyncType, rows, tape, async
  <2>11. CASE SetupFails
    <3>1. ControlType'
      BY <2>11 DEF SetupFails, ControlType, Bridging, HS
    <3>2. BridgeType'
      BY <2>11 DEF SetupFails, BridgeType, PumpState
    <3> QED
      BY <2>11, <3>1, <3>2
      DEF SetupFails, RowsType, TapeType, AsyncType, rows, tape, async
  <2>12. CASE SetupSucceeds
    <3>1. ControlType'
      BY <2>12 DEF SetupSucceeds, ControlType, Bridging, HS
    <3>2. BridgeType'
      BY <2>12 DEF SetupSucceeds, BridgeType, PumpState
    <3> QED
      BY <2>12, <3>1, <3>2
      DEF SetupSucceeds, RowsType, TapeType, AsyncType, rows, tape, async
  <2>13. CASE BridgeEnds
    <3>1. ControlType'
      BY <2>13 DEF BridgeEnds, ControlType, Bridging, HS
    <3>2. BridgeType'
      BY <2>13 DEF BridgeEnds, BridgeType, PumpState
    <3> QED
      BY <2>13, <3>1, <3>2
      DEF BridgeEnds, RowsType, TapeType, AsyncType, rows, tape, async
  <2>14. CASE WaitReturns
    <3>1. ControlType'
      BY <2>14 DEF WaitReturns, ControlType, Bridging, HS
    <3> QED
      BY <2>14, <3>1
      DEF WaitReturns, BridgeType, RowsType, TapeType, AsyncType, rows,
          tape, async
  <2>15. CASE AuditEnd
    <3>1. ControlType'
      BY <2>15 DEF AuditEnd, ControlType, Bridging, HS
    <3>2. RowsType'
      <4>1. cur \in HS
        BY <2>15 DEF AuditEnd, ControlType, Bridging, HS
      <4> QED
        BY <2>15, <4>1, SessionEndRows DEF AuditEnd
    <3> QED
      BY <2>15, <3>1, <3>2
      DEF AuditEnd, BridgeType, TapeType, AsyncType, rows, tape, async
  <2>16. CASE RecordClose
    <3>1. ControlType'
      BY <2>16 DEF RecordClose, ControlType, Bridging, HS
    <3>2. TapeType'
      BY <2>16 DEF RecordClose, TapeType
    <3> QED
      BY <2>16, <3>1, <3>2
      DEF RecordClose, BridgeType, RowsType, AsyncType, rows, tape, async
  <2>17. CASE RecordExport
    <3>1. ControlType'
      BY <2>17 DEF RecordExport, ControlType, Bridging, HS
    <3>2. RowsType'
      <4>1. cur \in HS
        BY <2>17 DEF RecordExport, ControlType, Bridging, HS
      <4>2. events[cur] \in Int
        BY <4>1 DEF TapeType
      <4> QED
        BY <2>17, <4>1, <4>2, CloseSessionRows DEF RecordExport
    <3>3. TapeType'
      BY <2>17 DEF RecordExport, TapeType
    <3>4. AsyncType'
      <4>1. cur \in HS /\ events[cur] \in Int
        BY <2>17 DEF RecordExport, ControlType, Bridging, TapeType
      <4> QED
        BY <2>17, <4>1 DEF RecordExport, CloseSession, AsyncType
    <3> QED
      BY <2>17, <3>1, <3>2, <3>3, <3>4
      DEF RecordExport, BridgeType, rows, tape, async
  <2>18. CASE Disconnect
    <3>1. ControlType'
      BY <2>18 DEF Disconnect, ControlType, Bridging, HS
    <3> QED
      BY <2>18, <3>1
      DEF Disconnect, BridgeType, RowsType, TapeType, AsyncType, rows, tape,
          async
  <2>19. CASE Cancel
    <3>1. ControlType'
      BY <2>19 DEF Cancel, ControlType, Bridging, HS
    <3> QED
      BY <2>19, <3>1
      DEF Cancel, BridgeType, RowsType, TapeType, AsyncType, rows, tape,
          async
  <2>20. CASE Stop
    <3>1. ControlType'
      BY <2>20 DEF Stop, ControlType, Bridging, HS
    <3> QED
      BY <2>20, <3>1
      DEF Stop, BridgeType, RowsType, TapeType, AsyncType, rows, tape, async
  <2>21. CASE ProcessExit
    <3>1. ControlType'
      BY <2>21 DEF ProcessExit, ControlType, Bridging, HS
    <3> QED
      BY <2>21, <3>1
      DEF ProcessExit, BridgeType, RowsType, TapeType, AsyncType, rows,
          tape, async
  <2>22. ASSUME NEW h \in HS, StdinForward(h)
        PROVE  TypeOK'
    <3>1. BridgeType'
      <4>1. \/ UNCHANGED pump
            \/ \E s \in PumpState : SetPump(h, "stdin", s)
        BY <2>22 DEF StdinForward, PumpState
      <4>2. errChan' \in SUBSET HS /\ UNCHANGED <<shell, how>>
        BY <2>22 DEF StdinForward, BridgeType
      <4> QED
        BY <4>1, <4>2, SetPumpType DEF BridgeType
    <3>2. TapeType'
      BY <2>22 DEF StdinForward, TapeType
    <3> QED
      BY <2>22, <3>1, <3>2
      DEF StdinForward, ControlType, RowsType, AsyncType, rows, tape, async
  <2>23. ASSUME NEW h \in HS, StdinEOF(h)
        PROVE  TypeOK'
    <3>1. BridgeType'
      BY <2>23 DEF StdinEOF, SetPump, BridgeType, PumpState
    <3> QED
      BY <2>23, <3>1
      DEF StdinEOF, ControlType, RowsType, TapeType, AsyncType, rows, tape,
          async
  <2>24. ASSUME NEW h \in HS, NEW p \in Outputs, OutputForward(h, p)
        PROVE  TypeOK'
    <3>1. BridgeType'
      <4>1. \/ UNCHANGED pump
            \/ \E s \in PumpState : SetPump(h, p, s)
        BY <2>24 DEF OutputForward, PumpState
      <4>2. errChan' \in SUBSET HS /\ UNCHANGED <<shell, how>>
        BY <2>24 DEF OutputForward, BridgeType
      <4> QED
        BY <4>1, <4>2, SetPumpType DEF BridgeType
    <3>2. TapeType'
      BY <2>24 DEF OutputForward, TapeType
    <3> QED
      BY <2>24, <3>1, <3>2
      DEF OutputForward, ControlType, RowsType, AsyncType, rows, tape, async
  <2>25. ASSUME NEW h \in HS, NEW p \in Outputs, OutputEOF(h, p)
        PROVE  TypeOK'
    <3>1. BridgeType'
      BY <2>25 DEF OutputEOF, SetPump, BridgeType, PumpState
    <3> QED
      BY <2>25, <3>1
      DEF OutputEOF, ControlType, RowsType, TapeType, AsyncType, rows, tape,
          async
  <2>26. ASSUME NEW h \in HS, NEW p \in Pumps, RecordCheck(h, p)
        PROVE  TypeOK'
    <3>1. BridgeType'
      BY <2>26 DEF RecordCheck, SetPump, BridgeType, PumpState
    <3> QED
      BY <2>26, <3>1
      DEF RecordCheck, ControlType, RowsType, TapeType, AsyncType, rows,
          tape, async
  <2>27. ASSUME NEW h \in HS, NEW p \in Pumps, RecordSend(h, p)
        PROVE  TypeOK'
    <3>1. ControlType'
      BY <2>27 DEF RecordSend, ControlType, Bridging, HS
    <3>2. BridgeType'
      <4>1. \/ UNCHANGED pump
            \/ \E s \in PumpState : SetPump(h, p, s)
        BY <2>27 DEF RecordSend, PumpState
      <4>2. errChan' \in SUBSET HS /\ UNCHANGED <<shell, how>>
        BY <2>27 DEF RecordSend, BridgeType
      <4> QED
        BY <4>1, <4>2, SetPumpType DEF BridgeType
    <3>3. TapeType'
      BY <2>27 DEF RecordSend, TapeType
    <3> QED
      BY <2>27, <3>1, <3>2, <3>3
      DEF RecordSend, RowsType, AsyncType, rows, tape, async
  <2>28. ASSUME NEW h \in HS, ProcessEvent(h)
        PROVE  TypeOK'
    <3>1. TapeType'
      BY <2>28 DEF ProcessEvent, TapeType
    <3> QED
      BY <2>28, <3>1
      DEF ProcessEvent, ControlType, BridgeType, RowsType, AsyncType, rows,
          tape, async
  <2>29. ASSUME NEW h \in HS, ProcessClose(h)
        PROVE  TypeOK'
    <3>1. RowsType'
      BY <2>29, CloseRows DEF ProcessClose, AsyncType
    <3>2. AsyncType'
      BY <2>29 DEF ProcessClose, AsyncType
    <3> QED
      BY <2>29, <3>1, <3>2
      DEF ProcessClose, ControlType, BridgeType, TapeType, rows, tape, async
  <2>30. ASSUME NEW h \in HS, ShellExit(h)
        PROVE  TypeOK'
    <3>1. BridgeType'
      BY <2>30 DEF ShellExit, BridgeType, PumpState
    <3> QED
      BY <2>30, <3>1
      DEF ShellExit, ControlType, RowsType, TapeType, AsyncType, rows, tape,
          async
  <2> QED
    BY <2>1, <2>2, <2>3, <2>4, <2>5, <2>6, <2>7, <2>8, <2>9, <2>10, <2>11,
       <2>12, <2>13, <2>14, <2>15, <2>16, <2>17, <2>18, <2>19, <2>20,
       <2>21, <2>22, <2>23, <2>24, <2>25, <2>26, <2>27, <2>28, <2>29, <2>30
    DEF Next, Handler, Copiers, Workers, Environment
<1> QED
  BY <1>1, <1>2, PTL DEF Spec

-----------------------------------------------------------------------------
(* The audit rows.                                                          *)

\* A step that leaves the handler's place and the rows alone.
RowsQuiet == UNCHANGED <<pc, cur, login, recording>>

\* Copiers, the recorder's worker and the environment never touch the rows.
LEMMA BackgroundIsQuiet ==
  (Copiers \/ (\E h \in HS : ProcessEvent(h)) \/ Environment) => RowsQuiet
  BY DEF Copiers, StdinForward, StdinEOF, OutputForward, OutputEOF,
         RecordCheck, RecordSend, ProcessEvent, Environment, ShellExit,
         Disconnect, Cancel, Stop, ProcessExit, RowsQuiet, rows

LEMMA RowsStep == TypeOK /\ RowsInv /\ [Next]_vars => RowsInv'
<1> SUFFICES ASSUME TypeOK, RowsInv, [Next]_vars
             PROVE  RowsInv'
  OBVIOUS
<1> USE HostSessionAssumption
    DEF TypeOK, ControlType, RowsType, RowsInv, Unaudited, AuditRowsAgree,
        Bridging, LoginStatus, RecordingStatus
<1>1. CASE UNCHANGED vars \/ Copiers \/ (\E h \in HS : ProcessEvent(h))
           \/ Environment
  <2>1. RowsQuiet
    BY <1>1, BackgroundIsQuiet DEF vars, RowsQuiet
  <2> QED
    BY <2>1 DEF RowsQuiet
<1>2. CASE SelectHostManyUsers \/ SelectHostDenied
  BY <1>2 DEF SelectHostManyUsers, SelectHostDenied, rows, HS
<1>3. CASE SelectHostOneUser
  BY <1>3 DEF SelectHostOneUser, AuditLoginStart, HS
<1>4. CASE ChooseUser
  BY <1>4 DEF ChooseUser, AuditLoginStart, HS
<1>5. CASE ChooseUserFails \/ PromptReturns \/ Quit
  BY <1>5 DEF ChooseUserFails, PromptReturns, Quit, rows
<1>6. CASE DialFails
  BY <1>6 DEF DialFails, AuditLoginFailed
<1>7. CASE DialSucceeds
  BY <1>7 DEF DialSucceeds, AuditLoginSuccess
<1>8. CASE SetupFails \/ SetupSucceeds \/ BridgeEnds \/ WaitReturns
           \/ RecordClose
  BY <1>8 DEF SetupFails, SetupSucceeds, BridgeEnds, WaitReturns, RecordClose,
              rows
<1>9. CASE AuditEnd
  BY <1>9 DEF AuditEnd, AuditSessionEnd, rows
<1>10. CASE RecordExport
  BY <1>10 DEF RecordExport, CloseSession, CloseSessionInDB, rows
<1>11. ASSUME NEW h \in HS, ProcessClose(h)
       PROVE  RowsInv'
  BY <1>11 DEF ProcessClose, CloseSessionInDB
<1> QED
  BY <1>1, <1>2, <1>3, <1>4, <1>5, <1>6, <1>7, <1>8, <1>9, <1>10, <1>11
  DEF Next, Handler, Workers

\* Whatever database writes fail, a failed login record has no recording row
\* and a completed one has a closed recording row.
THEOREM AuditRowsAgreeHolds == Spec => []AuditRowsAgree
<1>1. Init => RowsInv
  BY HostSessionAssumption
  DEF Init, RowsInv, Unaudited, AuditRowsAgree, HS
<1>2. RowsInv => AuditRowsAgree
  BY DEF RowsInv
<1> QED
  BY <1>1, <1>2, TypeCorrect, RowsStep, PTL DEF Spec

-----------------------------------------------------------------------------
(* The recording text.                                                      *)

LEMMA ContentStep ==
  TypeOK /\ ContentInv /\ [Next]_vars =>
    /\ ContentInv'
    /\ \A h \in HS : content[h] # Blank => content'[h] = content[h]
<1> SUFFICES ASSUME TypeOK, ContentInv, [Next]_vars
             PROVE  /\ ContentInv'
                    /\ \A h \in HS :
                         content[h] # Blank => content'[h] = content[h]
  OBVIOUS
<1> USE HostSessionAssumption
    DEF TypeOK, ControlType, RowsType, AsyncType, ContentInv, Unclosed,
        Bridging
<1>1. CASE UNCHANGED vars \/ Copiers \/ (\E h \in HS : ProcessEvent(h))
           \/ Environment
  <2>1. UNCHANGED <<pc, cur, content, closing>>
    BY <1>1
    DEF vars, Copiers, StdinForward, StdinEOF, OutputForward, OutputEOF,
        RecordCheck, RecordSend, ProcessEvent, Environment, ShellExit,
        Disconnect, Cancel, Stop, ProcessExit, rows, async
  <2> QED
    BY <2>1
<1>2. CASE SelectHostManyUsers \/ SelectHostDenied \/ SelectHostOneUser
  <2>1. UNCHANGED <<content, closing>> /\ cur' = cur + 1
    BY <1>2 DEF SelectHostManyUsers, SelectHostDenied, SelectHostOneUser,
                rows, async
  <2> QED
    BY <2>1 DEF HS
<1>3. CASE ChooseUser \/ ChooseUserFails \/ PromptReturns \/ Quit \/ DialFails
           \/ DialSucceeds \/ SetupFails \/ SetupSucceeds \/ BridgeEnds
           \/ WaitReturns \/ RecordClose
  <2>1. /\ UNCHANGED <<cur, content, closing>>
        /\ pc' \in {"users", "dial", "setup"} \cup Bridging =>
             pc \in {"users", "dial", "setup"} \cup Bridging
    BY <1>3 DEF ChooseUser, ChooseUserFails, PromptReturns, Quit, DialFails,
                DialSucceeds, SetupFails, SetupSucceeds, BridgeEnds,
                WaitReturns, RecordClose, rows, async
  <2> QED
    BY <2>1
<1>4. CASE AuditEnd
  <2>1. closing[cur] = "none" /\ content[cur] = Blank
    BY <1>4 DEF AuditEnd
  <2> QED
    BY <1>4, <2>1 DEF AuditEnd, AuditSessionEnd, rows, async
<1>5. CASE RecordExport
  <2>1. closing[cur] = "none" /\ content[cur] = Blank
    BY <1>5 DEF RecordExport
  <2> QED
    BY <1>5, <2>1 DEF RecordExport, CloseSession, CloseSessionInDB, rows
<1>6. ASSUME NEW h \in HS, ProcessClose(h)
      PROVE  /\ ContentInv'
             /\ \A g \in HS : content[g] # Blank => content'[g] = content[g]
  <2>1. content[h] = Blank
    BY <1>6 DEF ProcessClose
  <2> QED
    BY <1>6, <2>1 DEF ProcessClose, CloseSessionInDB
<1> QED
  BY <1>1, <1>2, <1>3, <1>4, <1>5, <1>6 DEF Next, Handler, Workers

\* A recording that reached its row stays there: no later statement replaces
\* it with the empty text of AuditSessionEnd or with another recording.
THEOREM RecordingNeverErasedHolds == Spec => RecordingNeverErased
<1>1. Init => ContentInv
  BY HostSessionAssumption DEF Init, ContentInv, Unclosed, Blank, HS
<1>2. TypeOK /\ ContentInv /\ [Next]_vars =>
        [\A h \in HS : content[h] # Blank => content'[h] = content[h]]_vars
  BY ContentStep
<1> QED
  BY <1>1, <1>2, TypeCorrect, ContentStep, PTL DEF Spec, RecordingNeverErased

-----------------------------------------------------------------------------
(* Settled rows, when the database never fails.                             *)

LEMMA SettledStep ==
  TypeOK /\ RowsInv /\ ContentInv /\ SettledInv /\ [Next]_vars => SettledInv'
<1> SUFFICES ASSUME TypeOK, RowsInv, ContentInv, SettledInv, [Next]_vars,
                    faults' = 0
             PROVE  SettledInv'
  BY DEF SettledInv
<1> USE HostSessionAssumption
    DEF TypeOK, ControlType, RowsType, SettledInv, AuditSettled, Past,
        Bridging, Outcome, DbOutcome
<1>1. CASE UNCHANGED vars \/ Copiers \/ (\E h \in HS : ProcessEvent(h))
           \/ Environment
  <2>1. UNCHANGED <<pc, cur, login, recording, faults>>
    BY <1>1
    DEF vars, Copiers, StdinForward, StdinEOF, OutputForward, OutputEOF,
        RecordCheck, RecordSend, ProcessEvent, Environment, ShellExit,
        Disconnect, Cancel, Stop, ProcessExit, rows
  <2> QED
    BY <2>1
<1>2. CASE SelectHostManyUsers \/ SelectHostDenied
  BY <1>2 DEF SelectHostManyUsers, SelectHostDenied, rows, HS, RowsInv,
              Unaudited
<1>3. CASE SelectHostOneUser
  BY <1>3 DEF SelectHostOneUser, AuditLoginStart, HS
<1>4. CASE ChooseUser
  BY <1>4 DEF ChooseUser, AuditLoginStart, HS
<1>5. CASE ChooseUserFails
  BY <1>5 DEF ChooseUserFails, rows, RowsInv, Unaudited
<1>6. CASE PromptReturns \/ Quit
  BY <1>6 DEF PromptReturns, Quit, rows
<1>7. CASE DialFails
  BY <1>7 DEF DialFails, AuditLoginFailed, RowsInv
<1>8. CASE DialSucceeds
  BY <1>8 DEF DialSucceeds, AuditLoginSuccess
<1>9. CASE SetupFails \/ SetupSucceeds \/ BridgeEnds \/ WaitReturns
           \/ RecordClose
  BY <1>9 DEF SetupFails, SetupSucceeds, BridgeEnds, WaitReturns, RecordClose,
              rows
<1>10. CASE AuditEnd
  BY <1>10 DEF AuditEnd, AuditSessionEnd, rows
<1>11. CASE RecordExport
  BY <1>11 DEF RecordExport, CloseSession, CloseSessionInDB, rows
<1>12. ASSUME NEW h \in HS, ProcessClose(h)
       PROVE  SettledInv'
  <2>1. ~Unclosed(h) /\ Past(h)
    BY <1>12 DEF ProcessClose, ContentInv, Unclosed, HS
  <2> QED
    BY <1>12, <2>1 DEF ProcessClose, CloseSessionInDB, Unclosed, HS
<1> QED
  BY <1>1, <1>2, <1>3, <1>4, <1>5, <1>6, <1>7, <1>8, <1>9, <1>10, <1>11, <1>12
  DEF Next, Handler, Workers

\* As long as no database write failed, every host session the handler has
\* left has settled audit rows.
THEOREM AuditSettledHolds == Spec => []AuditSettled
<1>1. Init => RowsInv /\ ContentInv /\ SettledInv
  BY HostSessionAssumption
  DEF Init, RowsInv, Unaudited, AuditRowsAgree, ContentInv, Unclosed,
      SettledInv, AuditSettled, Past, Blank, HS
<1>2. TypeOK /\ RowsInv /\ ContentInv /\ [Next]_vars =>
        RowsInv' /\ ContentInv'
  BY RowsStep, ContentStep
<1>3. SettledInv => AuditSettled
  BY DEF SettledInv, AuditSettled
<1> QED
  BY <1>1, <1>2, <1>3, TypeCorrect, SettledStep, PTL DEF Spec

-----------------------------------------------------------------------------
(* The copiers.                                                             *)

\* A copier's own step changes the state of that copier only.
LEMMA SetPumpEffect ==
  ASSUME TypeOK, NEW h \in HS, NEW p \in Pumps, NEW s \in PumpState,
         SetPump(h, p, s)
  PROVE  /\ pump'[h][p] = s
         /\ \A g \in HS, q \in Pumps :
              ~(g = h /\ q = p) => pump'[g][q] = pump[g][q]
  BY DEF TypeOK, BridgeType, SetPump

LEMMA CopierStep == TypeOK /\ CopierInv /\ [Next]_vars => CopierInv'
<1> SUFFICES ASSUME TypeOK, CopierInv, [Next]_vars
             PROVE  CopierInv'
  OBVIOUS
<1> USE HostSessionAssumption
    DEF TypeOK, ControlType, CopierInv, Unbridged, PanicOnlyAfterEarlyEnd,
        Bridging
<1>0. "stdin" \in Pumps
  BY DEF Pumps
<1>1. CASE UNCHANGED vars \/ Workers \/ (\E h \in HS : ShellExit(h))
           \/ Disconnect \/ Cancel \/ Stop \/ ProcessExit
  <2>1. /\ UNCHANGED <<pc, cur, pump, errChan, how, rec>>
        /\ client' = "closed" \/ client' = client
        /\ proc' = "crashed" => proc = "crashed"
    BY <1>1
    DEF vars, Workers, ProcessEvent, ProcessClose, ShellExit, Disconnect,
        Cancel, Stop, ProcessExit, tape
  <2> QED
    BY <2>1
<1>2. CASE SelectHostManyUsers \/ SelectHostDenied \/ SelectHostOneUser
  <2>1. /\ UNCHANGED <<client, proc, pump, errChan, how, rec>>
        /\ pc = "menu" /\ cur' = cur + 1
        /\ pc' \in {"users", "prompt", "dial"}
    BY <1>2 DEF SelectHostManyUsers, SelectHostDenied, SelectHostOneUser, tape
  <2> QED
    BY <2>1 DEF HS
<1>3. CASE ChooseUser \/ ChooseUserFails \/ PromptReturns \/ Quit \/ DialFails
           \/ WaitReturns \/ AuditEnd
  <2>1. /\ UNCHANGED <<cur, proc, pump, errChan, how, rec>>
        /\ client' = "closed" \/ client' = client
        /\ pc # "bridge" /\ pc' \notin {"users", "setup", "bridge"}
        /\ pc' = "dial" => pc = "users"
    BY <1>3 DEF ChooseUser, ChooseUserFails, PromptReturns, Quit, DialFails,
                WaitReturns, AuditEnd, tape
  <2> QED
    BY <2>1
<1>4. CASE DialSucceeds
  BY <1>4 DEF DialSucceeds, RecordStart, TapeType
<1>5. CASE SetupFails
  BY <1>5 DEF SetupFails, tape, BridgeType
<1>6. CASE SetupSucceeds
  BY <1>6 DEF SetupSucceeds, tape, BridgeType
<1>7. CASE BridgeEnds
  BY <1>7, <1>0 DEF BridgeEnds, tape, BridgeType, AllCopiersDone
<1>8. CASE RecordClose \/ RecordExport
  <2>1. /\ UNCHANGED <<cur, client, proc, pump, errChan, how>>
        /\ pc \in {"record", "export"} /\ pc' \in {"export", "menu"}
    BY <1>8 DEF RecordClose, RecordExport
  <2> QED
    BY <2>1
<1>9. ASSUME NEW h \in HS, NEW p \in Pumps, NEW s \in {"read", "forwarded",
             "checked", "done"},
             SetPump(h, p, s), pump[h][p] # "none", pump[h][p] # "done",
             s = "done" \/ (errChan' = errChan),
             errChan' \subseteq errChan \cup {h},
             h \in errChan' \ errChan => client = "closed" \/ p = "stdin",
             errChan \subseteq errChan',
             UNCHANGED <<pc, cur, client, proc, how, rec>>
      PROVE  CopierInv'
  <2>1. /\ pump'[h][p] = s
        /\ \A g \in HS, q \in Pumps :
             ~(g = h /\ q = p) => pump'[g][q] = pump[g][q]
    BY <1>9, SetPumpEffect DEF PumpState
  <2>2. ~Unbridged(h)
    BY <1>9
  <2>3. \A g \in HS, q \in Pumps : pump'[g][q] # "none" =>
          \/ how[g] = "none" /\ g = cur /\ pc = "bridge"
          \/ how[g] = "done" /\ pump'[g][q] = "done"
          \/ how[g] \in {"err", "ctx"}
    BY <1>9, <2>1
  <2>4. \A g \in errChan' : client = "closed" \/ pump'[g]["stdin"] = "done"
    BY <1>9, <1>0, <2>1 DEF BridgeType
  <2>5. \A g \in HS : Unbridged(g) => g # h
    BY <2>2
  <2> QED
    BY <1>9, <2>1, <2>3, <2>4, <2>5
<1>10. ASSUME NEW h \in HS, StdinForward(h) \/ StdinEOF(h)
       PROVE  CopierInv'
  BY <1>9, <1>10, <1>0 DEF StdinForward, StdinEOF, tape
<1>11. ASSUME NEW h \in HS, NEW p \in Outputs,
              OutputForward(h, p) \/ OutputEOF(h, p)
       PROVE  CopierInv'
  BY <1>9, <1>11 DEF OutputForward, OutputEOF, tape, Pumps
<1>12. ASSUME NEW h \in HS, NEW p \in Pumps, RecordCheck(h, p)
       PROVE  CopierInv'
  BY <1>9, <1>12 DEF RecordCheck, tape
<1>13. ASSUME NEW h \in HS, NEW p \in Pumps, RecordSend(h, p)
       PROVE  CopierInv'
  <2>1. CASE rec[h] = "open"
    BY <1>9, <1>13, <2>1 DEF RecordSend
  <2>2. CASE rec[h] # "open"
    <3>1. how[h] \in {"err", "ctx"}
      BY <1>13, <2>2 DEF RecordSend
    <3> QED
      BY <1>13, <2>2, <3>1 DEF RecordSend
  <2> QED
    BY <2>1, <2>2
<1> QED
  BY <1>1, <1>2, <1>3, <1>4, <1>5, <1>6, <1>7, <1>8, <1>10, <1>11, <1>12,
     <1>13
  DEF Next, Handler, Copiers, Environment

LEMMA CopierInit == Init => CopierInv
  BY HostSessionAssumption
  DEF Init, CopierInv, Unbridged, PanicOnlyAfterEarlyEnd, Bridging, HS, Pumps

\* The process can die from a send into a closed recorder channel only after
\* some host session's select took the error or the cancellation case.
THEOREM PanicOnlyAfterEarlyEndHolds == Spec => []PanicOnlyAfterEarlyEnd
<1>1. CopierInv => PanicOnlyAfterEarlyEnd
  BY DEF CopierInv
<1> QED
  BY <1>1, CopierInit, CopierStep, TypeCorrect, PTL DEF Spec

\* A stdin copier that outlives its host session is left over from a
\* cancelled session, or reads from a client that is gone.
THEOREM StaleReaderOnlyAfterCancelHolds == Spec => []StaleReaderOnlyAfterCancel
<1>1. TypeOK /\ CopierInv => StaleReaderOnlyAfterCancel
  <2> SUFFICES ASSUME TypeOK, CopierInv, NEW h \in HS, Past(h),
                      pump[h]["stdin"] \in {"read", "forwarded", "checked"}
               PROVE  how[h] = "ctx" \/ client = "closed"
    BY DEF StaleReaderOnlyAfterCancel
  <2>1. "stdin" \in Pumps
    BY DEF Pumps
  <2>2. ~(h = cur /\ pc = "bridge")
    BY DEF Past, HS, TypeOK, ControlType
  <2>3. how[h] \in {"err", "ctx"}
    BY <2>1, <2>2 DEF CopierInv
  <2> QED
    BY <2>3 DEF CopierInv
<1> QED
  BY <1>1, CopierInit, CopierStep, TypeCorrect, PTL DEF Spec

\* Neither the panic of a late copier nor a stale reader without an early end.
THEOREM CopiersSoundHolds == Spec => []CopiersSound
<1>1. PanicOnlyAfterEarlyEnd /\ StaleReaderOnlyAfterCancel => CopiersSound
  BY DEF CopiersSound
<1> QED
  BY <1>1, PanicOnlyAfterEarlyEndHolds, StaleReaderOnlyAfterCancelHolds, PTL

\* The audit rows of every host session agree and are settled, in typed states.
THEOREM AuditSoundHolds == Spec => []AuditSound
<1>1. TypeOK /\ AuditRowsAgree /\ AuditSettled => AuditSound
  BY DEF AuditSound
<1> QED
  BY <1>1, TypeCorrect, AuditRowsAgreeHolds, AuditSettledHolds, PTL

-----------------------------------------------------------------------------
(* The life of a host session.                                              *)

\* The abstract sessions are the host sessions.
LEMMA LifeFunctions ==
  ASSUME NEW h \in HS
  PROVE  /\ [g \in HS |-> LifeOf(g)][h] = LifeOf(h)
         /\ [g \in HS |-> LifeOf(g)'][h] = LifeOf(h)'
  OBVIOUS

\* While the handler stays with its session, every other one stays where it is.
LEMMA OthersLive ==
  ASSUME TypeOK, UNCHANGED cur, NEW h \in HS, h # cur
  PROVE  LifeOf(h)' = LifeOf(h)
  BY DEF LifeOf

\* The database may fail more statements, never fewer.
LEMMA FaultsGrow ==
  ASSUME TypeOK, NEW e1 \in Outcome, NEW e2 \in Outcome, DbOutcome(e1 + e2)
  PROVE  faults' >= faults /\ (faults' = faults => e1 = 0 /\ e2 = 0)
  BY DEF TypeOK, RowsType, DbOutcome, Outcome

\* Every step of the connection is a step of one session's life, or none.
LEMMA LifeSteps ==
  TypeOK /\ RowsInv /\ ContentInv /\ SettledInv /\ [Next]_vars => [Life!Next]_(Life!vars)
<1> SUFFICES ASSUME TypeOK, RowsInv, ContentInv, SettledInv, [Next]_vars
             PROVE  Life!Next
  OBVIOUS
<1>1. /\ cur \in 0 .. MaxHosts /\ MaxHosts \in Nat /\ faults \in Nat
      /\ pc \in {"users", "dial", "setup"} \cup Bridging => cur \in HS
      /\ login \in [HS -> LoginStatus] /\ recording \in [HS -> RecordingStatus]
      /\ faults >= faults
  BY HostSessionAssumption DEF TypeOK, ControlType, RowsType
<1>2. ASSUME NEW h \in HS, Life!Step(h), faults' >= faults,
             \A g \in HS \ {h} : /\ LifeOf(g)' = LifeOf(g)
                                 /\ login'[g] = login[g] /\ recording'[g] = recording[g]
      PROVE  Life!Next
  <2>1. \A g \in HS \ {h} : Life!Rests(g)
    BY <1>2, LifeFunctions DEF Life!Rests
  <2> QED
    BY <1>2, <2>1 DEF Life!Next
<1>3. ASSUME UNCHANGED <<login, recording>>, faults' >= faults,
             \A g \in HS : LifeOf(g)' = LifeOf(g)
      PROVE  Life!Next
  <2>1. \A g \in HS : Life!Rests(g)
    BY <1>3, LifeFunctions DEF Life!Rests
  <2> QED
    BY <1>3, <2>1 DEF Life!Next
<1>4. CASE UNCHANGED vars \/ Copiers \/ (\E h \in HS : ProcessEvent(h)) \/ Environment
  <2>1. UNCHANGED <<pc, cur, login, recording, faults>>
    BY <1>4
    DEF vars, Copiers, StdinForward, StdinEOF, OutputForward, OutputEOF,
        RecordCheck, RecordSend, ProcessEvent, Environment, ShellExit,
        Disconnect, Cancel, Stop, ProcessExit, rows
  <2> QED
    BY <1>1, <1>3, <2>1 DEF LifeOf
\* The handler moves on within a stage.
<1>5. CASE PromptReturns \/ Quit \/ SetupFails \/ SetupSucceeds \/ BridgeEnds
           \/ WaitReturns \/ RecordClose
  <2>1. UNCHANGED <<cur, login, recording, faults>>
    BY <1>5 DEF PromptReturns, Quit, SetupFails, SetupSucceeds, BridgeEnds,
                WaitReturns, RecordClose, rows
  <2>2. \/ pc \in {"prompt", "menu", "record"} /\ pc' \in {"menu", "exit", "export"}
        \/ /\ pc \in {"setup", "bridge", "wait"}
           /\ pc' \in {"bridge", "wait", "audit"}
    BY <1>5 DEF PromptReturns, Quit, SetupFails, SetupSucceeds, BridgeEnds,
                WaitReturns, RecordClose
  <2>3. \A g \in HS : LifeOf(g)' = LifeOf(g)
    BY <2>1, <2>2 DEF LifeOf
  <2> QED
    BY <1>1, <1>3, <2>1, <2>3
\* A host is picked: the next session.
<1>6. CASE SelectHostManyUsers
  <2>1. pc = "menu" /\ pc' = "users" /\ cur' = cur + 1 /\ UNCHANGED <<login, recording, faults>>
    BY <1>6 DEF SelectHostManyUsers, rows
  <2>2. \A g \in HS : LifeOf(g)' = LifeOf(g)
    BY <1>1, <2>1 DEF LifeOf, HS
  <2> QED
    BY <1>1, <1>3, <2>1, <2>2
<1>7. ASSUME pc = "menu", cur < MaxHosts, cur' = cur + 1, pc' \in {"dial", "prompt"}
      PROVE  \E h \in HS :
               /\ h = cur + 1 /\ LifeOf(h) = "idle"
               /\ LifeOf(h)' = IF pc' = "dial" THEN "connecting" ELSE "over"
               /\ \A g \in HS \ {h} : LifeOf(g)' = LifeOf(g)
  <2>1. PICK h \in HS : h = cur + 1
    BY <1>1, <1>7 DEF HS
  <2> QED
    BY <1>1, <1>7, <2>1 DEF LifeOf, HS
<1>8. CASE SelectHostDenied
  <2>1. /\ pc = "menu" /\ pc' = "prompt" /\ cur < MaxHosts /\ cur' = cur + 1
        /\ UNCHANGED <<login, recording, faults>>
    BY <1>8 DEF SelectHostDenied, rows
  <2>2. PICK h \in HS : /\ LifeOf(h) = "idle" /\ LifeOf(h)' = "over"
                        /\ \A g \in HS \ {h} : LifeOf(g)' = LifeOf(g)
    BY <1>7, <2>1
  <2>3. Life!Step(h)
    BY <2>1, <2>2, LifeFunctions DEF Life!Step, Life!Refuse, Life!Goes
  <2> QED
    BY <1>1, <1>2, <2>1, <2>2, <2>3
<1>9. ASSUME NEW h \in HS, AuditLoginStart(h), LifeOf(h) = "idle", LifeOf(h)' = "connecting",
             UNCHANGED recording, \A g \in HS \ {h} : LifeOf(g)' = LifeOf(g)
      PROVE  Life!Next
  <2>1. /\ faults' >= faults /\ \A g \in HS \ {h} : login'[g] = login[g]
        /\ login'[h] \in {login[h], "connecting"}
        /\ faults' = faults => login'[h] = "connecting"
    BY <1>1, <1>9 DEF AuditLoginStart, DbOutcome, Outcome
  <2>2. Life!Step(h)
    BY <1>9, <2>1, LifeFunctions DEF Life!Step, Life!Begin, Life!Goes, Life!Gets
  <2> QED
    BY <1>2, <1>9, <2>1, <2>2
<1>10. CASE SelectHostOneUser
  <2>1. /\ pc = "menu" /\ pc' = "dial" /\ cur < MaxHosts /\ cur' = cur + 1
        /\ AuditLoginStart(cur + 1) /\ UNCHANGED recording
    BY <1>10 DEF SelectHostOneUser
  <2>2. PICK h \in HS : /\ h = cur + 1 /\ LifeOf(h) = "idle" /\ LifeOf(h)' = "connecting"
                        /\ \A g \in HS \ {h} : LifeOf(g)' = LifeOf(g)
    BY <1>7, <2>1
  <2>3. AuditLoginStart(h)
    BY <2>1, <2>2
  <2> QED
    BY <1>9, <2>1, <2>2, <2>3
<1>11. CASE ChooseUser
  <2>1. pc = "users" /\ pc' = "dial" /\ AuditLoginStart(cur) /\ UNCHANGED <<cur, recording>>
    BY <1>11 DEF ChooseUser
  <2>2. PICK h \in HS : h = cur /\ LifeOf(h) = "idle" /\ LifeOf(h)' = "connecting"
    BY <1>1, <2>1 DEF LifeOf
  <2> QED
    BY <1>9, <2>1, <2>2, OthersLive
<1>12. CASE ChooseUserFails
  <2>1. pc = "users" /\ pc' = "prompt" /\ UNCHANGED <<cur, login, recording, faults>>
    BY <1>12 DEF ChooseUserFails, rows
  <2>2. PICK h \in HS : h = cur /\ LifeOf(h) = "idle" /\ LifeOf(h)' = "over"
    BY <1>1, <2>1 DEF LifeOf, HS
  <2>3. Life!Step(h)
    BY <2>1, <2>2, LifeFunctions DEF Life!Step, Life!Refuse, Life!Goes
  <2> QED
    BY <1>1, <1>2, <2>1, <2>2, <2>3, OthersLive
<1>13. CASE DialFails
  <2>1. pc = "dial" /\ pc' = "prompt" /\ AuditLoginFailed(cur) /\ UNCHANGED <<cur, recording>>
    BY <1>13 DEF DialFails
  <2>2. PICK h \in HS : h = cur /\ LifeOf(h) = "connecting" /\ LifeOf(h)' = "over"
    BY <1>1, <2>1 DEF LifeOf, HS
  <2>3. /\ faults' >= faults /\ \A g \in HS \ {h} : login'[g] = login[g]
        /\ login[h] = "none" => login'[h] = login[h]
        /\ login'[h] \in {login[h], "failed"}
        /\ faults' = faults /\ login[h] # "none" => login'[h] = "failed"
    BY <1>1, <2>1, <2>2 DEF AuditLoginFailed, DbOutcome, Outcome
  <2>4. Life!Step(h)
    BY <2>1, <2>2, <2>3, LifeFunctions
    DEF Life!Step, Life!Fail, Life!Goes, Life!Gets, Life!GetsIfThere
  <2> QED
    BY <1>2, <2>1, <2>2, <2>3, <2>4, OthersLive
<1>14. CASE DialSucceeds
  <2>1. pc = "dial" /\ pc' = "setup" /\ AuditLoginSuccess(cur) /\ UNCHANGED cur
    BY <1>14 DEF DialSucceeds
  <2>2. PICK h \in HS : h = cur /\ LifeOf(h) = "connecting" /\ LifeOf(h)' = "active"
    BY <1>1, <2>1 DEF LifeOf
  <2>3. /\ faults' >= faults
        /\ \A g \in HS \ {h} : login'[g] = login[g] /\ recording'[g] = recording[g]
        /\ login[h] = "none" => login'[h] = login[h]
        /\ login'[h] \in {login[h], "active"}
        /\ recording'[h] \in {recording[h], "active"}
        /\ faults' = faults => /\ recording'[h] = "active"
                               /\ login[h] # "none" => login'[h] = "active"
    BY <1>1, <2>1, <2>2, FaultsGrow DEF AuditLoginSuccess
  <2>4. Life!Step(h)
    BY <2>2, <2>3, LifeFunctions
    DEF Life!Step, Life!Open, Life!Goes, Life!Gets, Life!GetsIfThere
  <2> QED
    BY <1>2, <2>1, <2>2, <2>3, <2>4, OthersLive
\* The end of an active session is audited: completely, if nothing has failed.
<1>15. CASE AuditEnd
  <2>1. pc = "audit" /\ pc' = "record" /\ AuditSessionEnd(cur) /\ UNCHANGED cur
    BY <1>15 DEF AuditEnd
  <2>2. PICK h \in HS : h = cur /\ LifeOf(h) = "active" /\ LifeOf(h)' = "over"
    BY <1>1, <2>1 DEF LifeOf, HS, Bridging
  <2>3. /\ faults' >= faults /\ faults' \in Nat
        /\ \A g \in HS \ {h} : login'[g] = login[g] /\ recording'[g] = recording[g]
        /\ login[h] = "none" => login'[h] = login[h]
        /\ login'[h] \in {login[h], "completed"}
        /\ recording[h] = "none" => recording'[h] = recording[h]
        /\ recording'[h] \in {recording[h], "closed"}
        /\ faults' = faults /\ login[h] # "none" /\ recording[h] # "none" =>
             login'[h] = "completed" /\ recording'[h] = "closed"
    BY <1>1, <2>1, <2>2 DEF AuditSessionEnd, DbOutcome, Outcome, rows
  <2>4. faults' = 0 => login'[h] = "completed" /\ recording'[h] = "closed"
    <3> SUFFICES ASSUME faults' = 0
                 PROVE  login'[h] = "completed" /\ recording'[h] = "closed"
      OBVIOUS
    <3>1. faults = 0
      BY <1>1, <2>3
    <3>2. login[h] = "active" /\ recording[h] = "active"
      BY <2>1, <2>2, <3>1 DEF SettledInv
    <3> QED
      BY <2>3, <3>1, <3>2
  <2>5. Life!Step(h)
    BY <2>2, <2>3, <2>4, LifeFunctions DEF Life!Step, Life!End, Life!Settles, Life!Goes
  <2> QED
    BY <1>2, <2>1, <2>2, <2>3, <2>5, OthersLive
\* The recording is written back, by the handler or by the queue's worker.
<1>16. ASSUME NEW h \in HS, NEW text, CloseSessionInDB(h, text),
              LifeOf(h) = "over", \A g \in HS : LifeOf(g)' = LifeOf(g),
              faults = 0 /\ recording[h] # "none" => login[h] = "completed"
       PROVE  Life!Next
  <2>1. /\ faults' >= faults /\ faults' \in Nat
        /\ \A g \in HS \ {h} : login'[g] = login[g] /\ recording'[g] = recording[g]
        /\ login'[h] \in {login[h], "completed"}
        /\ recording'[h] \in {recording[h], "closed"}
        /\ login[h] = "none" => login'[h] = login[h]
        /\ recording[h] = "none" => login'[h] = login[h] /\ recording'[h] = recording[h]
        /\ faults' = faults /\ recording[h] # "none" => recording'[h] = "closed"
    BY <1>1, <1>16 DEF CloseSessionInDB, DbOutcome, Outcome
  <2>2. CASE recording[h] = "none"
    <3>1. \A g \in HS : Life!Rests(g)
      BY <1>16, <2>1, <2>2, LifeFunctions DEF Life!Rests
    <3> QED
      BY <2>1, <3>1 DEF Life!Next
  <2>3. CASE recording[h] # "none"
    <3>1. faults' = 0 => login'[h] = "completed" /\ recording'[h] = "closed"
      BY <1>1, <1>16, <2>1, <2>3
    <3>2. Life!Step(h)
      BY <1>16, <2>1, <2>3, <3>1, LifeFunctions
      DEF Life!Step, Life!EndAgain, Life!Settles, Life!Goes
    <3> QED
      BY <1>2, <1>16, <2>1, <3>2
  <2> QED
    BY <2>2, <2>3
<1>17. CASE RecordExport
  <2>1. pc = "export" /\ pc' = "menu" /\ UNCHANGED cur /\ CloseSession(cur, events[cur])
    BY <1>17 DEF RecordExport
  <2>2. cur \in HS /\ LifeOf(cur) = "over" /\ \A g \in HS : LifeOf(g)' = LifeOf(g)
    BY <1>1, <2>1 DEF LifeOf, HS, Bridging
  <2>3. CASE UNCHANGED <<rows, faults>>
    BY <1>1, <1>3, <2>2, <2>3 DEF rows
  <2>4. CASE CloseSessionInDB(cur, events[cur])
    <3>1. faults = 0 => login[cur] = "completed"
      BY <2>1 DEF SettledInv
    <3> QED
      BY <1>16, <2>2, <2>4, <3>1
  <2> QED
    BY <2>1, <2>3, <2>4 DEF CloseSession
<1>18. ASSUME NEW h \in HS, ProcessClose(h)
       PROVE  Life!Next
  <2>1. /\ CloseSessionInDB(h, export[h]) /\ UNCHANGED <<pc, cur>> /\ closing[h] = "queued"
    BY <1>18 DEF ProcessClose
  <2>2. Past(h) /\ LifeOf(h) = "over" /\ \A g \in HS : LifeOf(g)' = LifeOf(g)
    BY <1>1, <2>1 DEF ContentInv, Unclosed, Past, LifeOf, HS, TypeOK, ControlType, Bridging
  <2>3. faults = 0 /\ recording[h] # "none" => login[h] = "completed"
    BY <2>2 DEF SettledInv, AuditSettled
  <2> QED
    BY <1>16, <2>1, <2>2, <2>3
<1> QED
  BY <1>4, <1>5, <1>6, <1>8, <1>10, <1>11, <1>12, <1>13, <1>14, <1>15, <1>17, <1>18
  DEF Next, Handler, Workers

\* The host sessions of a connection implement SessionLife, for any number of
\* them, of copiers and of failing statements: each one's rows follow it from the
\* attempt to the end, and the asynchronous close takes nothing back.
THEOREM ImplementsLifeHolds == Spec => ImplementsLife
<1>1. Init => RowsInv /\ ContentInv /\ SettledInv
  BY HostSessionAssumption
  DEF Init, RowsInv, Unaudited, AuditRowsAgree, ContentInv, Unclosed,
      SettledInv, AuditSettled, Past, Blank, HS
<1>2. Init => Life!Init
  <2> SUFFICES ASSUME Init
               PROVE  Life!Init
    OBVIOUS
  <2>1. \A h \in HS : LifeOf(h) = "idle" /\ login[h] = "none" /\ recording[h] = "none"
    BY HostSessionAssumption DEF Init, LifeOf, HS
  <2> QED
    BY <2>1, LifeFunctions DEF Init, Life!Init
<1>3. TypeOK /\ RowsInv /\ ContentInv /\ [Next]_vars => RowsInv' /\ ContentInv'
  BY RowsStep, ContentStep
<1> QED
  BY <1>1, <1>2, <1>3, TypeCorrect, SettledStep, LifeSteps, PTL
  DEF Spec, ImplementsLife, Life!Spec

=============================================================================

------------------------------ MODULE Audit_proofs ------------------------------
(***************************************************************************)
(* Proofs about the records an auditor relies on: the approval tickets and    *)
(* their history (Approval), for every set of requests, every set of          *)
(* registered platforms and any number of failing writes; and the recordings, *)
(* login records and command rows of the sessions (SessionRecords), for every *)
(* set of sessions and every finite set of workers, and whatever the size of  *)
(* a batch.                                                                   *)
(***************************************************************************)
EXTENDS Approval, SessionRecords, FunctionTheorems, FiniteSetTheorems, TLAPS

-----------------------------------------------------------------------------
(* Types.                                                                   *)

LEMMA MapStatusType ==
  ASSUME NEW p, NEW raw
  PROVE  MapStatus(p, raw) \in Status
  BY DEF MapStatus, MapFeishuStatus, MapDingTalkStatus, MapWeChatStatus,
         Status, Decided

\* Only the approving status of a platform is mapped to an approval.
LEMMA MapStatusApproves ==
  ASSUME NEW p \in ThirdParty, NEW raw, MapStatus(p, raw) = "approved"
  PROVE  <<p, raw>> \in Approving
  BY DEF MapStatus, MapFeishuStatus, MapDingTalkStatus, MapWeChatStatus,
         Approving, ThirdParty

LEMMA StartedRaw ==
  ASSUME NEW p \in ThirdParty
  PROVE  Started[p] \in Raw
<1>1. CASE p = "feishu"
  BY <1>1 DEF Started, Raw, FeishuInstance
<1>2. CASE p = "dingtalk"
  BY <1>2 DEF Started, Raw, DingTalkInstance
<1>3. CASE p = "wechat"
  BY <1>3 DEF Started, Raw, WeChatInstance
<1> QED
  BY <1>1, <1>2, <1>3 DEF ThirdParty

\* Whatever a cancellation makes of an instance is in the vocabulary.
LEMMA WithdrawnRaw ==
  ASSUME NEW p \in ThirdParty
  PROVE  Withdrawn[p] \subseteq Raw
<1>1. CASE p = "feishu"
  BY <1>1 DEF Withdrawn, CancelFeishu
<1>2. CASE p = "dingtalk"
  BY <1>2 DEF Withdrawn, CancelDingTalk, Raw, Finals
<1>3. CASE p = "wechat"
  BY <1>3 DEF Withdrawn, CancelWeChat, Raw, Finals
<1> QED
  BY <1>1, <1>2, <1>3 DEF ThirdParty

LEMMA OutcomeDecided ==
  ASSUME NEW d \in Decision
  PROVE  Outcome[d] \in Decided
  BY DEF Decision, Outcome, Decided

\* The row and the platform's side of the step of one request.
LEMMA TypeStep == TypeOK /\ TicketInv /\ [Next]_vars => TypeOK'
<1> SUFFICES ASSUME TypeOK, TicketInv, [Next]_vars
             PROVE  TypeOK'
  OBVIOUS
<1> USE ApprovalAssumption DEF TypeOK, TicketType, RequestType
<1>1. CASE UNCHANGED vars
  BY <1>1 DEF vars
<1>2. CASE CreateInternal \/ CreateRow \/ CreateRefused
  <2>1. RequestType' /\ instance' = instance
    BY <1>2 DEF CreateInternal, CreateRow, CreateRefused, request
  <2>2. /\ UNCHANGED <<platform, stamps>> /\ creator' = "end"
        /\ faults' \in Nat
        /\ status' \in {status, "pending"}
    BY <1>2 DEF CreateInternal, CreateRow, CreateRefused, Write
  <2>3. comments' \in SUBSET ({"submit", "comment"} \cup Decision)
    BY <1>2 DEF CreateInternal, CreateRow, CreateRefused
  <2> QED
    BY <2>1, <2>2, <2>3 DEF Status
<1>3. ASSUME NEW p \in ThirdParty, CreateInstance(p)
      PROVE  TypeOK'
  BY <1>3, StartedRaw DEF CreateInstance, request, Platforms
<1>4. ASSUME NEW raw \in Raw, InstanceMoves(raw)
      PROVE  TypeOK'
  BY <1>4 DEF InstanceMoves, ticket, request
<1>5. ASSUME NEW r \in Requests, Handle(r)
      PROVE  TypeOK'
  <2>1. ASSUME NEW d \in Decision, ReadTicket(r, d)
        PROVE  TypeOK'
    <3>1. AfterRead(d) \in {"withdraw", "save"} /\ Outcome[d] \in Status
      BY OutcomeDecided DEF AfterRead, Status
    <3>2. TicketType' /\ UNCHANGED <<heard, instance>>
      BY <2>1 DEF ReadTicket, ticket
    <3>3. op' \in [Requests -> {"none", "callback", "comment"} \cup Decision]
      BY <2>1 DEF ReadTicket
    <3>4. step' \in [Requests -> {"new", "withdraw", "save", "record", "end",
                                  "refused"}]
      BY <2>1, <3>1 DEF ReadTicket
    <3>5. copy' \in [Requests -> SUBSET Stamp] /\ target' \in [Requests -> Status]
      BY <2>1, <3>1 DEF ReadTicket
    <3>6. step'[r] # "record" /\ \A q \in Requests : q # r =>
            step'[q] = step[q] /\ op'[q] = op[q]
      BY <2>1, <3>1 DEF ReadTicket
    <3> QED
      BY <3>2, <3>3, <3>4, <3>5, <3>6
  <2>2. CASE Withdraw(r)
    <3>1. instance' \in {"none"} \cup Raw
      BY <2>2, WithdrawnRaw DEF Withdraw, TicketInv, Platforms
    <3> QED
      BY <2>2, <3>1 DEF Withdraw, Write, ticket
  <2>3. CASE SaveTicket(r)
    <3>1. RowAfterSave(r) \in SUBSET Stamp
      BY DEF RowAfterSave
    <3>2. TicketType' /\ UNCHANGED <<heard, instance>>
      BY <2>3, <3>1 DEF SaveTicket, Write
    <3> QED
      BY <2>3, <3>2 DEF SaveTicket
  <2>4. CASE RecordAction(r)
    <3>1. comments' \in SUBSET ({"submit", "comment"} \cup Decision)
      BY <2>4 DEF RecordAction, Write
    <3> QED
      BY <2>4, <3>1 DEF RecordAction, ticket, Write
  <2>5. CASE AddComment(r) \/ NotApplicant(r)
    <3>1. CASE AddComment(r)
      BY <3>1 DEF AddComment, ticket
    <3>2. CASE NotApplicant(r)
      BY <3>2 DEF NotApplicant, Decision, ticket
    <3> QED
      BY <2>5, <3>1, <3>2
  <2>6. ASSUME NEW p \in ThirdParty, NEW raw \in Raw, ReceiveCallback(r, p, raw)
        PROVE  TypeOK'
    BY <2>6, MapStatusType DEF ReceiveCallback, ticket
  <2> QED
    BY <1>5, <2>1, <2>2, <2>3, <2>4, <2>5, <2>6 DEF Handle
<1> QED
  BY <1>1, <1>2, <1>3, <1>4, <1>5 DEF Next, Create

-----------------------------------------------------------------------------
(* The row and the instance.                                                *)

\* A cancellation that reaches DingTalk or WeChat leaves no running instance.
LEMMA WithdrawnEnds ==
  ASSUME NEW p \in {"dingtalk", "wechat"}
  PROVE  /\ Withdrawn[p] # {} /\ Started[p] \notin Withdrawn[p]
         /\ Started[p] \notin Finals[p]
<1>1. CASE p = "dingtalk"
  BY <1>1 DEF Withdrawn, Started, CancelDingTalk, DingTalkInstance, Finals
<1>2. CASE p = "wechat"
  BY <1>2 DEF Withdrawn, Started, CancelWeChat, WeChatInstance, Finals
<1> QED
  BY <1>1, <1>2

LEMMA TicketStep ==
  TypeOK /\ TicketInv /\ RequestInv /\ [Next]_vars => TicketInv'
<1> SUFFICES ASSUME TypeOK, TicketInv, RequestInv, [Next]_vars
             PROVE  TicketInv'
  OBVIOUS
<1> USE ApprovalAssumption
    DEF TypeOK, TicketType, RequestType, TicketInv, OneDecisionInRow,
        DecisionStamped, CancelWithdraws
<1>1. CASE UNCHANGED vars
  BY <1>1 DEF vars
<1>2. CASE CreateInternal \/ CreateRow \/ CreateRefused
  <2>1. /\ UNCHANGED <<platform, stamps, op, step, copy, target, instance>>
        /\ creator' = "end" /\ faults' >= faults
        /\ status' = status \/ (status' = "pending" /\ status = "none")
    BY <1>2 DEF CreateInternal, CreateRow, CreateRefused, request, Write
  <2> QED
    BY <2>1 DEF Stamp
<1>3. ASSUME NEW p \in ThirdParty, CreateInstance(p)
      PROVE  TicketInv'
  <2>1. /\ UNCHANGED <<status, stamps, op, step, copy, target>>
        /\ status = "none" /\ \A r \in Requests : step[r] \in {"new", "refused"}
    BY <1>3 DEF CreateInstance, request
  <2> QED
    BY <2>1 DEF Stamp
<1>4. ASSUME NEW raw \in Raw, InstanceMoves(raw)
      PROVE  TicketInv'
  <2>1. platform \in {"dingtalk", "wechat"} => raw # Started[platform]
    BY <1>4, WithdrawnEnds DEF InstanceMoves
  <2> QED
    BY <1>4, <2>1 DEF InstanceMoves, ticket, request
<1>5. ASSUME NEW r \in Requests, Handle(r)
      PROVE  TicketInv'
  <2>1. ASSUME NEW d \in Decision, ReadTicket(r, d)
        PROVE  TicketInv'
    <3>1. /\ UNCHANGED <<platform, creator, status, stamps, instance, faults>>
          /\ op'[r] = d /\ copy'[r] = stamps
          /\ step'[r] = IF status = "pending" THEN AfterRead(d) ELSE "refused"
          /\ \A q \in Requests : q # r =>
               step'[q] = step[q] /\ copy'[q] = copy[q] /\ op'[q] = op[q]
          /\ step[r] = "new" /\ status # "none"
      BY <2>1 DEF ReadTicket, MayDecide, ticket
    <3>3. /\ AfterRead(d) = "withdraw" => d = "cancel" /\ platform # "internal"
          /\ d = "cancel" /\ platform # "internal" => AfterRead(d) = "withdraw"
          /\ AfterRead(d) \in {"withdraw", "save"}
      BY DEF AfterRead
    <3>4. d # "callback"
      BY DEF Decision
    <3>5. (\A q \in Requests : op'[q] # "callback") =>
            \A q \in Requests : op[q] # "callback"
      BY <3>1
    <3>6. OneDecisionInRow' /\ DecisionStamped' /\ CancelWithdraws'
      BY <3>1, <3>3, <3>5
    <3> QED
      BY <3>1, <3>3, <3>4, <3>5, <3>6 DEF Stamp
  <2>2. CASE Withdraw(r)
    <3>1. /\ UNCHANGED <<platform, creator, status, stamps, op, copy>>
          /\ step[r] = "withdraw" /\ step' = [step EXCEPT ![r] = "save"]
          /\ faults' >= faults
      BY <2>2 DEF Withdraw, Write, ticket
    <3>2. platform \in {"dingtalk", "wechat"} /\ faults' = 0 =>
            instance' # Started[platform]
      BY <2>2, WithdrawnEnds DEF Withdraw, Write
    <3> QED
      BY <3>1, <3>2
  <2>3. CASE SaveTicket(r)
    <3>1. /\ UNCHANGED <<platform, creator, op, copy, target, instance>>
          /\ step[r] = "save" /\ step'[r] \in {"record", "end", "refused"}
          /\ \A q \in Requests : q # r => step'[q] = step[q]
          /\ faults' >= faults
          /\ \/ /\ status' = target[r]
                /\ stamps' = copy[r] \cup ({target[r]} \cap Stamp)
             \/ UNCHANGED <<status, stamps>>
      BY <2>3 DEF SaveTicket, RowAfterSave, Write
    <3>2. status # "none" /\ status' # "none" /\ creator = "end"
      BY <3>1 DEF Status, Decided
    <3>3. OneDecisionInRow' /\ DecisionStamped'
      BY <3>1
    <3>4. CancelWithdraws'
      BY <3>1
    <3> QED
      BY <3>1, <3>2, <3>3, <3>4
  <2>4. CASE RecordAction(r)
    BY <2>4 DEF RecordAction, Write, ticket
  <2>5. CASE AddComment(r) \/ NotApplicant(r)
    <3>1. /\ UNCHANGED <<platform, creator, status, stamps, copy, instance, faults>>
          /\ status # "none" /\ step[r] = "new"
          /\ op'[r] \in {"comment", "cancel"} /\ step'[r] \in {"record", "refused"}
          /\ op'[r] = "cancel" => step'[r] = "refused"
          /\ \A q \in Requests : q # r => step'[q] = step[q] /\ op'[q] = op[q]
      BY <2>5 DEF AddComment, NotApplicant, ticket
    <3>2. (\A q \in Requests : op'[q] # "callback") =>
            \A q \in Requests : op[q] # "callback"
      BY <3>1
    <3> QED
      BY <3>1, <3>2
  <2>6. ASSUME NEW p \in ThirdParty, NEW raw \in Raw, ReceiveCallback(r, p, raw)
        PROVE  TicketInv'
    <3>1. /\ UNCHANGED <<platform, creator, status, stamps, instance, faults>>
          /\ op'[r] = "callback"
          /\ step'[r] = IF status = "none" THEN "refused" ELSE "save"
          /\ \A q \in Requests : q # r => step'[q] = step[q] /\ op'[q] = op[q]
      BY <2>6 DEF ReceiveCallback, ticket
    <3> QED
      BY <3>1
  <2> QED
    BY <1>5, <2>1, <2>2, <2>3, <2>4, <2>5, <2>6 DEF Handle
<1> QED
  BY <1>1, <1>2, <1>3, <1>4, <1>5 DEF Next, Create

-----------------------------------------------------------------------------
(* Where approvals come from.                                               *)

LEMMA RequestStep == TypeOK /\ TicketInv /\ RequestInv /\ [Next]_vars => RequestInv'
<1> SUFFICES ASSUME TypeOK, TicketInv, RequestInv, [Next]_vars
             PROVE  RequestInv'
  OBVIOUS
<1> USE ApprovalAssumption
    DEF TypeOK, RequestType, RequestInv, ApprovedOnRequest, CallbackWrote
<1>1. CASE UNCHANGED vars \/ Create \/ \E raw \in Raw : InstanceMoves(raw)
  <2>1. /\ UNCHANGED <<op, step, target, heard>>
        /\ status' \in {status, "pending"}
    BY <1>1 DEF vars, Create, CreateInternal, CreateRow, CreateRefused,
                CreateInstance, InstanceMoves, request, ticket
  <2> QED
    BY <2>1
<1>2. ASSUME NEW r \in Requests, Handle(r)
      PROVE  RequestInv'
  <2>1. ASSUME NEW d \in Decision, ReadTicket(r, d)
        PROVE  RequestInv'
    BY <2>1 DEF ReadTicket, ticket
  <2>2. CASE Withdraw(r)
    <3>1. /\ UNCHANGED <<status, op, target, heard>>
          /\ step' = [step EXCEPT ![r] = "save"] /\ step[r] = "withdraw"
      BY <2>2 DEF Withdraw, ticket
    <3> QED
      BY <3>1
  <2>3. CASE SaveTicket(r)
    <3>1. /\ UNCHANGED <<op, target, heard>>
          /\ step[r] = "save" /\ step'[r] \in {"record", "end", "refused"}
          /\ \A q \in Requests : q # r => step'[q] = step[q]
          /\ \/ status' = status
             \/ /\ status' = target[r]
                /\ step'[r] = IF op[r] \in Decision THEN "record" ELSE "end"
      BY <2>3 DEF SaveTicket
    <3>2. status' = "approved" /\ status' # status =>
            \/ op[r] = "approve" /\ step'[r] = "record"
            \/ op[r] = "callback" /\ r \in heard /\ step'[r] = "end"
      BY <3>1 DEF Decision, Outcome
    <3> QED
      BY <3>1, <3>2
  <2>4. CASE RecordAction(r)
    BY <2>4 DEF RecordAction, ticket
  <2>5. CASE AddComment(r) \/ NotApplicant(r)
    BY <2>5 DEF AddComment, NotApplicant, ticket
  <2>6. ASSUME NEW p \in ThirdParty, NEW raw \in Raw, ReceiveCallback(r, p, raw)
        PROVE  RequestInv'
    <3>1. MapStatus(p, raw) = "approved" => r \in heard'
      BY <2>6, MapStatusApproves DEF ReceiveCallback
    <3>2. /\ heard \subseteq heard' /\ step[r] = "new" /\ step'[r] # "end"
          /\ op'[r] = "callback" /\ target'[r] = MapStatus(p, raw)
          /\ \A q \in Requests : q # r =>
               step'[q] = step[q] /\ op'[q] = op[q] /\ target'[q] = target[q]
          /\ status' = status
      BY <2>6 DEF ReceiveCallback, ticket
    <3> QED
      BY <3>1, <3>2
  <2> QED
    BY <1>2, <2>1, <2>2, <2>3, <2>4, <2>5, <2>6 DEF Handle
<1> QED
  BY <1>1, <1>2 DEF Next

-----------------------------------------------------------------------------
(* The history of a ticket.                                                 *)

\* A status is the outcome of one action only.
LEMMA OutcomeTells ==
  ASSUME NEW d \in Decision, NEW e \in Decision, Outcome[d] = Outcome[e]
  PROVE  d = e
  BY DEF Decision, Outcome

LEMMA HistoryStep ==
  TypeOK /\ TicketInv /\ RequestInv /\ HistoryInv /\ [Next]_vars => HistoryInv'
<1> SUFFICES ASSUME TypeOK, TicketInv, RequestInv, HistoryInv, [Next]_vars,
                    faults' = 0
             PROVE  HistoryInv'
  BY DEF HistoryInv
<1> USE ApprovalAssumption
    DEF TypeOK, TicketType, RequestType, HistoryInv, CallbackWrote
<1>1. faults = 0
  <2>1. \A f \in 0 .. 2 : Write(f) => faults = 0
    BY DEF Write
  <2>2. CASE UNCHANGED faults
    BY <2>2
  <2>3. CASE Create \/ UNCHANGED vars \/ \E raw \in Raw : InstanceMoves(raw)
    BY <2>1, <2>2, <2>3 DEF vars, Create, CreateInternal, CreateRow, CreateRefused,
                            CreateInstance, InstanceMoves
  <2>4. ASSUME NEW r \in Requests, Handle(r)
        PROVE  faults = 0
    <3>1. CASE Withdraw(r) \/ SaveTicket(r) \/ RecordAction(r)
      BY <2>1, <3>1 DEF Withdraw, SaveTicket, RecordAction
    <3> QED
      BY <2>2, <2>4, <3>1
      DEF Handle, ReadTicket, NotApplicant, AddComment, ReceiveCallback
  <2> QED
    BY <2>3, <2>4 DEF Next
<1>2. CASE UNCHANGED vars
  BY <1>1, <1>2 DEF vars
<1>3. CASE Create \/ \E raw \in Raw : InstanceMoves(raw)
  <2>1. /\ UNCHANGED <<op, step, target>> /\ comments \subseteq comments'
        /\ status' \in {status, "pending"}
    BY <1>3 DEF Create, CreateInternal, CreateRow, CreateRefused,
                CreateInstance, InstanceMoves, request, ticket
  <2>2. \A d \in Decision : Outcome[d] # "pending"
    BY OutcomeDecided DEF Decided
  <2> QED
    BY <1>1, <2>1, <2>2
<1>4. ASSUME NEW r \in Requests, Handle(r)
      PROVE  HistoryInv'
  <2>1. ASSUME NEW d \in Decision, ReadTicket(r, d)
        PROVE  HistoryInv'
    <3>1. AfterRead(d) \in {"withdraw", "save"}
      BY DEF AfterRead
    <3> QED
      BY <1>1, <2>1, <3>1 DEF ReadTicket, ticket
  <2>2. CASE Withdraw(r)
    BY <1>1, <2>2 DEF Withdraw, ticket
  <2>3. CASE SaveTicket(r)
    <3>1. /\ UNCHANGED <<op, comments, target>>
          /\ step[r] = "save" /\ status' = target[r]
          /\ step'[r] = IF op[r] \in Decision THEN "record" ELSE "end"
          /\ \A q \in Requests : q # r => step'[q] = step[q]
      BY <1>1, <2>3 DEF SaveTicket, Write
    <3>2. CASE op[r] \in Decision
      <4>1. target[r] = Outcome[op[r]]
        BY <3>1, <3>2 DEF RequestInv, Decision
      <4> QED
        BY <1>1, <3>1, <3>2, <4>1, OutcomeTells
    <3>3. CASE op[r] = "callback"
      BY <3>1, <3>3 DEF Decision
    <3> QED
      BY <3>1, <3>2, <3>3 DEF RequestInv
  <2>4. CASE RecordAction(r)
    <3>1. /\ UNCHANGED <<status, op, target>> /\ comments' = comments \cup {op[r]}
          /\ step' = [step EXCEPT ![r] = "end"] /\ step[r] = "record"
      BY <1>1, <2>4 DEF RecordAction, Write, ticket
    <3> QED
      BY <1>1, <3>1
  <2>5. CASE AddComment(r) \/ NotApplicant(r)
    BY <1>1, <2>5 DEF AddComment, NotApplicant, ticket
  <2>6. ASSUME NEW p \in ThirdParty, NEW raw \in Raw, ReceiveCallback(r, p, raw)
        PROVE  HistoryInv'
    BY <1>1, <2>6 DEF ReceiveCallback, ticket
  <2> QED
    BY <1>4, <2>1, <2>2, <2>3, <2>4, <2>5, <2>6 DEF Handle
<1> QED
  BY <1>2, <1>3, <1>4 DEF Next

-----------------------------------------------------------------------------
(* Theorems about tickets.                                                  *)

ApprovalInv == TypeOK /\ TicketInv /\ RequestInv /\ HistoryInv

LEMMA ApprovalStart == Init => ApprovalInv
<1>1. Init => TypeOK
  BY ApprovalAssumption
  DEF Init, TypeOK, TicketType, RequestType, Platforms, Status, Stamp
<1>2. Init => TicketInv
  BY DEF Init, TicketInv, OneDecisionInRow, DecisionStamped, CancelWithdraws, Stamp
<1>3. Init => RequestInv
  BY DEF Init, RequestInv, ApprovedOnRequest
<1>4. Init => HistoryInv
  BY OutcomeDecided DEF Init, HistoryInv, Decided
<1> QED
  BY <1>1, <1>2, <1>3, <1>4 DEF ApprovalInv

LEMMA ApprovalStep == ApprovalInv /\ [Next]_vars => ApprovalInv'
  BY TypeStep, TicketStep, RequestStep, HistoryStep DEF ApprovalInv

\* The inductive invariant holds for any number of requests, any registered
\* platforms and any number of failures.
THEOREM ApprovalInvHolds == Spec => []ApprovalInv
  BY ApprovalStart, ApprovalStep, PTL DEF Spec

\* A well-typed ticket (a callback never leaves a platform's own status in the
\* row) whose row holds the time of its decision and, without callbacks, of no
\* other one; and no running instance behind a cancelled ticket, Feishu apart.
THEOREM TicketSoundHolds == Spec => []TicketSound
<1>1. ApprovalInv => TicketSound
  BY DEF ApprovalInv, TicketInv, TicketSound
<1> QED
  BY <1>1, ApprovalInvHolds, PTL

\* An approval was asked for here or said by an event in its platform's words,
\* and the history, or a callback, explains the status.
THEOREM DecisionsExplainedHolds == Spec => []DecisionsExplained
<1>1. RequestInv => ApprovedOnRequest
  BY DEF RequestInv
<1>2. HistoryInv => HistoryExplainsStatus
  BY DEF HistoryInv, HistoryExplainsStatus
<1>3. ApprovalInv => DecisionsExplained
  BY <1>1, <1>2 DEF ApprovalInv, DecisionsExplained
<1> QED
  BY <1>3, ApprovalInvHolds, PTL

LEMMA FinalStep ==
  ASSUME ApprovalInv, [Next]_vars, ~CallbackWrites
  PROVE  /\ status \in Decided => status' \in Decided
         /\ Settled => Settled' /\ status' = status
<1> USE DEF ApprovalInv, TypeOK, TicketType, RequestType
<1>1. CASE UNCHANGED vars
  BY <1>1 DEF vars, Settled
<1>2. CASE Create \/ \E raw \in Raw : InstanceMoves(raw)
  <2>1. /\ UNCHANGED <<op, step>>
        /\ status' = status \/ (creator # "end" /\ status' = "pending")
    BY <1>2 DEF Create, CreateInternal, CreateRow, CreateRefused,
                CreateInstance, InstanceMoves, request, ticket
  <2> QED
    BY <2>1 DEF TicketInv, Settled, Decided
<1>3. ASSUME NEW r \in Requests, Handle(r)
      PROVE  /\ status \in Decided => status' \in Decided
             /\ Settled => Settled' /\ status' = status
  <2>1. ASSUME NEW d \in Decision, ReadTicket(r, d)
        PROVE  /\ status' = status
               /\ Settled => Settled'
    BY <2>1 DEF ReadTicket, MayDecide, Settled, Decided, ticket
  <2>2. CASE Withdraw(r)
    BY <2>2 DEF Withdraw, Settled, TicketInv, ticket
  <2>3. CASE SaveTicket(r)
    <3>1. /\ op' = op /\ step[r] = "save"
          /\ \A q \in Requests : q # r => step'[q] = step[q]
          /\ step'[r] \in {"record", "end", "refused"}
          /\ \/ status' = status
             \/ /\ status' = target[r]
                /\ step'[r] = IF op[r] \in Decision THEN "record" ELSE "end"
      BY <2>3 DEF SaveTicket
    <3>2. op[r] = "callback" => status' = status
      BY <3>1 DEF CallbackWrites, Decision
    <3>3. op[r] # "callback" => target[r] \in Decided
      BY <3>1, OutcomeDecided DEF RequestInv
    <3> QED
      BY <3>1, <3>2, <3>3 DEF Settled
  <2>4. CASE RecordAction(r)
    BY <2>4 DEF RecordAction, Settled, ticket
  <2>5. CASE AddComment(r) \/ NotApplicant(r)
    BY <2>5 DEF AddComment, NotApplicant, Settled, ticket
  <2>6. ASSUME NEW p \in ThirdParty, NEW raw \in Raw, ReceiveCallback(r, p, raw)
        PROVE  status' = status /\ (Settled => Settled')
    BY <2>6 DEF ReceiveCallback, Settled, ticket
  <2> QED
    BY <1>3, <2>1, <2>2, <2>3, <2>4, <2>5, <2>6 DEF Handle
<1> QED
  BY <1>1, <1>2, <1>3 DEF Next

\* Only a callback reopens a decided ticket, and only a callback changes one on
\* which no earlier deciding request is still to write.
THEOREM DecisionFinalHolds == Spec => DecisionFinal
<1>1. ApprovalInv /\ [Next]_vars =>
        [CallbackWrites \/ /\ status \in Decided => status' \in Decided
                           /\ Settled => Settled' /\ status' = status]_vars
  BY FinalStep
<1> QED
  BY <1>1, ApprovalInvHolds, PTL DEF Spec, DecisionFinal

-----------------------------------------------------------------------------
(* The tables of the sessions, for any number of workers that report, count,  *)
(* terminate and show them: the module SessionRecords.                        *)

-----------------------------------------------------------------------------
(* The inductive invariant.                                                 *)

Items(q) == {q[i] : i \in DOMAIN q}

\* The sessions that the items of q are about.
Named(q) == {x.s : x \in Items(q)}

Reporting(w) == task[w].op \in {"report", "sync"}

\* A report or a batch: every recording still to be inserted has its login further
\* down; a session that an item calls closed is over; and a live report is about
\* one session.
ReportInv(w) ==
  Reporting(w) =>
    /\ task[w].at \in {"find", "insert"}
    /\ task[w].recs \in Seq(Report) /\ task[w].logins # <<>>
    /\ \A x \in Items(task[w].recs) : x.status = "closed" => run[x.s] = "ended"
    /\ Named(task[w].recs) \subseteq Named(task[w].logins)
    /\ task[w].op = "report" => Len(task[w].recs) <= 1

\* Any other request has no login to insert, and only a termination has a subject.
OtherInv(w) ==
  ~Reporting(w) =>
    /\ task[w].at \notin {"find", "insert"} /\ task[w].logins = <<>>
    /\ task[w].op # "terminate" => task[w].recs = <<>>

\* A termination is about a recording that is there; past the proxy's answer the
\* proxy's session is over.
TerminateInv(w) ==
  task[w].op = "terminate" =>
    /\ Len(task[w].recs) = 1
    /\ rec[Subject(w)].status # "none"
    /\ task[w].at = "proxy" => Subject(w) \in ProxySessions
    /\ Subject(w) \in ProxySessions => task[w].at = "proxy" \/ run[Subject(w)] = "ended"

\* What a replay page read of the counters, the rows have.
ViewInv(w) ==
  task[w].op = "view" => \A s \in Sessions : task[w].cmds[s] <= rows[s]

WorkerInv(w) == ReportInv(w) /\ OtherInv(w) /\ TerminateInv(w) /\ ViewInv(w)

\* A worker that is sure to look at the login of s: only a live report gives up
\* before, when it loses the race for the recording or the database fails it.
Sure(w, s) ==
  /\ s \in Named(task[w].logins)
  /\ ~(task[w].op = "report" /\ task[w].recs # <<>>)

\* A recording without a login record has a worker that is sure to insert it, unless
\* the database has refused one.
LoginInv ==
  \A s \in ProxySessions :
    rec[s].status # "none" /\ login[s] = "none" =>
      <<s, "missing">> \in stranded \/ \E w \in Workers : Sure(w, s)

\* A row that is not there holds nothing.
NoRowInv ==
  \A s \in Sessions : rec[s].status = "none" => rec[s].text = FALSE /\ rec[s].count = 0

\* Only the server's own sessions take time to end; they have no recording before
\* they run.
RunInv ==
  /\ \A s \in ProxySessions : run[s] # "ending"
  /\ \A s \in ServerSessions :
       run[s] \in {"idle", "dialling", "starting"} => rec[s].status = "none"

TablesInv == LoginInv /\ NoRowInv /\ RunInv /\ ClosedIsOver /\ LoginFollows

RecordsInv == RecordsTypeOK /\ (\A w \in Workers : WorkerInv(w)) /\ TablesInv

-----------------------------------------------------------------------------
(* Sequences and tasks.                                                     *)

\* What is left of a sequence behind its head.
LEMMA TailSound ==
  ASSUME NEW S, NEW q \in Seq(S), q # <<>>
  PROVE  /\ Len(q) \in Nat \ {0} /\ Head(q) = q[1] /\ Head(q) \in S
         /\ Tail(q) \in Seq(S) /\ Len(Tail(q)) = Len(q) - 1
         /\ Items(q) = {Head(q)} \cup Items(Tail(q))
         /\ Named(q) = {Head(q).s} \cup Named(Tail(q))
<1>1. /\ Len(q) \in Nat \ {0} /\ Head(q) = q[1] /\ Head(q) \in S
      /\ Tail(q) \in Seq(S) /\ Len(Tail(q)) = Len(q) - 1
      /\ DOMAIN q = 1 .. Len(q) /\ DOMAIN Tail(q) = 1 .. Len(q) - 1
      /\ \A i \in 1 .. Len(q) - 1 : Tail(q)[i] = q[i + 1]
  OBVIOUS
<1>2. Items(q) = {Head(q)} \cup Items(Tail(q))
  <2>1. ASSUME NEW i \in DOMAIN q PROVE q[i] \in {Head(q)} \cup Items(Tail(q))
    <3>1. CASE i = 1
      BY <1>1, <3>1
    <3>2. CASE i # 1
      <4>1. i - 1 \in DOMAIN Tail(q) /\ Tail(q)[i - 1] = q[i]
        BY <1>1, <3>2
      <4>2. QED
        BY <4>1 DEF Items
    <3>3. QED
      BY <3>1, <3>2
  <2>2. ASSUME NEW i \in DOMAIN Tail(q) PROVE Tail(q)[i] \in Items(q)
    <3>1. i + 1 \in DOMAIN q /\ Tail(q)[i] = q[i + 1]
      BY <1>1
    <3>2. QED
      BY <3>1 DEF Items
  <2>3. Head(q) \in Items(q)
    <3>1. 1 \in DOMAIN q
      BY <1>1
    <3>2. QED
      BY <1>1, <3>1 DEF Items
  <2>4. QED
    BY <2>1, <2>2, <2>3 DEF Items
<1>3. Named(q) = {Head(q).s} \cup Named(Tail(q))
  BY <1>2 DEF Named
<1>4. QED
  BY <1>1, <1>2, <1>3

\* The items of a sequence over S are in S.
LEMMA ItemsSound ==
  ASSUME NEW S, NEW q \in Seq(S)
  PROVE  Items(q) \subseteq S
BY DEF Items

LEMMA EmptySound ==
  /\ Items(<<>>) = {} /\ Named(<<>>) = {} /\ \A S : <<>> \in Seq(S)
  /\ Len(<<>>) = 0
<1>1. Items(<<>>) = {}
  BY DEF Items
<1>2. QED
  BY <1>1 DEF Named

LEMMA EmptyLen ==
  ASSUME NEW S, NEW q \in Seq(S)
  PROVE  q = <<>> <=> Len(q) = 0
OBVIOUS

\* A sequence with one item.
LEMMA OneSound ==
  ASSUME NEW S, NEW x \in S
  PROVE  /\ <<x>> \in Seq(S) /\ Len(<<x>>) = 1 /\ <<x>>[1] = x /\ <<x>> # <<>>
         /\ Items(<<x>>) = {x} /\ Named(<<x>>) = {x.s}
<1>1. /\ <<x>> \in Seq(S) /\ Len(<<x>>) = 1 /\ <<x>>[1] = x /\ DOMAIN <<x>> = {1}
  OBVIOUS
<1>2. Items(<<x>>) = {x}
  BY <1>1 DEF Items
<1>3. QED
  BY <1>1, <1>2 DEF Named

LEMMA IdleSound ==
  /\ Idle \in Task /\ Idle.op = "idle" /\ Idle.at = "start"
  /\ Idle.recs = <<>> /\ Idle.logins = <<>> /\ Idle.cmds = NoCommands
  /\ Idle.shown = NoCommands
  /\ NoCommands \in [Sessions -> Nat]
<1>1. NoCommands \in [Sessions -> Nat]
  BY DEF NoCommands
<1>2. QED
  BY <1>1 DEF Idle, Task

\* A report tells its session and whether it is over.
LEMMA ReportSound ==
  ASSUME NEW x \in Report
  PROVE  x.s \in ProxySessions /\ x.s \in Sessions /\ x.status \in {"active", "closed"}
BY DEF Report, Item, Sessions

\* Worker w goes on with t.
LEMMA TaskStep ==
  ASSUME RecordsTypeOK, NEW w \in Workers, NEW t \in Task, task' = [task EXCEPT ![w] = t]
  PROVE  /\ task' \in [Workers -> Task] /\ task'[w] = t
         /\ \A v \in Workers : v # w => task'[v] = task[v]
BY DEF RecordsTypeOK

-----------------------------------------------------------------------------
(* What a step leaves alone.                                                *)

\* The tables only gain: recordings and rows stay, and what is over is over.
Gains ==
  /\ \A s \in Sessions : rec[s].status # "none" => rec'[s].status # "none"
  /\ \A s \in ProxySessions : run[s] = "ended" => run'[s] = "ended"
  /\ \A s \in Sessions : rows[s] <= rows'[s]

LEMMA WorkerKeeps ==
  ASSUME RecordsTypeOK, rows' \in [Sessions -> Nat], Gains, NEW w \in Workers, WorkerInv(w),
         task'[w] = task[w]
  PROVE  WorkerInv(w)'
<1>1. task[w] \in Task
  BY DEF RecordsTypeOK
<1>2. ReportInv(w)'
  <2>1. SUFFICES ASSUME Reporting(w) PROVE ReportInv(w)'
    BY DEF ReportInv, Reporting
  <2>2. Items(task[w].recs) \subseteq Report /\ Items(task[w].logins) \subseteq Report
    BY <1>1, <2>1, ItemsSound DEF WorkerInv, ReportInv, Task
  <2>3. ASSUME NEW x \in Items(task[w].recs), x.status = "closed" PROVE run'[x.s] = "ended"
    BY <2>1, <2>2, <2>3, ReportSound DEF WorkerInv, ReportInv, Gains
  <2>4. QED
    BY <2>1, <2>3 DEF WorkerInv, ReportInv, Reporting
<1>3. OtherInv(w)'
  BY DEF WorkerInv, OtherInv, Reporting
<1>4. TerminateInv(w)'
  <2>1. SUFFICES ASSUME task[w].op = "terminate" PROVE TerminateInv(w)'
    BY DEF TerminateInv
  <2>2. Subject(w) \in Sessions
    BY <1>1, <2>1, ReportSound DEF WorkerInv, TerminateInv, Subject, Task
  <2>3. QED
    BY <2>1, <2>2 DEF WorkerInv, TerminateInv, Gains, Subject
<1>5. ViewInv(w)'
  <2>1. SUFFICES ASSUME task[w].op = "view", NEW s \in Sessions
                 PROVE  task[w].cmds[s] <= rows'[s]
    BY DEF ViewInv
  <2>2. task[w].cmds[s] \in Nat /\ rows[s] \in Nat /\ rows'[s] \in Nat
    BY <1>1 DEF Task, RecordsTypeOK
  <2>3. QED
    BY <2>1, <2>2 DEF WorkerInv, ViewInv, Gains
<1>6. QED
  BY <1>2, <1>3, <1>4, <1>5 DEF WorkerInv

\* The tables agree after a step that changes neither a status nor a login and takes
\* no worker off a login it was sure to look at, or was about to close.
LEMMA TablesKeep ==
  ASSUME RecordsTypeOK, TablesInv, NoRowInv', stranded' = stranded, login' = login,
         \A s \in Sessions : rec'[s].status = rec[s].status,
         \A s \in ServerSessions : run'[s] = run[s],
         \A s \in ProxySessions :
           run'[s] # "ending" /\ (run[s] = "ended" => run'[s] = "ended"),
         \A w \in Workers, s \in ProxySessions :
           Sure(w, s) /\ login[s] = "none" /\ rec[s].status # "none" => Sure(w, s)',
         \A w \in Workers : At(w, "terminate", "login") => task'[w] = task[w]
  PROVE  TablesInv'
<1>1. LoginInv'
  <2>1. ASSUME NEW s \in ProxySessions, rec'[s].status # "none", login'[s] = "none"
        PROVE  <<s, "missing">> \in stranded' \/ \E w \in Workers : Sure(w, s)'
    <3>1. rec'[s].status = rec[s].status
      BY DEF Sessions
    <3>2. QED
      BY <2>1, <3>1 DEF TablesInv, LoginInv
  <2>2. QED
    BY <2>1 DEF LoginInv
<1>2. RunInv'
  BY DEF TablesInv, RunInv, Sessions
<1>3. ClosedIsOver'
  BY DEF TablesInv, ClosedIsOver, Sessions
<1>4. LoginFollows'
  <2>1. ASSUME NEW s \in Sessions, rec'[s].status = "closed", login'[s] \in OpenLogin
        PROVE  \/ <<s, "open">> \in stranded' \/ run'[s] = "ending"
               \/ \E w \in Workers : (At(w, "terminate", "login") /\ Subject(w) = s)'
    <3>1. \/ <<s, "open">> \in stranded \/ run[s] = "ending"
          \/ \E w \in Workers : At(w, "terminate", "login") /\ Subject(w) = s
      BY <2>1 DEF TablesInv, LoginFollows
    <3>2. CASE run[s] = "ending"
      BY <3>2 DEF TablesInv, RunInv, Sessions
    <3>3. ASSUME NEW w \in Workers, At(w, "terminate", "login"), Subject(w) = s
          PROVE  (At(w, "terminate", "login") /\ Subject(w) = s)'
      BY <3>3 DEF At, Subject
    <3>4. QED
      BY <3>1, <3>2, <3>3
  <2>2. QED
    BY <2>1 DEF LoginFollows
<1>5. QED
  BY <1>1, <1>2, <1>3, <1>4 DEF TablesInv
\* A step of worker w alone.
LEMMA WorkerStep ==
  ASSUME RecordsInv, RecordsTypeOK', Gains, NEW w \in Workers,
         \A v \in Workers : v # w => task'[v] = task[v],
         WorkerInv(w)', TablesInv'
  PROVE  RecordsInv'
<1>1. ASSUME NEW v \in Workers PROVE WorkerInv(v)'
  <2>1. CASE v = w
    BY <2>1
  <2>2. CASE v # w
    <3>1. RecordsTypeOK /\ WorkerInv(v) /\ rows' \in [Sessions -> Nat] /\ task'[v] = task[v]
      BY <2>2 DEF RecordsInv, RecordsTypeOK
    <3>2. QED
      BY <3>1, WorkerKeeps
  <2>3. QED
    BY <2>1, <2>2
<1>2. QED
  BY <1>1 DEF RecordsInv

\* A worker without a task.
LEMMA IdleWorker ==
  ASSUME NEW w \in Workers, task'[w] = Idle
  PROVE  WorkerInv(w)'
BY IdleSound DEF WorkerInv, ReportInv, OtherInv, TerminateInv, ViewInv, Reporting

\* w goes on with t, and the tables stay.
LEMMA QuietStep ==
  ASSUME RecordsInv, NEW w \in Workers, NEW t \in Task, task' = [task EXCEPT ![w] = t],
         Len(t.recs) <= MaxBatch, Len(t.logins) <= MaxBatch,
         UNCHANGED <<run, login, stranded>>,
         rows' \in [Sessions -> Nat], \A s \in Sessions : rows[s] <= rows'[s],
         rec' \in [Sessions -> Recording], NoRowInv',
         \A s \in Sessions : rec'[s].status = rec[s].status,
         WorkerInv(w)', ~At(w, "terminate", "login"),
         \A s \in ProxySessions :
           Sure(w, s) /\ login[s] = "none" /\ rec[s].status # "none" => Sure(w, s)'
  PROVE  RecordsInv'
<1>1. RecordsTypeOK /\ TablesInv
  BY DEF RecordsInv
<1>2. /\ task' \in [Workers -> Task] /\ task'[w] = t
      /\ \A v \in Workers : v # w => task'[v] = task[v]
  BY <1>1, TaskStep
<1>3. RecordsTypeOK'
  BY <1>1, <1>2 DEF RecordsTypeOK
<1>4. Gains
  BY DEF Gains
<1>5. ASSUME NEW v \in Workers, NEW s \in ProxySessions, Sure(v, s),
             login[s] = "none", rec[s].status # "none"
      PROVE  Sure(v, s)'
  <2>1. CASE v = w
    BY <1>5, <2>1
  <2>2. CASE v # w
    BY <1>2, <1>5, <2>2 DEF Sure
  <2>3. QED
    BY <2>1, <2>2
<1>6. ASSUME NEW v \in Workers, At(v, "terminate", "login") PROVE task'[v] = task[v]
  BY <1>2, <1>6
<1>7. TablesInv'
  <2>1. \A s \in ProxySessions :
          run'[s] # "ending" /\ (run[s] = "ended" => run'[s] = "ended")
    BY <1>1 DEF TablesInv, RunInv
  <2>2. \A s \in ServerSessions : run'[s] = run[s]
    OBVIOUS
  <2>3. QED
    BY <1>1, <1>5, <1>6, <2>1, <2>2, TablesKeep
<1>8. QED
  BY <1>2, <1>3, <1>4, <1>7, WorkerStep

-----------------------------------------------------------------------------
(* Requests are taken up.                                                   *)

LEMMA TakeKeeps ==
  ASSUME RecordsInv, NEW w \in Workers, NEW t \in Task, Take(w, t),
         Len(t.recs) <= MaxBatch, Len(t.logins) <= MaxBatch,
         UNCHANGED <<run, db, stranded>>, WorkerInv(w)'
  PROVE  RecordsInv'
<1>1. /\ task[w] = Idle /\ task' = [task EXCEPT ![w] = t]
      /\ rec' = rec /\ login' = login /\ rows' = rows /\ run' = run /\ stranded' = stranded
  BY DEF Take, db
<1>2. /\ rows' \in [Sessions -> Nat] /\ \A s \in Sessions : rows[s] <= rows'[s]
  BY <1>1 DEF RecordsInv, RecordsTypeOK
<1>3. rec' \in [Sessions -> Recording] /\ NoRowInv'
  BY <1>1 DEF RecordsInv, RecordsTypeOK, TablesInv, NoRowInv
<1>4. ~At(w, "terminate", "login") /\ \A s : ~Sure(w, s)
  BY <1>1, IdleSound, EmptySound DEF At, Sure
<1>5. QED
  BY <1>1, <1>2, <1>3, <1>4, QuietStep

\* A report or a batch with the items of q.
LEMMA ReportTaken ==
  ASSUME RecordsInv, NEW w \in Workers, NEW o \in {"report", "sync"}, NEW q \in Seq(Report),
         q # <<>>, Len(q) <= MaxBatch,
         Take(w, [Idle EXCEPT !.op = o, !.at = "find", !.recs = q, !.logins = q]),
         UNCHANGED <<run, db, stranded>>,
         \A x \in Items(q) : x.status = "closed" => run[x.s] = "ended",
         o = "report" => Len(q) <= 1
  PROVE  RecordsInv'
<1> DEFINE t == [Idle EXCEPT !.op = o, !.at = "find", !.recs = q, !.logins = q]
<1>1. q \in Seq(Report \cup [s : Sessions])
  OBVIOUS
<1>2. t \in Task /\ t.op = o /\ t.at = "find" /\ t.recs = q /\ t.logins = q
  BY <1>1, IdleSound DEF Task, Idle
<1>3. Take(w, t)
  OBVIOUS
<1> HIDE DEF t
<1>4. task'[w] = t /\ run' = run
  BY <1>2, <1>3, TaskStep DEF Take, RecordsInv
<1>5. WorkerInv(w)'
  BY <1>2, <1>4 DEF WorkerInv, ReportInv, OtherInv, TerminateInv, ViewInv, Reporting
<1>6. QED
  BY <1>2, <1>3, <1>5, TakeKeeps

\* Commands to insert, or the counters a replay page has read.
LEMMA CountsTaken ==
  ASSUME RecordsInv, NEW w \in Workers, NEW o \in {"commands", "view"},
         NEW at \in {"rows", "count"},
         NEW cmds \in [Sessions -> Nat], UNCHANGED <<run, db, stranded>>,
         Take(w, [Idle EXCEPT !.op = o, !.at = at, !.cmds = cmds]),
         o = "view" => \A s \in Sessions : cmds[s] <= rows[s]
  PROVE  RecordsInv'
<1> DEFINE t == [Idle EXCEPT !.op = o, !.at = at, !.cmds = cmds]
<1>1. /\ t \in Task /\ t.op = o /\ t.at = at /\ t.recs = <<>> /\ t.logins = <<>>
      /\ t.cmds = cmds
  BY IdleSound DEF Task, Idle
<1>2. Take(w, t)
  OBVIOUS
<1> HIDE DEF t
<1>3. task'[w] = t /\ rows' = rows
  BY <1>1, <1>2, TaskStep DEF Take, RecordsInv, db
<1>4. WorkerInv(w)'
  BY <1>1, <1>3 DEF WorkerInv, ReportInv, OtherInv, TerminateInv, ViewInv, Reporting
<1>5. Len(t.recs) <= MaxBatch /\ Len(t.logins) <= MaxBatch
  BY <1>1, EmptySound, SessionRecordsAssumption 
<1>6. QED
  BY <1>1, <1>2, <1>4, <1>5, TakeKeeps

LEMMA ReceiveKeeps ==
  ASSUME RecordsInv, CountsRows, NEW w \in Workers, Receive(w)
  PROVE  RecordsInv'
<1>1. ASSUME NEW s \in ProxySessions, ReportSession(w, s) PROVE RecordsInv'
  <2> DEFINE x == [s |-> s, status |-> "active"]
  <2>1. x \in Report /\ x.s = s /\ x.status = "active"
    BY DEF Report
  <2>2. /\ Take(w, [Idle EXCEPT !.op = "report", !.at = "find",
                                !.recs = <<x>>, !.logins = <<x>>])
        /\ UNCHANGED <<run, db, stranded>>
    BY <1>1 DEF ReportSession
  <2> HIDE DEF x
  <2>3. /\ <<x>> \in Seq(Report) /\ <<x>> # <<>> /\ Len(<<x>>) <= MaxBatch
        /\ Items(<<x>>) = {x} /\ Named(<<x>>) = {s}
    BY <2>1, OneSound, SessionRecordsAssumption 
  <2>4. Len(<<x>>) <= 1
    BY <2>1, OneSound
  <2>5. QED
    BY <2>1, <2>2, <2>3, <2>4, ReportTaken
<1>2. ASSUME NEW batch \in Batches, SyncSessions(w, batch) PROVE RecordsInv'
  <2>1. PICK m \in 1 .. MaxBatch : batch \in [1 .. m -> Item]
    BY <1>2 DEF Batches
  <2>2. PICK n \in DOMAIN batch : \E kept \in [1 .. n -> DOMAIN batch] :
          LET sessions == [i \in 1 .. n |-> batch[kept[i]]]
          IN  /\ Keeps(batch, kept)
              /\ Take(w, [Idle EXCEPT !.op = "sync", !.at = "find",
                                      !.recs = sessions, !.logins = sessions])
    BY <1>2 DEF SyncSessions
  <2>3. PICK kept \in [1 .. n -> DOMAIN batch] :
          Take(w, [Idle EXCEPT !.op = "sync", !.at = "find",
                               !.recs = [i \in 1 .. n |-> batch[kept[i]]],
                               !.logins = [i \in 1 .. n |-> batch[kept[i]]]])
    BY <2>2
  <2> DEFINE q == [i \in 1 .. n |-> batch[kept[i]]]
  <2>4. n \in 1 .. MaxBatch /\ n \in Nat
    BY <2>1, SessionRecordsAssumption 
  <2>5. q \in Seq(Item) /\ Len(q) = n /\ DOMAIN q = 1 .. n
    BY <2>1, <2>4
  <2>6. q \in Seq(Report) /\ q # <<>> /\ Len(q) <= MaxBatch
    BY <2>4, <2>5, SessionRecordsAssumption DEF Report
  <2>7. ASSUME NEW y \in Items(q), y.status = "closed" PROVE run[y.s] = "ended"
    <3>1. PICK i \in 1 .. n : y = batch[kept[i]]
      BY <2>5 DEF Items
    <3>2. QED
      BY <1>2, <2>7, <3>1 DEF SyncSessions, Reportable
  <2>8. Take(w, [Idle EXCEPT !.op = "sync", !.at = "find", !.recs = q, !.logins = q])
    BY <2>3
  <2>9. UNCHANGED <<run, db, stranded>>
    BY <1>2 DEF SyncSessions
  <2> HIDE DEF q
  <2>10. QED
    BY <2>6, <2>7, <2>8, <2>9, ReportTaken
<1>3. ASSUME NEW cmds \in [Sessions -> Nat], InsertAndCount(w, cmds) PROVE RecordsInv'
  BY <1>3, CountsTaken DEF InsertAndCount
<1>4. \A s \in Sessions : [NoCommands EXCEPT ![s] = 1] \in [Sessions -> Nat]
  BY DEF NoCommands
<1>5. ASSUME NEW s \in ProxySessions, ReportCommand(w, s) PROVE RecordsInv'
  BY <1>3, <1>4, <1>5 DEF ReportCommand, Sessions
<1>6. ASSUME NEW s \in ServerSessions, AuditCommand(w, s) PROVE RecordsInv'
  BY <1>3, <1>4, <1>6 DEF AuditCommand, Sessions
<1>7. ASSUME NEW cmds \in CommandBatches, SyncCommands(w, cmds) PROVE RecordsInv'
  <2>1. cmds \in [Sessions -> Nat]
    BY <1>7, SessionRecordsAssumption DEF CommandBatches
  <2>2. QED
    BY <1>3, <1>7, <2>1 DEF SyncCommands
<1>8. ASSUME NEW s \in Sessions, TerminateSession(w, s) PROVE RecordsInv'
  <2> DEFINE x == [s |-> s]
             at == IF s \in ProxySessions THEN "proxy" ELSE "recording"
             t == [Idle EXCEPT !.op = "terminate", !.at = at, !.recs = <<x>>]
  <2>1. x \in [s : Sessions] /\ x \in Report \cup [s : Sessions] /\ x.s = s
    OBVIOUS
  <2>2. Take(w, t) /\ UNCHANGED <<run, db, stranded>> /\ rec[s].status = "active"
    BY <1>8 DEF TerminateSession
  <2> HIDE DEF x
  <2>3. /\ <<x>> \in Seq(Report \cup [s : Sessions]) /\ Len(<<x>>) = 1 /\ <<x>>[1] = x
    BY <2>1, OneSound
  <2>4. /\ t \in Task /\ t.op = "terminate" /\ t.at = at /\ t.recs = <<x>> /\ t.logins = <<>>
    BY <2>3, IdleSound DEF Task, Idle
  <2>5. at \in {"proxy", "recording"} /\ (at = "proxy" <=> s \in ProxySessions)
    OBVIOUS
  <2> HIDE DEF t, at
  <2>6. task'[w] = t /\ rec' = rec
    BY <2>2, <2>4, TaskStep DEF Take, RecordsInv, db
  <2>7. Subject(w)' = s
    BY <2>1, <2>3, <2>4, <2>6 DEF Subject
  <2>8. WorkerInv(w)'
    BY <2>2, <2>3, <2>4, <2>5, <2>6, <2>7
    DEF WorkerInv, ReportInv, OtherInv, TerminateInv, ViewInv, Reporting
  <2>9. Len(t.recs) <= MaxBatch /\ Len(t.logins) <= MaxBatch
    BY <2>3, <2>4, EmptySound, SessionRecordsAssumption 
  <2>10. QED
    BY <2>2, <2>4, <2>8, <2>9, TakeKeeps
<1>9. rec \in [Sessions -> Recording] /\ \A s \in Sessions : rec[s].count \in Nat
  BY DEF RecordsInv, RecordsTypeOK, Recording
<1>10. rows \in [Sessions -> Nat]
  BY DEF RecordsInv, RecordsTypeOK
<1>11. ASSUME NEW s \in Sessions, GetSessionRecording(w, s) PROVE RecordsInv'
  <2> DEFINE cmds == [NoCommands EXCEPT ![s] = rec[s].count]
  <2>1. cmds \in [Sessions -> Nat] /\ \A r \in Sessions : cmds[r] <= rows[r]
    BY <1>9, <1>10 DEF NoCommands, CountsRows
  <2>2. /\ Take(w, [Idle EXCEPT !.op = "view", !.at = "count", !.cmds = cmds])
        /\ UNCHANGED <<run, db, stranded>>
    BY <1>11 DEF GetSessionRecording
  <2> HIDE DEF cmds
  <2>3. QED
    BY <2>1, <2>2, CountsTaken
<1>12. CASE GetSessionRecordings(w)
  <2> DEFINE cmds == [s \in Sessions |-> rec[s].count]
  <2>1. cmds \in [Sessions -> Nat] /\ \A r \in Sessions : cmds[r] <= rows[r]
    BY <1>9 DEF CountsRows
  <2>2. /\ Take(w, [Idle EXCEPT !.op = "view", !.at = "count", !.cmds = cmds])
        /\ UNCHANGED <<run, db, stranded>>
    BY <1>12 DEF GetSessionRecordings
  <2> HIDE DEF cmds
  <2>3. QED
    BY <2>1, <2>2, CountsTaken
<1>13. QED
  BY <1>1, <1>2, <1>5, <1>6, <1>7, <1>8, <1>11, <1>12 DEF Receive
-----------------------------------------------------------------------------
(* Reports and batches.                                                     *)

\* What the invariant says of a worker at a recording or a login.
LEMMA AtItem ==
  ASSUME RecordsInv, NEW w \in Workers, task[w].at \in {"find", "insert"}
  PROVE  /\ Reporting(w) /\ task[w] \in Task /\ task[w].op \in {"report", "sync"}
         /\ task[w].recs \in Seq(Report) /\ task[w].logins \in Seq(Report)
         /\ task[w].logins # <<>>
         /\ Len(task[w].recs) <= MaxBatch /\ Len(task[w].logins) <= MaxBatch
         /\ \A x \in Items(task[w].recs) : x.status = "closed" => run[x.s] = "ended"
         /\ Named(task[w].recs) \subseteq Named(task[w].logins)
         /\ task[w].op = "report" => Len(task[w].recs) <= 1
<1>1. /\ WorkerInv(w) /\ task[w] \in Task
      /\ Len(task[w].recs) <= MaxBatch /\ Len(task[w].logins) <= MaxBatch
  BY DEF RecordsInv, RecordsTypeOK
<1>2. Reporting(w)
  BY <1>1 DEF WorkerInv, OtherInv
<1>3. task[w].logins \in Seq(Report)
  BY <1>1 DEF Task
<1>4. QED
  BY <1>1, <1>2, <1>3 DEF WorkerInv, ReportInv, Reporting

\* Past a recording, whether it is there or not.
LEMMA PastRecordingSound ==
  ASSUME RecordsInv, NEW w \in Workers, task[w].at \in {"find", "insert"},
         task[w].recs # <<>>, PastRecording(w), Gains, run' = run
  PROVE  /\ \E t \in Task : /\ task' = [task EXCEPT ![w] = t]
                            /\ Len(t.recs) <= MaxBatch /\ Len(t.logins) <= MaxBatch
         /\ WorkerInv(w)'
         /\ \A s : Sure(w, s) \/ s = NextRecording(w).s => Sure(w, s)'
<1> DEFINE q == task[w].recs
           p == task[w].logins
           t == [task[w] EXCEPT !.recs = Tail(q), !.at = "find"]
           x == Head(q)
<1>1. /\ Reporting(w) /\ task[w] \in Task /\ task[w].op \in {"report", "sync"}
      /\ q \in Seq(Report) /\ p \in Seq(Report) /\ p # <<>>
      /\ Len(q) <= MaxBatch /\ Len(p) <= MaxBatch
      /\ \A y \in Items(q) : y.status = "closed" => run[y.s] = "ended"
      /\ Named(q) \subseteq Named(p)
      /\ task[w].op = "report" => Len(q) <= 1
  BY AtItem
<1>2. /\ Len(q) \in Nat \ {0} /\ x \in Report /\ Tail(q) \in Seq(Report)
      /\ Len(Tail(q)) = Len(q) - 1
      /\ Items(q) = {x} \cup Items(Tail(q)) /\ Named(q) = {x.s} \cup Named(Tail(q))
  BY <1>1, TailSound
<1>3. task' = [task EXCEPT ![w] = t]
  BY DEF PastRecording, RecordsInv, RecordsTypeOK
<1>4. Tail(q) \in Seq(Report \cup [s : Sessions])
  BY <1>2
<1>5. /\ t \in Task /\ t.op = task[w].op /\ t.at = "find" /\ t.recs = Tail(q)
      /\ t.logins = p /\ t.cmds = task[w].cmds
  BY <1>1, <1>4 DEF Task
<1>6. Len(t.recs) <= MaxBatch /\ Len(t.logins) <= MaxBatch
  BY <1>1, <1>2, <1>5, SessionRecordsAssumption 
<1> HIDE DEF t
<1>7. task'[w] = t
  BY <1>3, <1>5, TaskStep DEF RecordsInv
<1>8. task[w].op = "report" => Len(Tail(q)) <= 1 /\ Tail(q) = <<>>
  <2> DEFINE r == Tail(q)
  <2>1. task[w].op = "report" => Len(q) = 1
    <3>1. \A n \in Nat \ {0} : n <= 1 => n = 1
      OBVIOUS
    <3>2. Len(q) \in Nat \ {0}
      BY <1>2
    <3>3. task[w].op = "report" => Len(q) <= 1
      BY <1>1
    <3> HIDE DEF q
    <3>4. QED
      BY <3>1, <3>2, <3>3
  <2>2. r \in Seq(Report) /\ Len(r) = Len(q) - 1
    BY <1>2
  <2> HIDE DEF r
  <2>3. task[w].op = "report" => Len(r) = 0
    BY <2>1, <2>2
  <2>4. r = <<>> <=> Len(r) = 0
    BY <2>2, EmptyLen
  <2>5. task[w].op = "report" => Len(r) <= 1 /\ r = <<>>
    BY <2>3, <2>4
  <2>6. QED
    BY <2>5 DEF r
<1>9. WorkerInv(w)'
  BY <1>1, <1>2, <1>5, <1>7, <1>8
  DEF WorkerInv, ReportInv, OtherInv, TerminateInv, ViewInv, Reporting
<1>10. \A s \in Named(p) : Sure(w, s)'
  BY <1>5, <1>7, <1>8 DEF Sure
<1>11. x.s \in Named(p)
  BY <1>1, <1>2
<1>12. \A s : Sure(w, s) => s \in Named(p)
  BY DEF Sure
<1>13. QED
  BY <1>3, <1>5, <1>6, <1>9, <1>10, <1>11, <1>12 DEF NextRecording

\* Past a login: the recordings are done with.
LEMMA PastLoginSound ==
  ASSUME RecordsInv, NEW w \in Workers, task[w].at \in {"find", "insert"},
         AtLogins(w), PastLogin(w), Gains
  PROVE  /\ \E t \in Task : /\ task' = [task EXCEPT ![w] = t]
                            /\ Len(t.recs) <= MaxBatch /\ Len(t.logins) <= MaxBatch
         /\ WorkerInv(w)'
         /\ \A s : Sure(w, s) /\ s # NextLogin(w).s => Sure(w, s)'
<1> DEFINE q == task[w].logins
           t == [task[w] EXCEPT !.logins = Tail(q), !.at = "find"]
           x == Head(q)
<1>1. /\ Reporting(w) /\ task[w] \in Task /\ task[w].op \in {"report", "sync"}
      /\ q \in Seq(Report) /\ Len(q) <= MaxBatch /\ q # <<>> /\ task[w].recs = <<>>
  BY AtItem, EmptySound DEF AtLogins
<1>2. /\ Len(q) \in Nat \ {0} /\ x \in Report /\ Tail(q) \in Seq(Report)
      /\ Len(Tail(q)) = Len(q) - 1
      /\ Named(q) = {x.s} \cup Named(Tail(q))
  BY <1>1, TailSound
<1>3. CASE Len(q) = 1
  <2>1. task' = [task EXCEPT ![w] = Idle]
    BY <1>3 DEF PastLogin, Done
  <2>2. task'[w] = Idle
    BY <2>1, IdleSound, TaskStep DEF RecordsInv
  <2>3. Tail(q) = <<>>
    <3> DEFINE r == Tail(q)
    <3>1. r \in Seq(Report) /\ Len(r) = 0
      BY <1>2, <1>3
    <3> HIDE DEF r
    <3>2. r = <<>>
      BY <3>1, EmptyLen
    <3>3. QED
      BY <3>2 DEF r
  <2>4. Named(Tail(q)) = {}
    BY <2>3, EmptySound
  <2>5. \A s : Sure(w, s) => s = NextLogin(w).s
    BY <1>2, <2>4 DEF Sure, NextLogin
  <2>6. Len(Idle.recs) <= MaxBatch /\ Len(Idle.logins) <= MaxBatch
    BY IdleSound, EmptySound, SessionRecordsAssumption 
  <2>7. QED
    BY <2>1, <2>2, <2>5, <2>6, IdleSound, IdleWorker
<1>4. CASE Len(q) # 1
  <2>1. task' = [task EXCEPT ![w] = t]
    BY <1>4 DEF PastLogin, RecordsInv, RecordsTypeOK
  <2>2. /\ t \in Task /\ t.op = task[w].op /\ t.at = "find" /\ t.recs = <<>>
        /\ t.logins = Tail(q) /\ t.cmds = task[w].cmds
    BY <1>1, <1>2 DEF Task
  <2> HIDE DEF t
  <2>3. task'[w] = t
    BY <2>1, <2>2, TaskStep DEF RecordsInv
  <2>4. Tail(q) # <<>>
    <3> DEFINE r == Tail(q)
    <3>1. r \in Seq(Report) /\ Len(r) # 0
      BY <1>2, <1>4
    <3> HIDE DEF r
    <3>2. r # <<>>
      BY <3>1, EmptyLen
    <3>3. QED
      BY <3>2 DEF r
  <2>5. /\ <<>> \in Seq(Report) /\ Items(<<>>) = {} /\ Named(<<>>) = {} /\ Len(<<>>) = 0
    BY EmptySound
  <2>6. Len(task'[w].recs) <= 1 /\ task'[w].recs \in Seq(Report)
        /\ Items(task'[w].recs) = {} /\ Named(task'[w].recs) = {}
    <3>1. task'[w].recs = <<>>
      BY <2>2, <2>3
    <3>2. Items(task'[w].recs) = {} /\ Named(task'[w].recs) = {}
      BY <2>5, <3>1, Zenon
    <3>3. task'[w].recs \in Seq(Report) /\ Len(task'[w].recs) = 0
      BY <2>5, <3>1, Zenon
    <3> DEFINE n == Len(task'[w].recs)
    <3>4. n = 0
      BY <3>3
    <3> HIDE DEF n
    <3>5. n <= 1
      BY <3>4
    <3>6. QED
      BY <3>2, <3>3, <3>5 DEF n
  <2>7. WorkerInv(w)'
    BY <1>1, <2>2, <2>3, <2>4, <2>6
    DEF WorkerInv, ReportInv, OtherInv, TerminateInv, ViewInv, Reporting
  <2>8. ASSUME NEW s, Sure(w, s), s # NextLogin(w).s PROVE Sure(w, s)'
    BY <1>2, <2>2, <2>3, <2>8 DEF Sure, NextLogin
  <2>9. Len(t.recs) <= MaxBatch /\ Len(t.logins) <= MaxBatch
    BY <1>1, <1>2, <2>2, <2>5, SessionRecordsAssumption 
  <2>10. QED
    BY <2>1, <2>2, <2>7, <2>8, <2>9
<1>5. QED
  BY <1>3, <1>4

\* The worker has found no row and goes on to insert one.
LEMMA GotoInsertSound ==
  ASSUME RecordsInv, NEW w \in Workers, task[w].at = "find", Goto(w, "insert"),
         rec' = rec, run' = run
  PROVE  /\ \E t \in Task : /\ task' = [task EXCEPT ![w] = t]
                            /\ Len(t.recs) <= MaxBatch /\ Len(t.logins) <= MaxBatch
         /\ WorkerInv(w)'
         /\ \A s : Sure(w, s) => Sure(w, s)'
<1> DEFINE t == [task[w] EXCEPT !.at = "insert"]
<1>1. /\ Reporting(w) /\ task[w] \in Task /\ WorkerInv(w)
      /\ Len(task[w].recs) <= MaxBatch /\ Len(task[w].logins) <= MaxBatch
  BY AtItem DEF RecordsInv
<1>2. task' = [task EXCEPT ![w] = t]
  BY DEF Goto, RecordsInv, RecordsTypeOK
<1>3. /\ t \in Task /\ t.op = task[w].op /\ t.at = "insert" /\ t.recs = task[w].recs
      /\ t.logins = task[w].logins /\ t.cmds = task[w].cmds
  BY <1>1 DEF Task
<1> HIDE DEF t
<1>4. task'[w] = t
  BY <1>2, <1>3, TaskStep DEF RecordsInv
<1>5. WorkerInv(w)'
  BY <1>1, <1>3, <1>4
  DEF WorkerInv, ReportInv, OtherInv, TerminateInv, ViewInv, Reporting
<1>6. ASSUME NEW s, Sure(w, s) PROVE Sure(w, s)'
  BY <1>3, <1>4, <1>6 DEF Sure
<1>7. QED
  BY <1>1, <1>2, <1>3, <1>5, <1>6

\* The two SELECTs change nothing.
LEMMA FindKeeps ==
  ASSUME RecordsInv, NEW w \in Workers, FindRecording(w) \/ FindLogin(w)
  PROVE  RecordsInv'
<1>1. /\ task[w].at = "find" /\ ~At(w, "terminate", "login")
      /\ UNCHANGED <<run, login, stranded>> /\ rec' = rec /\ rows' = rows
  BY DEF FindRecording, FindLogin, db, At
<1>2. /\ rows' \in [Sessions -> Nat] /\ \A s \in Sessions : rows[s] <= rows'[s]
  BY <1>1 DEF RecordsInv, RecordsTypeOK
<1>3. rec' \in [Sessions -> Recording] /\ NoRowInv'
  BY <1>1 DEF RecordsInv, RecordsTypeOK, TablesInv, NoRowInv
<1>4. Gains
  BY <1>1, <1>2 DEF Gains
<1>5. SUFFICES /\ \E t \in Task : /\ task' = [task EXCEPT ![w] = t]
                                  /\ Len(t.recs) <= MaxBatch /\ Len(t.logins) <= MaxBatch
               /\ WorkerInv(w)'
               /\ \A s \in ProxySessions :
                    Sure(w, s) /\ login[s] = "none" /\ rec[s].status # "none" => Sure(w, s)'
  BY <1>1, <1>2, <1>3, QuietStep
<1>6. CASE FindRecording(w)
  <2>1. CASE rec[NextRecording(w).s].status # "none"
    <3>1. PastRecording(w) /\ task[w].recs # <<>>
      BY <1>6, <2>1 DEF FindRecording
    <3>2. QED
      BY <1>1, <1>4, <3>1, PastRecordingSound
  <2>2. CASE rec[NextRecording(w).s].status = "none"
    <3>1. Goto(w, "insert") /\ task[w].recs # <<>>
      BY <1>6, <2>2 DEF FindRecording
    <3>2. QED
      BY <1>1, <3>1, GotoInsertSound
  <2>3. QED
    BY <2>1, <2>2
<1>7. CASE FindLogin(w)
  <2>1. CASE login[NextLogin(w).s] # "none"
    <3>1. PastLogin(w) /\ AtLogins(w)
      BY <1>7, <2>1 DEF FindLogin
    <3>2. QED
      BY <1>1, <1>4, <2>1, <3>1, PastLoginSound
  <2>2. CASE login[NextLogin(w).s] = "none"
    <3>1. Goto(w, "insert") /\ task[w].recs = <<>>
      BY <1>7, <2>2 DEF FindLogin, AtLogins
    <3>2. QED
      BY <1>1, <3>1, GotoInsertSound
  <2>3. QED
    BY <2>1, <2>2
<1>8. QED
  BY <1>6, <1>7
\* A SELECT or an INSERT of a recording fails.
LEMMA RefuseRecordingKeeps ==
  ASSUME RecordsInv, NEW w \in Workers, RefuseRecording(w)
  PROVE  RecordsInv'
<1>1. /\ task[w].recs # <<>> /\ task[w].at \in {"find", "insert"}
      /\ ~At(w, "terminate", "login")
      /\ IF task[w].op = "sync" THEN PastRecording(w) ELSE Done(w)
      /\ UNCHANGED <<run, login, stranded>> /\ rec' = rec /\ rows' = rows
  BY DEF RefuseRecording, At, db
<1>2. RecordsTypeOK /\ TablesInv /\ task[w].op \in {"report", "sync"}
  BY <1>1, AtItem DEF RecordsInv
<1>3. /\ rows' \in [Sessions -> Nat] /\ \A s \in Sessions : rows[s] <= rows'[s]
  BY <1>1, <1>2 DEF RecordsTypeOK
<1>4. rec' \in [Sessions -> Recording] /\ NoRowInv' /\ Gains
  BY <1>1, <1>2, <1>3 DEF RecordsTypeOK, TablesInv, NoRowInv, Gains
<1>5. SUFFICES /\ \E t \in Task : /\ task' = [task EXCEPT ![w] = t]
                                  /\ Len(t.recs) <= MaxBatch /\ Len(t.logins) <= MaxBatch
               /\ WorkerInv(w)'
               /\ \A s \in ProxySessions :
                    Sure(w, s) /\ login[s] = "none" /\ rec[s].status # "none" => Sure(w, s)'
  BY <1>1, <1>3, <1>4, QuietStep
<1>6. CASE task[w].op = "sync"
  <2>1. PastRecording(w)
    BY <1>1, <1>6
  <2>2. QED
    BY <1>1, <1>4, <2>1, PastRecordingSound
<1>7. CASE task[w].op = "report"
  <2>1. task' = [task EXCEPT ![w] = Idle]
    BY <1>1, <1>7 DEF Done
  <2>2. task'[w] = Idle
    BY <1>2, <2>1, IdleSound, TaskStep
  <2>3. \A s : ~Sure(w, s)
    BY <1>1, <1>7 DEF Sure
  <2>4. Len(Idle.recs) <= MaxBatch /\ Len(Idle.logins) <= MaxBatch
    BY IdleSound, EmptySound, SessionRecordsAssumption
  <2>5. QED
    BY <2>1, <2>2, <2>3, <2>4, IdleSound, IdleWorker
<1>8. QED
  BY <1>2, <1>6, <1>7

\* A recording is inserted.
LEMMA CreateRecordingKeeps ==
  ASSUME RecordsInv, NEW w \in Workers, CreateRecording(w)
  PROVE  RecordsInv'
<1> DEFINE q == task[w].recs
           x == Head(q)
           late == x.status = "closed" /\ login[x.s] \in OpenLogin
<1>1. /\ q # <<>> /\ task[w].at = "insert" /\ ~At(w, "terminate", "login")
      /\ rec[x.s].status = "none" /\ rec' = [rec EXCEPT ![x.s] = NewRecording(x)]
      /\ stranded' = IF late THEN stranded \cup {<<x.s, "open">>} ELSE stranded
      /\ PastRecording(w) /\ UNCHANGED <<run, login>> /\ rows' = rows
  BY DEF CreateRecording, NextRecording, At
<1>2. /\ q \in Seq(Report) /\ task[w].op \in {"report", "sync"}
      /\ \A y \in Items(q) : y.status = "closed" => run[y.s] = "ended"
      /\ Named(q) \subseteq Named(task[w].logins)
  BY <1>1, AtItem
<1>3. x \in Report /\ x \in Items(q)
  BY <1>1, <1>2, TailSound
<1>4. /\ x.s \in ProxySessions /\ x.s \in Sessions /\ x.status \in {"active", "closed"}
      /\ x.status = "closed" => run[x.s] = "ended"
  BY <1>2, <1>3, ReportSound
<1>5. RecordsTypeOK /\ TablesInv /\ rec \in [Sessions -> Recording]
  BY DEF RecordsInv, RecordsTypeOK
<1>6. /\ rows' \in [Sessions -> Nat] /\ \A s \in Sessions : rows[s] <= rows'[s]
  BY <1>1, <1>5 DEF RecordsTypeOK
<1>7. /\ stranded' \subseteq Sessions \X {"missing", "open"} /\ stranded \subseteq stranded'
      /\ late => <<x.s, "open">> \in stranded'
  BY <1>1, <1>4, <1>5 DEF RecordsTypeOK
<1>8. RecordsInv'
  <2>1. rec' = [rec EXCEPT ![x.s] = NewRecording(x)] /\ PastRecording(w)
    BY <1>1
  <2>2. NewRecording(x) \in Recording /\ NewRecording(x).status = x.status
    BY <1>4 DEF NewRecording, Recording
  <2>3. /\ rec' \in [Sessions -> Recording] /\ rec'[x.s].status = x.status
        /\ \A s \in Sessions : s # x.s => rec'[s] = rec[s]
    BY <1>4, <1>5, <2>1, <2>2
  <2>4. Gains
    BY <1>1, <1>4, <1>6, <2>3 DEF Gains
  <2>5. /\ \E t \in Task : /\ task' = [task EXCEPT ![w] = t]
                           /\ Len(t.recs) <= MaxBatch /\ Len(t.logins) <= MaxBatch
        /\ WorkerInv(w)'
        /\ \A s : Sure(w, s) \/ s = x.s => Sure(w, s)'
    BY <1>1, <2>1, <2>4, PastRecordingSound DEF NextRecording
  <2>6. PICK t \in Task : /\ task' = [task EXCEPT ![w] = t]
                          /\ Len(t.recs) <= MaxBatch /\ Len(t.logins) <= MaxBatch
    BY <2>5
  <2>7. /\ task' \in [Workers -> Task] /\ task'[w] = t
        /\ \A v \in Workers : v # w => task'[v] = task[v]
    BY <1>5, <2>6, TaskStep
  <2>8. RecordsTypeOK'
    BY <1>1, <1>5, <1>6, <1>7, <2>3, <2>6, <2>7 DEF RecordsTypeOK
  <2>9. LoginInv'
    <3>1. ASSUME NEW s \in ProxySessions, rec'[s].status # "none", login'[s] = "none"
          PROVE  <<s, "missing">> \in stranded' \/ \E v \in Workers : Sure(v, s)'
      <4>1. CASE s = x.s
        BY <2>5, <4>1
      <4>2. CASE s # x.s
        <5>1. rec'[s] = rec[s] /\ login'[s] = login[s]
          BY <1>1, <2>3, <4>2 DEF Sessions
        <5>2. ASSUME NEW v \in Workers, Sure(v, s) PROVE Sure(v, s)'
          <6>1. CASE v = w
            BY <2>5, <5>2, <6>1
          <6>2. CASE v # w
            BY <2>7, <5>2, <6>2 DEF Sure
          <6>3. QED
            BY <6>1, <6>2
        <5>3. QED
          BY <1>5, <1>7, <3>1, <5>1, <5>2 DEF TablesInv, LoginInv
      <4>3. QED
        BY <4>1, <4>2
    <3>2. QED
      BY <3>1 DEF LoginInv
  <2>10. NoRowInv'
    BY <1>4, <1>5, <2>3 DEF TablesInv, NoRowInv
  <2>11. RunInv'
    <3>1. \A s \in ServerSessions : s \in Sessions /\ s # x.s
      BY <1>4, SessionRecordsAssumption DEF Sessions
    <3>2. QED
      BY <1>1, <1>5, <2>3, <3>1 DEF TablesInv, RunInv
  <2>12. ClosedIsOver'
    BY <1>1, <1>4, <1>5, <2>3 DEF TablesInv, ClosedIsOver, Sessions
  <2>13. LoginFollows'
    <3>2. ASSUME NEW s \in Sessions, rec'[s].status = "closed", login'[s] \in OpenLogin
          PROVE  \/ <<s, "open">> \in stranded' \/ run'[s] = "ending"
                 \/ \E v \in Workers : (At(v, "terminate", "login") /\ Subject(v) = s)'
      <4>5. CASE s = x.s
        BY <1>1, <1>7, <2>3, <3>2, <4>5
      <4>6. SUFFICES ASSUME s # x.s
                     PROVE  \/ <<s, "open">> \in stranded' \/ run'[s] = "ending"
                            \/ \E v \in Workers : (At(v, "terminate", "login") /\ Subject(v) = s)'
        BY <4>5
      <4>1. rec[s].status = "closed" /\ login[s] \in OpenLogin
        BY <1>1, <2>3, <3>2, <4>6
      <4>2. \/ <<s, "open">> \in stranded \/ run[s] = "ending"
            \/ \E v \in Workers : At(v, "terminate", "login") /\ Subject(v) = s
        BY <1>5, <4>1 DEF TablesInv, LoginFollows
      <4>3. ASSUME NEW v \in Workers, At(v, "terminate", "login"), Subject(v) = s
            PROVE  (At(v, "terminate", "login") /\ Subject(v) = s)'
        <5>1. task'[v] = task[v]
          BY <1>1, <2>7, <4>3
        <5>2. QED
          BY <4>3, <5>1 DEF At, Subject
      <4>4. QED
        BY <1>1, <1>7, <4>2, <4>3
    <3>3. QED
      BY <3>2 DEF LoginFollows
  <2>14. TablesInv'
    BY <2>9, <2>10, <2>11, <2>12, <2>13 DEF TablesInv
  <2>15. QED
    BY <2>4, <2>5, <2>7, <2>8, <2>14, WorkerStep
<1>9. QED
  BY <1>8

\* A login is inserted, or a statement of it fails.
LEMMA CreateLoginKeeps ==
  ASSUME RecordsInv, NEW w \in Workers, CreateLogin(w) \/ RefuseLogin(w)
  PROVE  RecordsInv'
<1> DEFINE q == task[w].logins
           x == Head(q)
<1>1. /\ AtLogins(w) /\ task[w].at \in {"find", "insert"} /\ ~At(w, "terminate", "login")
      /\ PastLogin(w)
      /\ \/ login[x.s] = "none" /\ login' = [login EXCEPT ![x.s] = x.status]
         \/ login' = login
      /\ run' = run /\ rec' = rec /\ rows' = rows
  BY DEF CreateLogin, RefuseLogin, NextLogin, At, AtLogins, db
<1>2. q \in Seq(Report) /\ q # <<>> /\ task[w].recs = <<>>
  BY <1>1, AtItem DEF AtLogins
<1>3. x \in Report /\ x.s \in Named(q)
  BY <1>2, TailSound
<1>4. /\ x.s \in ProxySessions /\ x.s \in Sessions /\ x.status \in {"active", "closed"}
  BY <1>2, <1>3, ReportSound
<1>5. RecordsTypeOK /\ TablesInv
  BY DEF RecordsInv
<1>6. Gains
  BY <1>1, <1>5 DEF Gains, RecordsTypeOK
<1>7. /\ \E t \in Task : /\ task' = [task EXCEPT ![w] = t]
                         /\ Len(t.recs) <= MaxBatch /\ Len(t.logins) <= MaxBatch
      /\ WorkerInv(w)'
      /\ \A s : Sure(w, s) /\ s # x.s => Sure(w, s)'
  BY <1>1, <1>6, PastLoginSound DEF NextLogin
<1>8. PICK t \in Task : /\ task' = [task EXCEPT ![w] = t]
                        /\ Len(t.recs) <= MaxBatch /\ Len(t.logins) <= MaxBatch
  BY <1>7
<1>9. /\ task' \in [Workers -> Task] /\ task'[w] = t
      /\ \A v \in Workers : v # w => task'[v] = task[v]
  BY <1>5, <1>8, TaskStep
<1>10. /\ login' \in [Sessions -> LoginStatus]
       /\ \A s \in Sessions : s # x.s => login'[s] = login[s]
  BY <1>1, <1>4, <1>5 DEF RecordsTypeOK, LoginStatus
<1>11. /\ stranded' \subseteq Sessions \X {"missing", "open"} /\ stranded \subseteq stranded'
       /\ login'[x.s] = "none" => <<x.s, "missing">> \in stranded'
       /\ rec[x.s].status = "closed" /\ login'[x.s] \in OpenLogin =>
            login'[x.s] = login[x.s] \/ <<x.s, "open">> \in stranded'
  <2>1. CASE CreateLogin(w)
    <3>1. /\ login' = [login EXCEPT ![x.s] = x.status]
          /\ stranded' = IF x.status = "active" /\ rec[x.s].status = "closed"
                         THEN stranded \cup {<<x.s, "open">>} ELSE stranded
      BY <2>1 DEF CreateLogin, NextLogin
    <3>2. login'[x.s] = x.status /\ x.status # "none" /\ x.status \in OpenLogin => x.status = "active"
      BY <1>4, <1>5, <3>1 DEF RecordsTypeOK, OpenLogin
    <3>3. QED
      BY <1>4, <1>5, <3>1, <3>2 DEF RecordsTypeOK
  <2>2. CASE RefuseLogin(w)
    <3>1. /\ login' = login
          /\ stranded' = IF login[x.s] = "none"
                         THEN stranded \cup {<<x.s, "missing">>} ELSE stranded
      BY <2>2 DEF RefuseLogin, NextLogin, db
    <3>2. QED
      BY <1>4, <1>5, <3>1 DEF RecordsTypeOK
  <2>3. QED
    BY <2>1, <2>2
<1>12. RecordsTypeOK'
  BY <1>1, <1>5, <1>8, <1>9, <1>10, <1>11 DEF RecordsTypeOK
<1>13. LoginInv'
  <2>1. ASSUME NEW s \in ProxySessions, rec'[s].status # "none", login'[s] = "none"
        PROVE  <<s, "missing">> \in stranded' \/ \E v \in Workers : Sure(v, s)'
    <3>1. CASE s = x.s
      BY <1>11, <2>1, <3>1
    <3>2. CASE s # x.s
      <4>1. rec'[s] = rec[s] /\ login'[s] = login[s]
        BY <1>1, <1>10, <3>2 DEF Sessions
      <4>2. ASSUME NEW v \in Workers, Sure(v, s) PROVE Sure(v, s)'
        <5>1. CASE v = w
          BY <1>7, <3>2, <4>2, <5>1
        <5>2. CASE v # w
          BY <1>9, <4>2, <5>2 DEF Sure
        <5>3. QED
          BY <5>1, <5>2
      <4>3. QED
        BY <1>5, <1>11, <2>1, <4>1, <4>2 DEF TablesInv, LoginInv
    <3>3. QED
      BY <3>1, <3>2
  <2>2. QED
    BY <2>1 DEF LoginInv
<1>14. NoRowInv' /\ ClosedIsOver'
  BY <1>1, <1>5 DEF TablesInv, NoRowInv, ClosedIsOver
<1>15. RunInv'
  <2>1. \A s \in ServerSessions : s \in Sessions /\ s # x.s
    BY <1>4, SessionRecordsAssumption DEF Sessions
  <2>2. QED
    BY <1>1, <1>5, <1>10, <2>1 DEF TablesInv, RunInv
<1>16. LoginFollows'
  <2>1. ASSUME NEW s \in Sessions, rec'[s].status = "closed", login'[s] \in OpenLogin
        PROVE  \/ <<s, "open">> \in stranded' \/ run'[s] = "ending"
               \/ \E v \in Workers : (At(v, "terminate", "login") /\ Subject(v) = s)'
    <3>1. CASE <<s, "open">> \in stranded'
      BY <3>1
    <3>2. CASE <<s, "open">> \notin stranded'
      <4>1. rec[s].status = "closed" /\ login[s] \in OpenLogin
        BY <1>1, <1>10, <1>11, <2>1, <3>2
      <4>2. \/ <<s, "open">> \in stranded \/ run[s] = "ending"
            \/ \E v \in Workers : At(v, "terminate", "login") /\ Subject(v) = s
        BY <1>5, <4>1 DEF TablesInv, LoginFollows
      <4>3. ASSUME NEW v \in Workers, At(v, "terminate", "login"), Subject(v) = s
            PROVE  (At(v, "terminate", "login") /\ Subject(v) = s)'
        <5>1. task'[v] = task[v]
          BY <1>1, <1>9, <4>3
        <5>2. QED
          BY <4>3, <5>1 DEF At, Subject
      <4>4. QED
        BY <1>1, <1>11, <4>2, <4>3
    <3>3. QED
      BY <3>1, <3>2
  <2>2. QED
    BY <2>1 DEF LoginFollows
<1>17. TablesInv'
  BY <1>13, <1>14, <1>15, <1>16 DEF TablesInv
<1>18. QED
  BY <1>6, <1>7, <1>9, <1>12, <1>17, WorkerStep
-----------------------------------------------------------------------------
(* Commands, terminations and replay pages.                                 *)

\* A worker that is done, and leaves no login behind.
LEMMA DoneKeeps ==
  ASSUME RecordsInv, NEW w \in Workers, ~Reporting(w), Done(w),
         UNCHANGED <<run, login, stranded, rows>>, ~At(w, "terminate", "login"),
         rec' \in [Sessions -> Recording], NoRowInv',
         \A s \in Sessions : rec'[s].status = rec[s].status
  PROVE  RecordsInv'
<1>1. RecordsTypeOK /\ WorkerInv(w) /\ task' = [task EXCEPT ![w] = Idle]
  BY DEF RecordsInv, Done
<1>2. task'[w] = Idle
  BY <1>1, IdleSound, TaskStep
<1>3. \A s : ~Sure(w, s)
  BY <1>1, EmptySound DEF WorkerInv, OtherInv, Sure
<1>4. Len(Idle.recs) <= MaxBatch /\ Len(Idle.logins) <= MaxBatch
  BY IdleSound, EmptySound, SessionRecordsAssumption 
<1>5. /\ rows' \in [Sessions -> Nat] /\ \A s \in Sessions : rows[s] <= rows'[s]
  BY <1>1 DEF RecordsTypeOK
<1>6. WorkerInv(w)'
  BY <1>2, IdleWorker
<1>7. QED
  BY <1>1, <1>3, <1>4, <1>5, <1>6, IdleSound, QuietStep

\* The next task of a worker with commands.
LEMMA CommandsKeeps ==
  ASSUME RecordsInv, NEW w \in Workers, task[w].op = "commands",
         NEW cmds \in [Sessions -> Nat],
         task' = [task EXCEPT ![w] = [task[w] EXCEPT !.at = "count", !.cmds = cmds]],
         UNCHANGED <<run, login, stranded>>,
         rows' \in [Sessions -> Nat], \A s \in Sessions : rows[s] <= rows'[s],
         rec' \in [Sessions -> Recording], NoRowInv',
         \A s \in Sessions : rec'[s].status = rec[s].status
  PROVE  RecordsInv'
<1> DEFINE t == [task[w] EXCEPT !.at = "count", !.cmds = cmds]
<1>1. /\ RecordsTypeOK /\ WorkerInv(w) /\ task[w] \in Task
  BY DEF RecordsInv, RecordsTypeOK
<1>2. ~Reporting(w) /\ task[w].recs = <<>> /\ task[w].logins = <<>>
  BY <1>1 DEF WorkerInv, OtherInv, Reporting
<1>3. /\ t \in Task /\ t.op = "commands" /\ t.at = "count" /\ t.recs = <<>> /\ t.logins = <<>>
  BY <1>1, <1>2 DEF Task
<1>4. task' = [task EXCEPT ![w] = t]
  OBVIOUS
<1> HIDE DEF t
<1>5. task'[w] = t
  BY <1>1, <1>3, <1>4, TaskStep
<1>6. WorkerInv(w)'
  BY <1>3, <1>5 DEF WorkerInv, ReportInv, OtherInv, TerminateInv, ViewInv, Reporting
<1>7. ~At(w, "terminate", "login") /\ \A s : ~Sure(w, s)
  BY <1>2, EmptySound DEF At, Sure
<1>8. Len(t.recs) <= MaxBatch /\ Len(t.logins) <= MaxBatch
  BY <1>3, EmptySound, SessionRecordsAssumption 
<1>9. QED
  BY <1>3, <1>4, <1>6, <1>7, <1>8, QuietStep

LEMMA CreateCommandsKeeps ==
  ASSUME RecordsInv, NEW w \in Workers, CreateCommands(w)
  PROVE  RecordsInv'
<1>1. /\ task[w].op = "commands" /\ rows' = [s \in Sessions |-> rows[s] + task[w].cmds[s]]
      /\ UNCHANGED <<run, login, stranded>> /\ rec' = rec /\ Goto(w, "count")
  BY DEF CreateCommands, At
<1>2. /\ RecordsTypeOK /\ TablesInv /\ task[w] \in Task /\ task[w].cmds \in [Sessions -> Nat]
  BY DEF RecordsInv, RecordsTypeOK, Task
<1>3. task' = [task EXCEPT ![w] = [task[w] EXCEPT !.at = "count", !.cmds = task[w].cmds]]
  BY <1>1, <1>2 DEF Goto, RecordsTypeOK, Task
<1>4. rows' \in [Sessions -> Nat] /\ \A s \in Sessions : rows[s] <= rows'[s]
  BY <1>1, <1>2 DEF RecordsTypeOK
<1>5. rec' \in [Sessions -> Recording] /\ NoRowInv'
  BY <1>1, <1>2 DEF RecordsTypeOK, TablesInv, NoRowInv
<1>6. QED
  BY <1>1, <1>2, <1>3, <1>4, <1>5, CommandsKeeps

\* A worker gives up: the command rows, or the end of a recording, were refused;
\* or a page is answered.
LEMMA GiveUpKeeps ==
  ASSUME RecordsInv, NEW w \in Workers,
         RefuseCommands(w) \/ TerminateFails(w) \/ AnswerPage(w)
  PROVE  RecordsInv'
<1>1. /\ task[w].op \in {"commands", "terminate", "view"} /\ Done(w) /\ rec' = rec
      /\ ~At(w, "terminate", "login") /\ UNCHANGED <<run, login, stranded, rows>>
  BY DEF RefuseCommands, TerminateFails, AnswerPage, At, db
<1>2. ~Reporting(w)
  BY <1>1 DEF Reporting
<1>3. rec' \in [Sessions -> Recording] /\ NoRowInv'
  BY <1>1 DEF RecordsInv, RecordsTypeOK, TablesInv, NoRowInv
<1>4. QED
  BY <1>1, <1>2, <1>3, DoneKeeps

LEMMA CountCommandsKeeps ==
  ASSUME RecordsInv, NEW w \in Workers, CountCommands(w)
  PROVE  RecordsInv'
<1>1. task[w].op = "commands" /\ task[w].at = "count" /\ UNCHANGED <<run, login, stranded, rows>>
  BY DEF CountCommands, At
<1>2. /\ RecordsTypeOK /\ TablesInv /\ task[w] \in Task /\ task[w].cmds \in [Sessions -> Nat]
      /\ rec \in [Sessions -> Recording]
  BY DEF RecordsInv, RecordsTypeOK, Task
<1>3. PICK s \in Sessions :
        /\ \/ rec' = [rec EXCEPT ![s].count =
                        IF rec[s].status = "none" THEN @ ELSE @ + task[w].cmds[s]]
           \/ rec' = rec
        /\ IF [task[w].cmds EXCEPT ![s] = 0] = NoCommands THEN Done(w)
           ELSE task' = [task EXCEPT ![w].cmds = [task[w].cmds EXCEPT ![s] = 0]]
  BY DEF CountCommands
<1> DEFINE left == [task[w].cmds EXCEPT ![s] = 0]
<1>4. left \in [Sessions -> Nat]
  BY <1>2
<1>5. /\ rec' \in [Sessions -> Recording]
      /\ \A r \in Sessions : rec'[r].status = rec[r].status
      /\ \A r \in Sessions : rec'[r].text = rec[r].text
      /\ \A r \in Sessions : rec[r].status = "none" => rec'[r].count = rec[r].count
  BY <1>2, <1>3 DEF Recording
<1>6. NoRowInv'
  BY <1>2, <1>5 DEF TablesInv, NoRowInv
<1>7. CASE left = NoCommands
  <2>1. Done(w)
    BY <1>3, <1>7
  <2>2. ~Reporting(w) /\ ~At(w, "terminate", "login")
    BY <1>1 DEF Reporting, At
  <2>3. QED
    BY <1>1, <1>5, <1>6, <2>1, <2>2, DoneKeeps
<1>8. CASE left # NoCommands
  <2>1. task' = [task EXCEPT ![w] = [task[w] EXCEPT !.at = "count", !.cmds = left]]
    BY <1>1, <1>2, <1>3, <1>8 DEF RecordsTypeOK, Task
  <2>2. rows' \in [Sessions -> Nat] /\ \A r \in Sessions : rows[r] <= rows'[r]
    BY <1>1, <1>2 DEF RecordsTypeOK
  <2> HIDE DEF left
  <2>3. QED
    BY <1>1, <1>4, <1>5, <1>6, <2>1, <2>2, CommandsKeeps
<1>9. QED
  BY <1>7, <1>8

LEMMA ShowRecordingsKeeps ==
  ASSUME RecordsInv, NEW w \in Workers, ShowRecordings(w)
  PROVE  RecordsInv'
<1>1. PICK counted \in SUBSET Sessions :
        task' = [task EXCEPT ![w].at = "shown",
                             ![w].shown = [s \in Sessions |->
                                             IF s \in counted THEN rows[s] ELSE 0]]
  BY DEF ShowRecordings
<1> DEFINE page == [s \in Sessions |-> IF s \in counted THEN rows[s] ELSE 0]
           t == [task[w] EXCEPT !.at = "shown", !.shown = page]
<1>2. /\ task[w].op = "view" /\ rec' = rec /\ rows' = rows
      /\ UNCHANGED <<run, login, stranded>>
  BY DEF ShowRecordings, At, db
<1>3. RecordsTypeOK /\ WorkerInv(w) /\ task[w] \in Task /\ rows \in [Sessions -> Nat]
  BY DEF RecordsInv, RecordsTypeOK
<1>4. page \in [Sessions -> Nat]
  BY <1>3
<1>5. ~Reporting(w) /\ task[w].recs = <<>> /\ task[w].logins = <<>>
  BY <1>2, <1>3 DEF WorkerInv, OtherInv, Reporting
<1>6. task' = [task EXCEPT ![w] = t]
  BY <1>1, <1>3 DEF RecordsTypeOK
<1> HIDE DEF page
<1>7. /\ t \in Task /\ t.op = "view" /\ t.at = "shown" /\ t.recs = <<>> /\ t.logins = <<>>
      /\ t.cmds = task[w].cmds
  BY <1>2, <1>3, <1>4, <1>5 DEF Task
<1> HIDE DEF t
<1>8. task'[w] = t
  BY <1>3, <1>6, <1>7, TaskStep
<1>9. WorkerInv(w)'
  BY <1>2, <1>3, <1>7, <1>8
  DEF WorkerInv, ReportInv, OtherInv, TerminateInv, ViewInv, Reporting
<1>10. ~At(w, "terminate", "login") /\ \A s : ~Sure(w, s)
  BY <1>2, <1>5, EmptySound DEF At, Sure
<1>11. Len(t.recs) <= MaxBatch /\ Len(t.logins) <= MaxBatch
  BY <1>7, EmptySound, SessionRecordsAssumption
<1>12. /\ rows' \in [Sessions -> Nat] /\ \A s \in Sessions : rows[s] <= rows'[s]
  BY <1>2, <1>3
<1>13. rec' \in [Sessions -> Recording] /\ NoRowInv'
  BY <1>2 DEF RecordsInv, RecordsTypeOK, TablesInv, NoRowInv
<1>14. QED
  BY <1>2, <1>6, <1>7, <1>9, <1>10, <1>11, <1>12, <1>13, QuietStep

\* What the invariant says of a worker that terminates a session.
LEMMA AtTermination ==
  ASSUME RecordsInv, NEW w \in Workers, task[w].op = "terminate"
  PROVE  /\ ~Reporting(w) /\ task[w] \in Task /\ Subject(w) \in Sessions
         /\ task[w].logins = <<>> /\ task[w].at \notin {"find", "insert"}
         /\ \A s : ~Sure(w, s)
         /\ Len(task[w].recs) = 1 /\ Len(task[w].recs) <= MaxBatch
         /\ Len(task[w].logins) <= MaxBatch
         /\ rec[Subject(w)].status # "none"
         /\ task[w].at = "proxy" => Subject(w) \in ProxySessions
         /\ Subject(w) \in ProxySessions => task[w].at = "proxy" \/ run[Subject(w)] = "ended"
<1>1. /\ WorkerInv(w) /\ task[w] \in Task
      /\ Len(task[w].recs) <= MaxBatch /\ Len(task[w].logins) <= MaxBatch
  BY DEF RecordsInv, RecordsTypeOK
<1>2. ~Reporting(w) /\ task[w].logins = <<>> /\ task[w].at \notin {"find", "insert"}
  BY <1>1 DEF WorkerInv, OtherInv, Reporting
<1>3. Len(task[w].recs) = 1
  BY <1>1 DEF WorkerInv, TerminateInv
<1>4. Subject(w) \in Sessions
  BY <1>1, <1>3, ReportSound DEF Subject, Task
<1>5. \A s : ~Sure(w, s)
  BY <1>2, EmptySound DEF Sure
<1>6. QED
  BY <1>1, <1>2, <1>3, <1>4, <1>5 DEF WorkerInv, TerminateInv

\* A termination goes on to its next statement.
LEMMA GoOnSound ==
  ASSUME RecordsInv, NEW w \in Workers, task[w].op = "terminate",
         NEW at \in {"recording", "login"}, Goto(w, at), Gains, rows' \in [Sessions -> Nat],
         Subject(w) \in ProxySessions => run'[Subject(w)] = "ended"
  PROVE  /\ task' \in [Workers -> Task] /\ task'[w].op = "terminate" /\ task'[w].at = at
         /\ task'[w].recs = task[w].recs /\ task'[w].logins = <<>>
         /\ Subject(w)' = Subject(w)
         /\ \A v \in Workers : v # w => task'[v] = task[v]
         /\ WorkerInv(w)'
<1> DEFINE t == [task[w] EXCEPT !.at = at]
<1>1. /\ ~Reporting(w) /\ task[w] \in Task /\ Subject(w) \in Sessions
      /\ task[w].logins = <<>> /\ Len(task[w].recs) = 1 /\ rec[Subject(w)].status # "none"
  BY AtTermination
<1>2. task' = [task EXCEPT ![w] = t]
  BY DEF Goto, RecordsInv, RecordsTypeOK
<1>3. /\ t \in Task /\ t.op = "terminate" /\ t.at = at /\ t.recs = task[w].recs
      /\ t.logins = <<>>
  BY <1>1 DEF Task
<1> HIDE DEF t
<1>4. /\ task' \in [Workers -> Task] /\ task'[w] = t
      /\ \A v \in Workers : v # w => task'[v] = task[v]
  BY <1>2, <1>3, TaskStep DEF RecordsInv
<1>5. Subject(w)' = Subject(w)
  BY <1>3, <1>4 DEF Subject
<1>6. rec'[Subject(w)].status # "none"
  BY <1>1 DEF Gains
<1>7. WorkerInv(w)'
  BY <1>1, <1>3, <1>4, <1>5, <1>6
  DEF WorkerInv, ReportInv, OtherInv, TerminateInv, ViewInv, Reporting
<1>8. QED
  BY <1>3, <1>4, <1>5, <1>7

\* The proxy's answer.
LEMMA TerminateAtProxyKeeps ==
  ASSUME RecordsInv, NEW w \in Workers, TerminateAtProxy(w)
  PROVE  RecordsInv'
<1>1. /\ task[w].op = "terminate" /\ task[w].at = "proxy"
      /\ UNCHANGED <<login, stranded, rows>> /\ rec' = rec
  BY DEF TerminateAtProxy, At, db
<1>2. ~Reporting(w) /\ ~At(w, "terminate", "login") /\ Subject(w) \in ProxySessions
      /\ \A s : ~Sure(w, s)
  BY <1>1, AtTermination DEF At
<1>3. RecordsTypeOK /\ TablesInv
  BY DEF RecordsInv
<1>4. rec' \in [Sessions -> Recording] /\ NoRowInv' /\ rows' \in [Sessions -> Nat]
  BY <1>1, <1>3 DEF RecordsTypeOK, TablesInv, NoRowInv
<1>5. CASE run' = run /\ Done(w)
  BY <1>1, <1>2, <1>4, <1>5, DoneKeeps
<1>6. CASE run' = [run EXCEPT ![Subject(w)] = "ended"] /\ Goto(w, "recording")
  <2>1. /\ run' \in [Sessions -> Stage]
        /\ run'[Subject(w)] = "ended"
        /\ \A s \in Sessions : s # Subject(w) => run'[s] = run[s]
    BY <1>2, <1>3, <1>6 DEF RecordsTypeOK, Sessions, Stage
  <2>2. Gains
    BY <1>1, <1>3, <2>1 DEF Gains, RecordsTypeOK, Sessions
  <2>3. /\ task' \in [Workers -> Task] /\ task'[w].recs = task[w].recs
        /\ task'[w].logins = <<>>
        /\ \A v \in Workers : v # w => task'[v] = task[v]
        /\ WorkerInv(w)'
    BY <1>1, <1>4, <1>6, <2>1, <2>2, GoOnSound
  <2>4. RecordsTypeOK'
    <3>1. Len(task'[w].recs) <= MaxBatch /\ Len(task'[w].logins) <= MaxBatch
      BY <1>1, <2>3, AtTermination
    <3>2. QED
      BY <1>1, <1>3, <2>1, <2>3, <3>1 DEF RecordsTypeOK
  <2>5. TablesInv'
    <3>1. \A s \in ProxySessions :
            run'[s] # "ending" /\ (run[s] = "ended" => run'[s] = "ended")
      BY <1>3, <2>1 DEF TablesInv, RunInv, Sessions
    <3>2. \A s \in ServerSessions : run'[s] = run[s]
      BY <1>2, <2>1, SessionRecordsAssumption DEF Sessions
    <3>3. \A v \in Workers, s \in ProxySessions : Sure(v, s) => Sure(v, s)'
      <4>1. ASSUME NEW v \in Workers, NEW s \in ProxySessions, Sure(v, s) PROVE Sure(v, s)'
        <5>1. task'[v] = task[v]
          BY <1>2, <2>3, <4>1
        <5>2. QED
          BY <4>1, <5>1 DEF Sure
      <4>2. QED
        BY <4>1
    <3>4. \A v \in Workers : At(v, "terminate", "login") => task'[v] = task[v]
      BY <1>2, <2>3
    <3>5. QED
      BY <1>1, <1>3, <1>4, <3>1, <3>2, <3>3, <3>4, TablesKeep
  <2>6. QED
    BY <2>2, <2>3, <2>4, <2>5, WorkerStep
<1>7. QED
  BY <1>5, <1>6 DEF TerminateAtProxy

\* The recording is closed.
LEMMA TerminateRecordingKeeps ==
  ASSUME RecordsInv, NEW w \in Workers, TerminateRecording(w)
  PROVE  RecordsInv'
<1> DEFINE u == Subject(w)
<1>1. /\ task[w].op = "terminate" /\ task[w].at = "recording" /\ Goto(w, "login")
      /\ rec' = [rec EXCEPT ![u].status = "closed"] /\ UNCHANGED <<run, login, rows, stranded>>
  BY DEF TerminateRecording, At
<1>2. /\ u \in Sessions /\ rec[u].status # "none" /\ \A s : ~Sure(w, s)
      /\ u \in ProxySessions => run[u] = "ended"
  BY <1>1, AtTermination
<1>3. RecordsTypeOK /\ TablesInv
  BY DEF RecordsInv
<1>4. /\ rec' \in [Sessions -> Recording] /\ rec'[u].status = "closed"
      /\ \A s \in Sessions : s # u => rec'[s] = rec[s]
  BY <1>1, <1>2, <1>3 DEF RecordsTypeOK, Recording
<1>5. Gains /\ rows' \in [Sessions -> Nat]
  BY <1>1, <1>3, <1>4 DEF Gains, RecordsTypeOK
<1>6. /\ task' \in [Workers -> Task] /\ task'[w].recs = task[w].recs
      /\ task'[w].op = "terminate" /\ task'[w].at = "login"
      /\ task'[w].logins = <<>> /\ Subject(w)' = u
      /\ \A v \in Workers : v # w => task'[v] = task[v]
      /\ WorkerInv(w)'
  BY <1>1, <1>2, <1>5, GoOnSound
<1> HIDE DEF u
<1>7. RecordsTypeOK'
  <2>1. Len(task'[w].recs) <= MaxBatch /\ Len(task'[w].logins) <= MaxBatch
    BY <1>1, <1>6, AtTermination
  <2>2. QED
    BY <1>1, <1>3, <1>4, <1>6, <2>1 DEF RecordsTypeOK
<1>8. LoginInv'
  <2>1. ASSUME NEW v \in Workers, NEW s, Sure(v, s) PROVE Sure(v, s)'
    <3>1. task'[v] = task[v]
      BY <1>2, <1>6, <2>1
    <3>2. QED
      BY <2>1, <3>1 DEF Sure
  <2>2. ASSUME NEW s \in ProxySessions, rec'[s].status # "none", login'[s] = "none"
        PROVE  <<s, "missing">> \in stranded' \/ \E v \in Workers : Sure(v, s)'
    <3>1. rec'[s].status # "none" <=> rec[s].status # "none"
      BY <1>2, <1>4 DEF Sessions
    <3>2. QED
      BY <1>1, <1>3, <2>1, <2>2, <3>1 DEF TablesInv, LoginInv
  <2>3. QED
    BY <2>2 DEF LoginInv
<1>9. NoRowInv' /\ ClosedIsOver'
  BY <1>1, <1>2, <1>3, <1>4 DEF TablesInv, NoRowInv, ClosedIsOver, Sessions
<1>10. RunInv'
  BY <1>1, <1>2, <1>3, <1>4 DEF TablesInv, RunInv, Sessions
<1>11. LoginFollows'
  <2>1. ASSUME NEW s \in Sessions, rec'[s].status = "closed", login'[s] \in OpenLogin
        PROVE  \/ <<s, "open">> \in stranded' \/ run'[s] = "ending"
               \/ \E v \in Workers : (At(v, "terminate", "login") /\ Subject(v) = s)'
    <3>1. CASE s = u
      <4>1. (At(w, "terminate", "login") /\ Subject(w) = s)'
        BY <1>6, <3>1 DEF At
      <4>2. QED
        BY <4>1
    <3>2. CASE s # u
      <4>1. \/ <<s, "open">> \in stranded \/ run[s] = "ending"
            \/ \E v \in Workers : At(v, "terminate", "login") /\ Subject(v) = s
        BY <1>1, <1>3, <1>4, <2>1, <3>2 DEF TablesInv, LoginFollows
      <4>2. ASSUME NEW v \in Workers, At(v, "terminate", "login"), Subject(v) = s
            PROVE  (At(v, "terminate", "login") /\ Subject(v) = s)'
        <5>1. task'[v] = task[v]
          BY <1>1, <1>6, <4>2 DEF At
        <5>2. QED
          BY <4>2, <5>1 DEF At, Subject
      <4>3. QED
        BY <1>1, <4>1, <4>2
    <3>3. QED
      BY <3>1, <3>2
  <2>2. QED
    BY <2>1 DEF LoginFollows
<1>12. TablesInv'
  BY <1>8, <1>9, <1>10, <1>11 DEF TablesInv
<1>13. QED
  BY <1>5, <1>6, <1>7, <1>12, WorkerStep

\* The login record is closed, or its UPDATE fails.
LEMMA TerminateLoginKeeps ==
  ASSUME RecordsInv, NEW w \in Workers, TerminateLogin(w)
  PROVE  RecordsInv'
<1> DEFINE u == Subject(w)
<1>1. /\ task[w].op = "terminate" /\ Done(w) /\ UNCHANGED <<run, rec, rows>>
      /\ \/ /\ login' = [login EXCEPT ![u] = IF @ = "none" THEN @ ELSE "closed"]
            /\ stranded' = stranded
         \/ login' = login /\ stranded' = stranded \cup {<<u, "open">>}
  BY DEF TerminateLogin, At
<1>2. /\ u \in Sessions /\ rec[u].status # "none" /\ \A s : ~Sure(w, s)
  BY <1>1, AtTermination
<1>3. RecordsTypeOK /\ TablesInv
  BY DEF RecordsInv
<1>4. /\ task' \in [Workers -> Task] /\ task'[w] = Idle
      /\ \A v \in Workers : v # w => task'[v] = task[v]
  BY <1>1, <1>3, IdleSound, TaskStep DEF Done
<1>5. WorkerInv(w)' /\ Len(Idle.recs) <= MaxBatch /\ Len(Idle.logins) <= MaxBatch
  BY <1>4, IdleWorker, IdleSound, EmptySound, SessionRecordsAssumption 
<1>6. /\ login' \in [Sessions -> LoginStatus] /\ stranded \subseteq stranded'
      /\ stranded' \subseteq Sessions \X {"missing", "open"}
      /\ \A s \in Sessions : login'[s] = login[s] \/ (s = u /\ login'[s] = "closed")
      /\ \A s \in Sessions : login'[s] = "none" <=> login[s] = "none"
      /\ login'[u] \in OpenLogin => <<u, "open">> \in stranded'
  <2>1. /\ login \in [Sessions -> LoginStatus] /\ "closed" \in LoginStatus
        /\ stranded \subseteq Sessions \X {"missing", "open"}
    BY <1>3 DEF RecordsTypeOK, LoginStatus
  <2>2. CASE /\ login' = [login EXCEPT ![u] = IF @ = "none" THEN @ ELSE "closed"]
             /\ stranded' = stranded
    <3>1. login'[u] \in {"none", "closed"} /\ \A s \in Sessions : s # u => login'[s] = login[s]
      BY <1>2, <2>1, <2>2
    <3>2. login'[u] \notin OpenLogin
      BY <3>1 DEF OpenLogin
    <3>3. QED
      BY <1>2, <2>1, <2>2, <3>1, <3>2
  <2>3. CASE login' = login /\ stranded' = stranded \cup {<<u, "open">>}
    BY <1>2, <2>1, <2>3
  <2>4. QED
    BY <1>1, <2>2, <2>3
<1>7. Gains
  BY <1>1, <1>3 DEF Gains, RecordsTypeOK
<1>8. RecordsTypeOK'
  BY <1>1, <1>3, <1>4, <1>5, <1>6 DEF RecordsTypeOK
<1>9. LoginInv'
  <2>1. ASSUME NEW v \in Workers, NEW s, Sure(v, s) PROVE Sure(v, s)'
    <3>1. task'[v] = task[v]
      BY <1>2, <1>4, <2>1
    <3>2. QED
      BY <2>1, <3>1 DEF Sure
  <2>2. ASSUME NEW s \in ProxySessions, rec'[s].status # "none", login'[s] = "none"
        PROVE  <<s, "missing">> \in stranded' \/ \E v \in Workers : Sure(v, s)'
    BY <1>1, <1>3, <1>6, <2>1, <2>2 DEF TablesInv, LoginInv, Sessions
  <2>3. QED
    BY <2>2 DEF LoginInv
<1>10. NoRowInv' /\ ClosedIsOver'
  BY <1>1, <1>3 DEF TablesInv, NoRowInv, ClosedIsOver
<1>11. RunInv'
  BY <1>1, <1>3 DEF TablesInv, RunInv
<1>12. LoginFollows'
  <2>1. ASSUME NEW s \in Sessions, rec'[s].status = "closed", login'[s] \in OpenLogin
        PROVE  \/ <<s, "open">> \in stranded' \/ run'[s] = "ending"
               \/ \E v \in Workers : (At(v, "terminate", "login") /\ Subject(v) = s)'
    <3>1. CASE s = u
      BY <1>6, <2>1, <3>1
    <3>2. CASE s # u
      <4>1. \/ <<s, "open">> \in stranded \/ run[s] = "ending"
            \/ \E v \in Workers : At(v, "terminate", "login") /\ Subject(v) = s
        BY <1>1, <1>3, <1>6, <2>1, <3>2 DEF TablesInv, LoginFollows
      <4>2. ASSUME NEW v \in Workers, At(v, "terminate", "login"), Subject(v) = s
            PROVE  (At(v, "terminate", "login") /\ Subject(v) = s)'
        <5>1. task'[v] = task[v]
          BY <1>4, <3>2, <4>2
        <5>2. QED
          BY <4>2, <5>1 DEF At, Subject
      <4>3. QED
        BY <1>1, <1>6, <4>1, <4>2
    <3>3. QED
      BY <3>1, <3>2
  <2>2. QED
    BY <2>1 DEF LoginFollows
<1>13. TablesInv'
  BY <1>9, <1>10, <1>11, <1>12 DEF TablesInv
<1>14. QED
  BY <1>4, <1>5, <1>7, <1>8, <1>13, WorkerStep
-----------------------------------------------------------------------------
(* The sessions themselves.                                                 *)

LEMMA ProxyStepKeeps ==
  ASSUME RecordsInv, ProxyStep
  PROVE  RecordsInv'
<1>1. PICK s \in ProxySessions : OpenAtProxy(s) \/ CloseAtProxy(s)
  BY DEF ProxyStep
<1>2. RecordsTypeOK /\ TablesInv
  BY DEF RecordsInv
<1>3. /\ login' = login /\ stranded' = stranded /\ rows' = rows /\ rec' = rec /\ task' = task
      /\ run' = [run EXCEPT ![s] = "open"] \/ run' = [run EXCEPT ![s] = "ended"]
      /\ run[s] # "ended"
  BY <1>1 DEF OpenAtProxy, CloseAtProxy, db
<1>4. /\ run' \in [Sessions -> Stage]
      /\ run'[s] \in {"open", "ended"}
      /\ \A r \in Sessions : r # s => run'[r] = run[r]
  BY <1>2, <1>3 DEF RecordsTypeOK, Sessions, Stage
<1>5. RecordsTypeOK'
  BY <1>2, <1>3, <1>4 DEF RecordsTypeOK
<1>6. Gains
  BY <1>2, <1>3, <1>4 DEF Gains, RecordsTypeOK, Sessions
<1>7. ASSUME NEW v \in Workers PROVE WorkerInv(v)'
  <2>1. WorkerInv(v) /\ task'[v] = task[v] /\ rows' \in [Sessions -> Nat]
    BY <1>2, <1>3 DEF RecordsInv, RecordsTypeOK
  <2>2. QED
    BY <1>2, <1>6, <2>1, WorkerKeeps
<1>8. TablesInv'
  <2>1. \A r \in ProxySessions :
          run'[r] # "ending" /\ (run[r] = "ended" => run'[r] = "ended")
    BY <1>2, <1>3, <1>4 DEF TablesInv, RunInv, Sessions
  <2>2. \A r \in ServerSessions : run'[r] = run[r]
    BY <1>4, SessionRecordsAssumption DEF Sessions
  <2>3. NoRowInv'
    BY <1>2, <1>3 DEF TablesInv, NoRowInv
  <2>4. \A v \in Workers, r \in ProxySessions : Sure(v, r) => Sure(v, r)'
    BY <1>3 DEF Sure
  <2>5. QED
    BY <1>2, <1>3, <2>1, <2>2, <2>3, <2>4, TablesKeep
<1>9. QED
  BY <1>5, <1>7, <1>8 DEF RecordsInv

\* A step of the server's own session s.
LEMMA ServerFrame ==
  ASSUME RecordsInv, NEW s \in ServerSessions,
         NEW r \in Stage, NEW k \in LoginStatus, NEW x \in Recording,
         run' = [run EXCEPT ![s] = r], login' = [login EXCEPT ![s] = k],
         rec' = [rec EXCEPT ![s] = x], UNCHANGED <<rows, task>>,
         stranded' \subseteq Sessions \X {"missing", "open"}, stranded \subseteq stranded',
         rec[s].status # "none" => x.status # "none",
         x.status = "none" => x.text = FALSE /\ x.count = 0,
         r \in {"idle", "dialling", "starting"} => x.status = "none",
         x.status = "closed" /\ k \in OpenLogin =>
           \/ r = "ending" \/ <<s, "open">> \in stranded'
           \/ rec[s].status = "closed" /\ login[s] \in OpenLogin /\ run[s] # "ending"
  PROVE  RecordsInv'
<1>1. RecordsTypeOK /\ TablesInv /\ s \in Sessions /\ s \notin ProxySessions
  BY SessionRecordsAssumption DEF RecordsInv, Sessions
<1>2. /\ run' \in [Sessions -> Stage] /\ run'[s] = r
      /\ login' \in [Sessions -> LoginStatus] /\ login'[s] = k
      /\ rec' \in [Sessions -> Recording] /\ rec'[s] = x
      /\ \A u \in Sessions :
           u # s => run'[u] = run[u] /\ login'[u] = login[u] /\ rec'[u] = rec[u]
  BY <1>1 DEF RecordsTypeOK
<1>3. \A u \in ProxySessions : run'[u] = run[u] /\ login'[u] = login[u] /\ rec'[u] = rec[u]
  BY <1>1, <1>2 DEF Sessions
<1>4. RecordsTypeOK'
  BY <1>1, <1>2 DEF RecordsTypeOK
<1>5. Gains
  BY <1>1, <1>2, <1>3 DEF Gains, RecordsTypeOK
<1>6. ASSUME NEW v \in Workers PROVE WorkerInv(v)'
  <2>1. WorkerInv(v) /\ task'[v] = task[v] /\ rows' \in [Sessions -> Nat]
    BY <1>1 DEF RecordsInv, RecordsTypeOK
  <2>2. QED
    BY <1>1, <1>5, <2>1, WorkerKeeps
<1>7. LoginInv'
  BY <1>1, <1>3 DEF TablesInv, LoginInv, Sure
<1>8. NoRowInv'
  BY <1>1, <1>2 DEF TablesInv, NoRowInv
<1>9. RunInv'
  BY <1>1, <1>2, <1>3 DEF TablesInv, RunInv, Sessions
<1>10. ClosedIsOver'
  BY <1>1, <1>3 DEF TablesInv, ClosedIsOver
<1>11. LoginFollows'
  <2>1. ASSUME NEW u \in Sessions, rec'[u].status = "closed", login'[u] \in OpenLogin
        PROVE  \/ <<u, "open">> \in stranded' \/ run'[u] = "ending"
               \/ \E v \in Workers : (At(v, "terminate", "login") /\ Subject(v) = u)'
    <3>1. CASE run'[u] = "ending"
      BY <3>1
    <3>2. CASE run'[u] # "ending"
      <4>1. \/ <<u, "open">> \in stranded'
            \/ rec[u].status = "closed" /\ login[u] \in OpenLogin /\ run[u] # "ending"
        BY <1>2, <2>1, <3>2
      <4>2. \/ <<u, "open">> \in stranded'
            \/ \E v \in Workers : At(v, "terminate", "login") /\ Subject(v) = u
        BY <1>1, <4>1 DEF TablesInv, LoginFollows
      <4>3. QED
        BY <4>2 DEF At, Subject
    <3>3. QED
      BY <3>1, <3>2
  <2>2. QED
    BY <2>1 DEF LoginFollows
<1>12. QED
  BY <1>4, <1>6, <1>7, <1>8, <1>9, <1>10, <1>11 DEF RecordsInv, TablesInv

LEMMA ServerStepKeeps ==
  ASSUME RecordsInv, ServerStep
  PROVE  RecordsInv'
<1>1. PICK s \in ServerSessions :
        \/ AuditLoginStart(s) \/ AuditLoginActive(s) \/ AuditLoginFailed(s)
        \/ AuditRecording(s) \/ AuditSessionEnd(s) \/ AuditEndFails(s) \/ AuditLogout(s)
  BY DEF ServerStep
<1>2. /\ RecordsTypeOK /\ s \in Sessions /\ rec[s] \in Recording /\ login[s] \in LoginStatus
      /\ run[s] \in Stage /\ stranded \subseteq Sessions \X {"missing", "open"}
      /\ rec = [rec EXCEPT ![s] = rec[s]] /\ login = [login EXCEPT ![s] = login[s]]
  BY DEF RecordsInv, RecordsTypeOK, Sessions
<1>3. /\ run[s] \in {"idle", "dialling", "starting"} => rec[s].status = "none"
      /\ rec[s].status = "none" => rec[s].text = FALSE /\ rec[s].count = 0
  BY <1>2 DEF RecordsInv, TablesInv, RunInv, NoRowInv
<1>4. CASE AuditLoginStart(s) \/ AuditLoginActive(s) \/ AuditLoginFailed(s)
  <2>1. PICK k \in LoginStatus, r \in {"dialling", "starting", "ended"} :
          /\ login' = [login EXCEPT ![s] = k] /\ run' = [run EXCEPT ![s] = r]
          /\ rec' = rec /\ UNCHANGED <<rows, task>> /\ stranded' = stranded
          /\ run[s] \in {"idle", "dialling"}
    <3>1. "connecting" \in LoginStatus /\ "active" \in LoginStatus /\ "failed" \in LoginStatus
      BY DEF LoginStatus
    <3>2. Update(login[s], "active") \subseteq LoginStatus
          /\ Update(login[s], "failed") \subseteq LoginStatus
      BY <1>2, <3>1 DEF Update
    <3>3. CASE AuditLoginStart(s)
      BY <1>2, <3>1, <3>3 DEF AuditLoginStart
    <3>4. CASE AuditLoginActive(s)
      BY <3>2, <3>4 DEF AuditLoginActive
    <3>5. CASE AuditLoginFailed(s)
      BY <3>2, <3>5 DEF AuditLoginFailed
    <3>6. QED
      BY <1>4, <3>3, <3>4, <3>5
  <2>2. rec[s].status = "none" /\ r \in Stage
    BY <1>3, <2>1 DEF Stage
  <2>3. QED
    BY <1>2, <1>3, <2>1, <2>2, ServerFrame
<1>5. CASE AuditRecording(s)
  <2> DEFINE y == NewRecording([status |-> "active"])
  <2>1. y \in Recording /\ y.status = "active"
    BY DEF NewRecording, Recording
  <2>2. PICK x \in {rec[s], y} : rec' = [rec EXCEPT ![s] = x]
    BY <1>2, <1>5 DEF AuditRecording
  <2>3. /\ run' = [run EXCEPT ![s] = "open"] /\ login' = login
        /\ UNCHANGED <<rows, task>> /\ stranded' = stranded /\ run[s] = "starting"
    BY <1>5 DEF AuditRecording
  <2> HIDE DEF y
  <2>4. x \in Recording /\ x.status \in {"none", "active"} /\ "open" \in Stage
    BY <1>2, <1>3, <2>1, <2>2, <2>3 DEF Stage
  <2>5. /\ x.status = "none" => x.text = FALSE /\ x.count = 0
        /\ rec[s].status = "none"
    BY <1>3, <2>1, <2>2, <2>3
  <2>6. QED
    BY <1>2, <2>2, <2>3, <2>4, <2>5, ServerFrame
<1>6. CASE AuditSessionEnd(s)
  <2> DEFINE x == [rec[s] EXCEPT !.status = "closed", !.text = TRUE]
  <2>1. x \in Recording /\ x.status = "closed" /\ "ending" \in Stage
    BY <1>2 DEF Recording, Stage
  <2>2. /\ run' = [run EXCEPT ![s] = "ending"] /\ rec' = [rec EXCEPT ![s] = x]
        /\ login' = login /\ UNCHANGED <<rows, task>> /\ stranded' = stranded
    BY <1>2, <1>6 DEF AuditSessionEnd, RecordsTypeOK
  <2> HIDE DEF x
  <2>3. QED
    BY <1>2, <2>1, <2>2, ServerFrame
<1>7. CASE AuditEndFails(s)
  <2>1. /\ run' = [run EXCEPT ![s] = "ended"] /\ login' = login /\ rec' = rec
        /\ UNCHANGED <<rows, task>> /\ stranded' = stranded /\ run[s] = "open"
    BY <1>7 DEF AuditEndFails, db
  <2>2. "ended" \in Stage
    BY DEF Stage
  <2>3. QED
    BY <1>2, <1>3, <2>1, <2>2, ServerFrame
<1>8. CASE AuditLogout(s)
  <2>1. PICK k \in Update(login[s], "completed") :
          /\ login' = [login EXCEPT ![s] = k]
          /\ stranded' = IF k \in OpenLogin THEN stranded \cup {<<s, "open">>} ELSE stranded
    BY <1>8 DEF AuditLogout
  <2>2. /\ run' = [run EXCEPT ![s] = "ended"] /\ rec' = rec /\ UNCHANGED <<rows, task>>
    BY <1>8 DEF AuditLogout
  <2>3. k \in LoginStatus /\ "ended" \in Stage
    BY <1>2, <2>1 DEF Update, LoginStatus, Stage
  <2>4. /\ stranded' \subseteq Sessions \X {"missing", "open"} /\ stranded \subseteq stranded'
        /\ k \in OpenLogin => <<s, "open">> \in stranded'
    BY <1>2, <2>1
  <2>5. QED
    BY <1>2, <1>3, <2>1, <2>2, <2>3, <2>4, ServerFrame
<1>9. QED
  BY <1>1, <1>4, <1>5, <1>6, <1>7, <1>8

LEMMA RecordsStart ==
  ASSUME RecordsInit
  PROVE  RecordsInv
<1>1. \A w \in Workers : task[w] = Idle
  BY DEF RecordsInit
<1>2. RecordsTypeOK
  <2>1. Len(Idle.recs) <= MaxBatch /\ Len(Idle.logins) <= MaxBatch
    BY IdleSound, EmptySound, SessionRecordsAssumption 
  <2>2. QED
    BY <1>1, <2>1, IdleSound DEF RecordsInit, RecordsTypeOK, Recording, LoginStatus,
       NoCommands, Stage
<1>3. \A w \in Workers : WorkerInv(w)
  BY <1>1, IdleSound DEF WorkerInv, ReportInv, OtherInv, TerminateInv, ViewInv, Reporting
<1>4. \A s \in Sessions :
        /\ run[s] = "idle" /\ rec[s].status = "none" /\ rec[s].text = FALSE
        /\ rec[s].count = 0 /\ login[s] = "none"
  BY DEF RecordsInit
<1>5. TablesInv
  BY <1>4 DEF TablesInv, LoginInv, NoRowInv, RunInv, ClosedIsOver, LoginFollows, Sessions,
                OpenLogin
<1>6. QED
  BY <1>2, <1>3, <1>5 DEF RecordsInv

LEMMA RecordsStep ==
  ASSUME RecordsInv, CountsRows, [RecordsNext]_recordsVars
  PROVE  RecordsInv'
<1>1. ASSUME NEW w \in Workers, Serve(w) PROVE RecordsInv'
  BY <1>1, FindKeeps, CreateRecordingKeeps, RefuseRecordingKeeps, CreateLoginKeeps,
     CreateCommandsKeeps, GiveUpKeeps, CountCommandsKeeps, TerminateAtProxyKeeps,
     TerminateRecordingKeeps, TerminateLoginKeeps, ShowRecordingsKeeps DEF Serve
<1>2. CASE UNCHANGED recordsVars
  <2>1. /\ run' = run /\ rec' = rec /\ login' = login /\ rows' = rows /\ task' = task
        /\ stranded' = stranded
    BY <1>2 DEF recordsVars, db
  <2>2. RecordsTypeOK' /\ Gains
    BY <2>1 DEF RecordsInv, RecordsTypeOK, Gains
  <2>3. ASSUME NEW v \in Workers PROVE WorkerInv(v)'
    BY <2>1, <2>2, WorkerKeeps DEF RecordsInv, RecordsTypeOK
  <2>4. TablesInv'
    BY <2>1 DEF RecordsInv, TablesInv, LoginInv, NoRowInv, RunInv, ClosedIsOver,
                LoginFollows, Sure, At, Subject
  <2>5. QED
    BY <2>2, <2>3, <2>4 DEF RecordsInv
<1>3. QED
  BY <1>1, <1>2, ReceiveKeeps, ProxyStepKeeps, ServerStepKeeps DEF RecordsNext

-----------------------------------------------------------------------------
(* The command counts.  Two batches of one session may wait to be counted at *)
(* once, so that a counter has room for the SUM of what the workers still    *)
(* have to count.  The sum is a running total along an enumeration of the    *)
(* workers, that need not be exact: it only has to leave room for each.      *)

\* What worker w has inserted for s and still has to count.
Owed(w, s) == IF At(w, "commands", "count") THEN task[w].cmds[s] ELSE 0

\* acc[k] has room for the first k of the amounts due.
Covers(acc, n, due) ==
  /\ acc \in [0 .. n -> Nat]
  /\ \A i, j \in 0 .. n : i <= j => acc[i] <= acc[j]
  /\ \A k \in 1 .. n : acc[k - 1] + due[k] <= acc[k]

\* Counter c can take all of the amounts due and stay within r.
Room(n, due, c, r) == \E acc : Covers(acc, n, due) /\ c + acc[n] <= r

CountInv(n, e) ==
  \A s \in Sessions :
    Room(n, [k \in 1 .. n |-> Owed(e[k], s)], rec[s].count, rows[s])

\* Less may be due, a counter may be lower and there may be more rows.
LEMMA RoomStays ==
  ASSUME NEW n \in Nat, NEW due \in [1 .. n -> Nat], NEW less \in [1 .. n -> Nat],
         NEW c \in Nat, NEW r \in Nat, NEW d \in Nat, NEW q \in Nat,
         Room(n, due, c, r), \A k \in 1 .. n : less[k] <= due[k], d <= c, r <= q
  PROVE  Room(n, less, d, q)
<1>1. PICK acc : Covers(acc, n, due) /\ c + acc[n] <= r
  BY DEF Room
<1>2. acc \in [0 .. n -> Nat] /\ acc[n] \in Nat
  BY <1>1 DEF Covers
<1>3. ASSUME NEW k \in 1 .. n PROVE acc[k - 1] + less[k] <= acc[k]
  <2>1. acc[k - 1] + due[k] <= acc[k] /\ less[k] <= due[k] /\ k - 1 \in 0 .. n /\ k \in 0 .. n
    BY <1>1 DEF Covers
  <2>2. acc[k - 1] \in Nat /\ acc[k] \in Nat /\ less[k] \in Nat /\ due[k] \in Nat
    BY <1>2, <2>1
  <2>3. QED
    BY <2>1, <2>2
<1>4. Covers(acc, n, less) /\ d + acc[n] <= q
  BY <1>1, <1>2, <1>3 DEF Covers
<1>5. QED
  BY <1>4 DEF Room

\* The arithmetic of the next two lemmas.
LEMMA Shifted ==
  ASSUME NEW p \in Nat, NEW m \in Nat, NEW q \in Nat, NEW x \in Nat, p + m <= q
  PROVE  (p + x) + m <= q + x /\ (p - x) + m <= q - x
OBVIOUS

LEMMA ShiftedPair ==
  ASSUME NEW p \in Nat, NEW q \in Nat, NEW x \in Nat, p <= q
  PROVE  p - x <= q - x
OBVIOUS

LEMMA ShiftedPast ==
  ASSUME NEW p \in Nat, NEW q \in Nat, NEW lo \in Nat, NEW hi \in Nat,
         NEW d \in Nat, NEW l \in Nat, NEW x \in Nat,
         p <= lo, lo + d <= hi, hi <= q, d = l + x
  PROVE  p <= q - x
OBVIOUS

\* Rows inserted: as many more are due of one worker.
LEMMA RoomGrows ==
  ASSUME NEW n \in Nat, NEW due \in [1 .. n -> Nat], NEW more \in [1 .. n -> Nat],
         NEW c \in Nat, NEW r \in Nat, NEW j \in 1 .. n, NEW x \in Nat,
         Room(n, due, c, r), more[j] = due[j] + x,
         \A k \in 1 .. n : k # j => more[k] = due[k]
  PROVE  Room(n, more, c, r + x)
<1>1. PICK acc : Covers(acc, n, due) /\ c + acc[n] <= r
  BY DEF Room
<1>2. acc \in [0 .. n -> Nat] /\ acc[n] \in Nat
  BY <1>1 DEF Covers
<1> DEFINE a == [k \in 0 .. n |-> IF k >= j THEN acc[k] + x ELSE acc[k]]
<1>3. /\ a \in [0 .. n -> Nat]
      /\ \A k \in 0 .. n : a[k] = IF k >= j THEN acc[k] + x ELSE acc[k]
  BY <1>2
<1> HIDE DEF a
<1>4. ASSUME NEW i \in 0 .. n, NEW k \in 0 .. n, i <= k PROVE a[i] <= a[k]
  <2>1. acc[i] <= acc[k] /\ acc[i] \in Nat /\ acc[k] \in Nat
    BY <1>1, <1>2, <1>4 DEF Covers
  <2>2. CASE i >= j
    <3>1. k >= j
      BY <1>4, <2>2
    <3>2. a[i] = acc[i] + x /\ a[k] = acc[k] + x
      BY <1>3, <2>2, <3>1
    <3>3. QED
      BY <2>1, <3>2
  <2>3. CASE ~(i >= j)
    <3>1. a[i] = acc[i] /\ a[k] \in {acc[k], acc[k] + x}
      BY <1>3, <2>3
    <3>2. QED
      BY <2>1, <3>1
  <2>4. QED
    BY <2>2, <2>3
<1>5. ASSUME NEW k \in 1 .. n PROVE a[k - 1] + more[k] <= a[k]
  <2>1. acc[k - 1] + due[k] <= acc[k] /\ k - 1 \in 0 .. n /\ k \in 0 .. n
    BY <1>1 DEF Covers
  <2>2. acc[k - 1] \in Nat /\ acc[k] \in Nat /\ more[k] \in Nat /\ due[k] \in Nat
    BY <1>2, <2>1
  <2>3. CASE k = j
    BY <1>3, <2>1, <2>2, <2>3
  <2>4. CASE k < j
    <3>1. a[k] = acc[k] /\ a[k - 1] = acc[k - 1] /\ more[k] = due[k]
      BY <1>3, <2>1, <2>4
    <3>2. QED
      BY <2>1, <3>1
  <2>5. CASE k > j
    <3>1. k - 1 >= j
      BY <2>5
    <3>2. a[k] = acc[k] + x /\ a[k - 1] = acc[k - 1] + x /\ more[k] = due[k]
      BY <1>3, <2>1, <2>5, <3>1
    <3>3. (acc[k - 1] + x) + due[k] <= acc[k] + x
      BY <2>1, <2>2, Shifted
    <3>4. QED
      BY <3>2, <3>3
  <2>6. QED
    BY <2>3, <2>4, <2>5
<1>6. c + a[n] <= r + x
  BY <1>1, <1>2, <1>3
<1>7. Covers(a, n, more)
  BY <1>3, <1>4, <1>5 DEF Covers
<1>8. QED
  BY <1>6, <1>7 DEF Room

\* Rows counted: as many fewer are due of one worker.
LEMMA RoomShrinks ==
  ASSUME NEW n \in Nat, NEW due \in [1 .. n -> Nat], NEW less \in [1 .. n -> Nat],
         NEW c \in Nat, NEW r \in Nat, NEW j \in 1 .. n, NEW x \in Nat,
         Room(n, due, c, r), due[j] = less[j] + x,
         \A k \in 1 .. n : k # j => less[k] = due[k]
  PROVE  Room(n, less, c + x, r)
<1>1. PICK acc : Covers(acc, n, due) /\ c + acc[n] <= r
  BY DEF Room
<1>2. acc \in [0 .. n -> Nat] /\ acc[n] \in Nat
  BY <1>1 DEF Covers
<1>3. acc[j - 1] + due[j] <= acc[j] /\ acc[j - 1] \in Nat /\ acc[j] \in Nat
  BY <1>1, <1>2 DEF Covers
<1>4. ASSUME NEW i \in 0 .. n
      PROVE  /\ acc[i] \in Nat
             /\ i >= j => acc[i] >= acc[j]
             /\ i < j => acc[i] <= acc[j - 1]
  <2>1. acc[i] \in Nat /\ j \in 0 .. n /\ j - 1 \in 0 .. n
    BY <1>2
  <2>2. CASE i >= j
    BY <1>1, <2>1, <2>2 DEF Covers
  <2>3. CASE i < j
    <3>1. i <= j - 1
      BY <2>3
    <3>2. QED
      BY <1>1, <2>1, <2>3, <3>1 DEF Covers
  <2>4. QED
    BY <2>1, <2>2, <2>3
<1> DEFINE a == [k \in 0 .. n |-> IF k >= j THEN acc[k] - x ELSE acc[k]]
<1>5. a \in [0 .. n -> Nat]
  <2>1. ASSUME NEW k \in 0 .. n PROVE a[k] \in Nat
    <3>1. acc[k] \in Nat /\ (k >= j => acc[k] >= acc[j])
      BY <1>4
    <3>2. acc[j] >= x /\ acc[j] \in Nat
      <4>1. due[j] >= x /\ due[j] \in Nat /\ less[j] \in Nat
        OBVIOUS
      <4>2. QED
        BY <1>3, <4>1
    <3>3. CASE k >= j
      <4>1. \A u, v, y \in Nat : u >= v /\ v >= y => u - y \in Nat
        OBVIOUS
      <4>2. acc[k] >= acc[j]
        BY <3>1, <3>3
      <4>3. acc[k] - x \in Nat
        BY <3>1, <3>2, <4>1, <4>2
      <4>4. a[k] = acc[k] - x
        BY <3>3
      <4>5. QED
        BY <4>3, <4>4
    <3>4. CASE ~(k >= j)
      <4>1. a[k] = acc[k]
        BY <3>4
      <4>2. QED
        BY <3>1, <4>1
    <3>5. QED
      BY <3>3, <3>4
  <2>2. QED
    BY <2>1
<1>6. \A k \in 0 .. n : a[k] = IF k >= j THEN acc[k] - x ELSE acc[k]
  OBVIOUS
<1> HIDE DEF a
<1>7. ASSUME NEW i \in 0 .. n, NEW k \in 0 .. n, i <= k PROVE a[i] <= a[k]
  <2>1. acc[i] <= acc[k]
    BY <1>1, <1>7 DEF Covers
  <2>2. CASE i >= j
    <3>1. k >= j /\ acc[i] \in Nat /\ acc[k] \in Nat
      BY <1>4, <1>7, <2>2
    <3>2. a[i] = acc[i] - x /\ a[k] = acc[k] - x
      BY <1>6, <2>2, <3>1
    <3>3. acc[i] - x <= acc[k] - x
      BY <2>1, <3>1, ShiftedPair
    <3>4. QED
      BY <3>2, <3>3
  <2>3. CASE i < j /\ k >= j
    <3>1. a[i] = acc[i] /\ a[k] = acc[k] - x
      BY <1>6, <2>3
    <3>2. acc[i] <= acc[j - 1] /\ acc[k] >= acc[j] /\ acc[i] \in Nat /\ acc[k] \in Nat
      BY <1>4, <2>3
    <3>3. less[j] \in Nat /\ due[j] \in Nat
      OBVIOUS
    <3>4. acc[i] <= acc[k] - x
      BY <1>3, <3>2, <3>3, ShiftedPast
    <3>5. QED
      BY <3>1, <3>4
  <2>4. CASE k < j
    <3>1. a[i] = acc[i] /\ a[k] = acc[k]
      BY <1>6, <1>7, <2>4
    <3>2. QED
      BY <2>1, <3>1
  <2>5. QED
    BY <2>2, <2>3, <2>4
<1>8. ASSUME NEW k \in 1 .. n PROVE a[k - 1] + less[k] <= a[k]
  <2>1. acc[k - 1] + due[k] <= acc[k] /\ k - 1 \in 0 .. n /\ k \in 0 .. n
    BY <1>1 DEF Covers
  <2>2. acc[k - 1] \in Nat /\ acc[k] \in Nat /\ less[k] \in Nat /\ due[k] \in Nat
    BY <1>2, <2>1
  <2>3. CASE k = j
    BY <1>6, <2>1, <2>2, <2>3
  <2>4. CASE k < j
    <3>1. a[k] = acc[k] /\ a[k - 1] = acc[k - 1] /\ less[k] = due[k]
      BY <1>6, <2>1, <2>4
    <3>2. QED
      BY <2>1, <3>1
  <2>5. CASE k > j
    <3>1. k - 1 >= j
      BY <2>5
    <3>2. a[k] = acc[k] - x /\ a[k - 1] = acc[k - 1] - x /\ less[k] = due[k]
      BY <1>6, <2>1, <2>5, <3>1
    <3>3. (acc[k - 1] - x) + due[k] <= acc[k] - x
      BY <2>1, <2>2, Shifted
    <3>4. QED
      BY <3>2, <3>3
  <2>6. QED
    BY <2>3, <2>4, <2>5
<1>9. c + x + a[n] <= r
  BY <1>1, <1>2, <1>6
<1>10. Covers(a, n, less)
  BY <1>5, <1>7, <1>8 DEF Covers
<1>11. QED
  BY <1>9, <1>10 DEF Room

\* With room for everything due, no counter is ahead of its rows.
LEMMA RoomCounts ==
  ASSUME NEW n \in Nat, NEW e, RecordsTypeOK, CountInv(n, e)
  PROVE  CountsRows
<1>1. SUFFICES ASSUME NEW s \in Sessions PROVE rec[s].count <= rows[s]
  BY DEF CountsRows
<1>2. rec[s].count \in Nat /\ rows[s] \in Nat
  BY DEF RecordsTypeOK, Recording
<1>3. PICK acc : Covers(acc, n, [k \in 1 .. n |-> Owed(e[k], s)])
                 /\ rec[s].count + acc[n] <= rows[s]
  BY DEF CountInv, Room
<1>4. acc[n] \in Nat
  BY <1>3 DEF Covers
<1>5. QED
  BY <1>2, <1>3, <1>4

-----------------------------------------------------------------------------
(* Every step leaves room.                                                  *)

\* The workers in some order.
Enumerates(n, e) ==
  /\ n \in Nat /\ e \in [1 .. n -> Workers]
  /\ \A i, j \in 1 .. n : e[i] = e[j] => i = j
  /\ \A w \in Workers : \E j \in 1 .. n : e[j] = w

LEMMA WorkersInOrder == \E n, e : Enumerates(n, e)
<1>1. IsFiniteSet(Workers)
  BY SessionRecordsAssumption
<1>2. PICK n \in Nat : ExistsBijection(1 .. n, Workers)
  BY <1>1, FS_NatBijection
<1>3. PICK e : e \in Bijection(1 .. n, Workers)
  BY <1>2 DEF ExistsBijection
<1>4. Enumerates(n, e)
  BY <1>3, Fun_BijectionProperties DEF Enumerates
<1>5. QED
  BY <1>4

LEMMA OwedSound ==
  ASSUME NEW n, NEW e, Enumerates(n, e), RecordsTypeOK, NEW s \in Sessions
  PROVE  /\ [k \in 1 .. n |-> Owed(e[k], s)] \in [1 .. n -> Nat]
         /\ rec[s].count \in Nat /\ rows[s] \in Nat
         /\ \A w \in Workers : Owed(w, s) \in Nat
<1>1. \A w \in Workers : Owed(w, s) \in Nat
  BY DEF RecordsTypeOK, Task, Owed
<1>2. QED
  BY <1>1 DEF Enumerates, RecordsTypeOK, Recording

\* Nothing is counted, and no worker owes more.
LEMMA CalmKeepsRoom ==
  ASSUME NEW n, NEW e, Enumerates(n, e), RecordsTypeOK, RecordsTypeOK', NEW s \in Sessions,
         Room(n, [k \in 1 .. n |-> Owed(e[k], s)], rec[s].count, rows[s]),
         rec'[s].count <= rec[s].count, rows[s] <= rows'[s],
         \A w \in Workers : Owed(w, s)' <= Owed(w, s)
  PROVE  Room(n, [k \in 1 .. n |-> Owed(e[k], s)'], rec'[s].count, rows'[s])
<1> DEFINE due == [k \in 1 .. n |-> Owed(e[k], s)]
           less == [k \in 1 .. n |-> Owed(e[k], s)']
<1>1. /\ n \in Nat /\ due \in [1 .. n -> Nat] /\ less \in [1 .. n -> Nat]
      /\ rec[s].count \in Nat /\ rows[s] \in Nat /\ rec'[s].count \in Nat /\ rows'[s] \in Nat
  BY OwedSound DEF Enumerates, RecordsTypeOK, Recording, Owed, Task, At
<1>2. \A k \in 1 .. n : less[k] <= due[k]
  BY DEF Enumerates
<1> DEFINE c == rec[s].count  r == rows[s]  d == rec'[s].count  q == rows'[s]
<1>3. /\ Room(n, due, c, r) /\ c \in Nat /\ d \in Nat /\ r \in Nat /\ q \in Nat
      /\ d <= c /\ r <= q
  BY <1>1
<1> HIDE DEF due, less, c, d, r, q
<1>4. Room(n, less, d, q)
  BY <1>1, <1>2, <1>3, RoomStays
<1>5. QED
  BY <1>4 DEF less, d, q

LEMMA OwedSoundAfter ==
  ASSUME NEW n, NEW e, Enumerates(n, e), RecordsTypeOK', NEW s \in Sessions
  PROVE  /\ [k \in 1 .. n |-> Owed(e[k], s)'] \in [1 .. n -> Nat]
         /\ rec'[s].count \in Nat /\ rows'[s] \in Nat
<1>1. \A w \in Workers : Owed(w, s)' \in Nat
  BY DEF RecordsTypeOK, Task, Owed
<1>2. QED
  BY <1>1 DEF Enumerates, RecordsTypeOK, Recording

\* Worker w inserts its rows and owes as many.
LEMMA InsertKeepsRoom ==
  ASSUME NEW n, NEW e, Enumerates(n, e), RecordsTypeOK, RecordsTypeOK', CountInv(n, e),
         NEW w \in Workers, CreateCommands(w), NEW s \in Sessions
  PROVE  Room(n, [k \in 1 .. n |-> Owed(e[k], s)'], rec'[s].count, rows'[s])
<1> DEFINE due == [k \in 1 .. n |-> Owed(e[k], s)]
           more == [k \in 1 .. n |-> Owed(e[k], s)']
           c == rec[s].count
           r == rows[s]
           x == task[w].cmds[s]
<1>1. /\ n \in Nat /\ due \in [1 .. n -> Nat] /\ more \in [1 .. n -> Nat]
      /\ c \in Nat /\ r \in Nat
  <2>1. n \in Nat
    BY DEF Enumerates
  <2>2. due \in [1 .. n -> Nat] /\ c \in Nat /\ r \in Nat
    BY OwedSound
  <2>3. more \in [1 .. n -> Nat]
    BY OwedSoundAfter
  <2>4. QED
    BY <2>1, <2>2, <2>3
<1>8. x \in Nat
  BY DEF RecordsTypeOK, Task
<1>2. /\ rec'[s].count = c /\ rows'[s] = r + x
      /\ Owed(w, s) = 0 /\ Owed(w, s)' = x
      /\ \A v \in Workers : v # w => Owed(v, s)' = Owed(v, s)
  BY DEF CreateCommands, Goto, At, Owed, RecordsTypeOK, Task
<1>3. PICK j \in 1 .. n : e[j] = w
  BY DEF Enumerates
<1>4. more[j] = due[j] + x /\ \A k \in 1 .. n : k # j => more[k] = due[k]
  <2>1. \A k \in 1 .. n : e[k] \in Workers /\ (k # j => e[k] # w)
    BY <1>3 DEF Enumerates
  <2>2. more[j] = x /\ due[j] = 0
    BY <1>2, <1>3
  <2>3. QED
    BY <1>1, <1>2, <2>1, <2>2
<1>5. Room(n, due, c, r)
  BY DEF CountInv
<1> HIDE DEF due, more, c, r, x
<1>6. Room(n, more, c, r + x)
  BY <1>1, <1>8, <1>4, <1>5, RoomGrows
<1>7. QED
  BY <1>2, <1>6 DEF more

\* Worker w counts its rows of s and owes none of them any more.
LEMMA CountKeepsRoom ==
  ASSUME NEW n, NEW e, Enumerates(n, e), RecordsTypeOK, RecordsTypeOK', CountInv(n, e),
         NEW w \in Workers, NEW s \in Sessions, NEW x \in Nat,
         rec'[s].count = rec[s].count + x, rows' = rows,
         Owed(w, s) = x, Owed(w, s)' = 0,
         \A v \in Workers : v # w => Owed(v, s)' = Owed(v, s)
  PROVE  Room(n, [k \in 1 .. n |-> Owed(e[k], s)'], rec'[s].count, rows'[s])
<1> DEFINE due == [k \in 1 .. n |-> Owed(e[k], s)]
           less == [k \in 1 .. n |-> Owed(e[k], s)']
           c == rec[s].count
           r == rows[s]
<1>1. /\ n \in Nat /\ due \in [1 .. n -> Nat] /\ less \in [1 .. n -> Nat]
      /\ c \in Nat /\ r \in Nat
  <2>1. n \in Nat
    BY DEF Enumerates
  <2>2. due \in [1 .. n -> Nat] /\ c \in Nat /\ r \in Nat
    BY OwedSound
  <2>3. less \in [1 .. n -> Nat]
    BY OwedSoundAfter
  <2>4. QED
    BY <2>1, <2>2, <2>3
<1>2. PICK j \in 1 .. n : e[j] = w
  BY DEF Enumerates
<1>3. due[j] = less[j] + x /\ \A k \in 1 .. n : k # j => less[k] = due[k]
  <2>1. \A k \in 1 .. n : e[k] \in Workers /\ (k # j => e[k] # w)
    BY <1>2 DEF Enumerates
  <2>2. less[j] = 0 /\ due[j] = x
    BY <1>2
  <2>3. QED
    BY <1>1, <2>1, <2>2
<1>4. Room(n, due, c, r)
  BY DEF CountInv
<1>7. rec'[s].count = c + x /\ rows'[s] = r
  OBVIOUS
<1> HIDE DEF due, less, c, r
<1>5. Room(n, less, c + x, r)
  BY <1>1, <1>3, <1>4, RoomShrinks
<1>6. QED
  BY <1>5, <1>7 DEF less

LEMMA CountCommandsKeepsRoom ==
  ASSUME NEW n, NEW e, Enumerates(n, e), RecordsTypeOK, RecordsTypeOK', CountInv(n, e),
         NEW w \in Workers, CountCommands(w), NEW s \in Sessions
  PROVE  Room(n, [k \in 1 .. n |-> Owed(e[k], s)'], rec'[s].count, rows'[s])
<1>1. PICK r \in Sessions :
        /\ \/ rec' = [rec EXCEPT ![r].count =
                        IF rec[r].status = "none" THEN @ ELSE @ + task[w].cmds[r]]
           \/ rec' = rec
        /\ IF [task[w].cmds EXCEPT ![r] = 0] = NoCommands THEN Done(w)
           ELSE task' = [task EXCEPT ![w].cmds = [task[w].cmds EXCEPT ![r] = 0]]
  BY DEF CountCommands
<1>2. /\ rows' = rows /\ At(w, "commands", "count") /\ Owed(w, s) = task[w].cmds[s]
      /\ task[w] \in Task /\ task[w].cmds \in [Sessions -> Nat] /\ rows[s] \in Nat
      /\ rec[s].count \in Nat
  BY DEF CountCommands, Owed, RecordsTypeOK, Task, Recording
<1>3. /\ \A v \in Workers : v # w => task'[v] = task[v]
      /\ \/ task'[w] = Idle
         \/ task'[w].cmds = [task[w].cmds EXCEPT ![r] = 0]
  <2> DEFINE left == [task[w].cmds EXCEPT ![r] = 0]
  <2>1. CASE left = NoCommands
    BY <1>1, <2>1 DEF Done, RecordsTypeOK
  <2>2. CASE left # NoCommands
    <3>1. task' = [task EXCEPT ![w].cmds = left]
      BY <1>1, <2>2
    <3> HIDE DEF left
    <3>2. (\A v \in Workers : v # w => task'[v] = task[v]) /\ task'[w].cmds = left
      BY <1>2, <3>1 DEF RecordsTypeOK, Task
    <3>3. QED
      BY <3>2 DEF left
  <2>3. QED
    BY <2>1, <2>2
<1>4. \A v \in Workers : v # w => Owed(v, s)' = Owed(v, s)
  BY <1>3 DEF Owed, At
<1>5. Owed(w, s)' <= Owed(w, s) /\ (s = r => Owed(w, s)' = 0)
  <2>1. CASE task'[w] = Idle
    BY <1>2, <2>1, IdleSound DEF Owed, At
  <2>2. CASE task'[w].cmds = [task[w].cmds EXCEPT ![r] = 0]
    <3>1. task'[w].cmds[s] = IF s = r THEN 0 ELSE task[w].cmds[s]
      BY <1>2, <2>2
    <3>2. QED
      BY <1>2, <3>1 DEF Owed
  <2>3. QED
    BY <1>3, <2>1, <2>2
<1>6. CASE s = r /\ rec[r].status # "none" /\ rec' # rec
  <2>1. rec'[s].count = rec[s].count + task[w].cmds[s] /\ task[w].cmds[s] \in Nat
    BY <1>1, <1>2, <1>6 DEF RecordsTypeOK, Recording
  <2>2. QED
    BY <1>2, <1>4, <1>5, <1>6, <2>1, CountKeepsRoom
<1>7. CASE ~(s = r /\ rec[r].status # "none" /\ rec' # rec)
  <2>1. rec'[s].count = rec[s].count
    BY <1>1, <1>7 DEF RecordsTypeOK, Recording
  <2>2. rec'[s].count <= rec[s].count /\ rows[s] <= rows'[s]
    BY <1>2, <2>1
  <2>3. \A v \in Workers : Owed(v, s)' <= Owed(v, s)
    BY <1>4, <1>5, OwedSound
  <2>4. Room(n, [k \in 1 .. n |-> Owed(e[k], s)], rec[s].count, rows[s])
    BY DEF CountInv
  <2>5. QED
    BY <2>2, <2>3, <2>4, CalmKeepsRoom
<1>8. QED
  BY <1>6, <1>7

\* What a worker does besides inserting and counting commands.
Other(w) ==
  \/ FindRecording(w) \/ CreateRecording(w) \/ RefuseRecording(w)
  \/ FindLogin(w) \/ CreateLogin(w) \/ RefuseLogin(w) \/ RefuseCommands(w)
  \/ TerminateAtProxy(w) \/ TerminateRecording(w) \/ TerminateFails(w)
  \/ TerminateLogin(w) \/ ShowRecordings(w) \/ AnswerPage(w)

\* A worker takes up a task with nothing to count, or goes on with one.
LEMMA CalmServe ==
  ASSUME RecordsInv, NEW w \in Workers,
         Receive(w) \/ Other(w)
  PROVE  /\ \A v \in Workers : v # w => task'[v] = task[v]
         /\ ~At(w, "commands", "count")' /\ rows' = rows
<1>1. /\ RecordsTypeOK /\ task \in [Workers -> Task] /\ task[w] \in Task
  BY DEF RecordsInv, RecordsTypeOK
<1> DEFINE Calm == /\ \A v \in Workers : v # w => task'[v] = task[v]
                   /\ ~(task'[w].op = "commands" /\ task'[w].at = "count")
<1>2. ASSUME Done(w) PROVE Calm
  BY <1>1, <1>2, IdleSound DEF Done
<1>3. ASSUME PastRecording(w) PROVE Calm
  BY <1>1, <1>3 DEF PastRecording, Task
<1>4. ASSUME PastLogin(w) PROVE Calm
  <2>1. CASE Len(task[w].logins) = 1
    BY <1>2, <1>4, <2>1 DEF PastLogin
  <2>2. CASE Len(task[w].logins) # 1
    BY <1>1, <1>4, <2>2 DEF PastLogin, Task
  <2>3. QED
    BY <2>1, <2>2
<1>5. ASSUME NEW at \in {"insert", "recording", "login"}, Goto(w, at) PROVE Calm
  BY <1>1, <1>5 DEF Goto, Task
<1>6. ASSUME NEW t, Take(w, t), ~(t.op = "commands" /\ t.at = "count") PROVE Calm
  BY <1>1, <1>6 DEF Take
<1> HIDE DEF Calm
<1>7. CASE Receive(w)
  <2>1. ASSUME NEW o, NEW at, NEW p, NEW q, ~(o = "commands" /\ at = "count"),
               Take(w, [Idle EXCEPT !.op = o, !.at = at, !.recs = p, !.logins = q])
        PROVE  Calm
    <3> DEFINE t == [Idle EXCEPT !.op = o, !.at = at, !.recs = p, !.logins = q]
    <3>1. t.op = o /\ t.at = at /\ Take(w, t)
      BY <2>1 DEF Idle
    <3> HIDE DEF t
    <3>2. QED
      BY <1>6, <2>1, <3>1
  <2>2. ASSUME NEW c, InsertAndCount(w, c) PROVE Calm /\ rows' = rows
    <3> DEFINE t == [Idle EXCEPT !.op = "commands", !.at = "rows", !.cmds = c]
    <3>1. t.at = "rows" /\ Take(w, t) /\ rows' = rows
      BY <2>2 DEF InsertAndCount, Idle, db
    <3> HIDE DEF t
    <3>2. QED
      BY <1>6, <3>1
  <2>3. ASSUME NEW s, ReportSession(w, s) PROVE Calm /\ rows' = rows
    BY <2>1, <2>3 DEF ReportSession, db
  <2>4. ASSUME NEW b, SyncSessions(w, b) PROVE Calm /\ rows' = rows
    BY <2>1, <2>4 DEF SyncSessions, db
  <2>5. ASSUME NEW s, TerminateSession(w, s) PROVE Calm /\ rows' = rows
    <3> DEFINE t == [Idle EXCEPT !.op = "terminate",
                                 !.at = IF s \in ProxySessions THEN "proxy" ELSE "recording",
                                 !.recs = <<[s |-> s]>>]
    <3>1. t.op = "terminate" /\ Take(w, t) /\ rows' = rows
      BY <2>5 DEF TerminateSession, Idle, db
    <3> HIDE DEF t
    <3>2. QED
      BY <1>6, <3>1
  <2>6. ASSUME NEW s, GetSessionRecording(w, s) PROVE Calm /\ rows' = rows
    <3> DEFINE c == [NoCommands EXCEPT ![s] = rec[s].count]
               t == [Idle EXCEPT !.op = "view", !.at = "count", !.cmds = c]
    <3>1. t.op = "view" /\ Take(w, t) /\ rows' = rows
      BY <2>6 DEF GetSessionRecording, Idle, db
    <3> HIDE DEF t
    <3>2. QED
      BY <1>6, <3>1
  <2>7. ASSUME GetSessionRecordings(w) PROVE Calm /\ rows' = rows
    <3> DEFINE c == [s \in Sessions |-> rec[s].count]
               t == [Idle EXCEPT !.op = "view", !.at = "count", !.cmds = c]
    <3>1. t.op = "view" /\ Take(w, t) /\ rows' = rows
      BY <2>7 DEF GetSessionRecordings, Idle, db
    <3> HIDE DEF t
    <3>2. QED
      BY <1>6, <3>1
  <2>8. Calm /\ rows' = rows
    BY <1>7, <2>2, <2>3, <2>4, <2>5, <2>6, <2>7
    DEF Receive, ReportCommand, AuditCommand, SyncCommands
  <2>9. QED
    BY <2>8 DEF Calm, At
<1>10. ASSUME ShowRecordings(w) PROVE Calm
  <2>1. PICK page : task' = [task EXCEPT ![w].at = "shown", ![w].shown = page]
    BY <1>10 DEF ShowRecordings
  <2>2. task' = [task EXCEPT ![w] = [task[w] EXCEPT !.at = "shown", !.shown = page]]
    BY <1>1, <2>1
  <2>3. (\A v \in Workers : v # w => task'[v] = task[v]) /\ task'[w].at = "shown"
    BY <1>1, <2>2 DEF Task
  <2>4. QED
    BY <2>3 DEF Calm
<1>8. CASE Other(w)
  <2>1. Calm
    BY <1>2, <1>3, <1>4, <1>5, <1>8, <1>10
    DEF Other, FindRecording, CreateRecording, RefuseRecording, FindLogin, CreateLogin,
        RefuseLogin, RefuseCommands, TerminateAtProxy, TerminateRecording, TerminateFails,
        TerminateLogin, AnswerPage
  <2>2. rows' = rows
    BY <1>8
    DEF Other, FindRecording, CreateRecording, RefuseRecording, FindLogin, CreateLogin,
        RefuseLogin, RefuseCommands, TerminateAtProxy, TerminateRecording, TerminateFails,
        TerminateLogin, ShowRecordings, AnswerPage, db
  <2>3. QED
    BY <2>1, <2>2 DEF Calm, At
<1>9. QED
  BY <1>7, <1>8

-----------------------------------------------------------------------------
(* What a step does to a recording.                                         *)

Stays(s) ==
  /\ rec[s].status = "closed" => rec'[s].status = "closed"
  /\ rec[s].status = "active" => rec'[s].status # "none"
  /\ rec[s].text => rec'[s].text

LEMMA RecordingInserted ==
  ASSUME RecordsInv, NEW r \in Sessions, rec[r].status = "none", NEW x,
         rec' = [rec EXCEPT ![r] = NewRecording(x)], NEW s \in Sessions
  PROVE  Stays(s) /\ rec'[s].count = rec[s].count
<1>1. rec \in [Sessions -> Recording] /\ rec[r].count = 0 /\ rec[r].text = FALSE
  BY DEF RecordsInv, RecordsTypeOK, TablesInv, NoRowInv
<1>2. CASE s = r
  <2>1. rec'[s].count = 0
    BY <1>1, <1>2 DEF NewRecording
  <2>2. QED
    BY <1>1, <1>2, <2>1 DEF Stays
<1>3. CASE s # r
  <2>1. rec'[s] = rec[s]
    BY <1>1, <1>3
  <2>2. QED
    BY <2>1 DEF Stays
<1>4. QED
  BY <1>2, <1>3

\* Only CountCommands counts; nobody reopens a recording or drops its text.
LEMMA RecordingStays ==
  ASSUME RecordsInv, NEW s \in Sessions,
         \/ ProxyStep \/ ServerStep \/ UNCHANGED recordsVars
         \/ \E w \in Workers :
              Receive(w) \/ Other(w) \/ CreateCommands(w)
  PROVE  Stays(s) /\ rec'[s].count = rec[s].count
<1> DEFINE Kept == Stays(s) /\ rec'[s].count = rec[s].count
<1>1. rec \in [Sessions -> Recording] /\ TablesInv
  BY DEF RecordsInv, RecordsTypeOK
<1>2. ASSUME rec' = rec PROVE Kept
  BY <1>2 DEF Stays
<1>3. ASSUME NEW r \in Sessions, NEW x, rec[r].status = "none",
             rec' = [rec EXCEPT ![r] = NewRecording(x)]
      PROVE  Kept
  BY <1>3, RecordingInserted
<1>4. ASSUME NEW r \in Sessions,
             \/ rec' = [rec EXCEPT ![r].status = "closed"]
             \/ rec' = [rec EXCEPT ![r].status = "closed", ![r].text = TRUE]
      PROVE  Kept
  BY <1>1, <1>4 DEF Stays, Recording
<1> HIDE DEF Kept
<1>5. CASE ProxyStep \/ UNCHANGED recordsVars
  <2>1. rec' = rec
    BY <1>5 DEF ProxyStep, OpenAtProxy, CloseAtProxy, recordsVars, db
  <2>2. QED
    BY <1>2, <2>1 DEF Kept
<1>6. CASE ServerStep
  <2>1. PICK r \in ServerSessions :
          \/ AuditLoginStart(r) \/ AuditLoginActive(r) \/ AuditLoginFailed(r)
          \/ AuditRecording(r) \/ AuditSessionEnd(r) \/ AuditEndFails(r) \/ AuditLogout(r)
    BY <1>6 DEF ServerStep
  <2>2. r \in Sessions
    BY DEF Sessions
  <2>3. CASE \/ AuditLoginStart(r) \/ AuditLoginActive(r) \/ AuditLoginFailed(r)
             \/ AuditEndFails(r) \/ AuditLogout(r)
    <3>1. rec' = rec
      BY <2>3
      DEF AuditLoginStart, AuditLoginActive, AuditLoginFailed, AuditEndFails, AuditLogout, db
    <3>2. QED
      BY <1>2, <3>1 DEF Kept
  <2>4. CASE AuditRecording(r)
    <3>1. rec[r].status = "none"
      BY <1>1, <2>4 DEF AuditRecording, TablesInv, RunInv
    <3>2. rec' = rec \/ rec' = [rec EXCEPT ![r] = NewRecording([status |-> "active"])]
      BY <2>4 DEF AuditRecording
    <3>3. QED
      BY <1>2, <1>3, <2>2, <3>1, <3>2 DEF Kept
  <2>5. CASE AuditSessionEnd(r)
    BY <1>4, <2>2, <2>5 DEF AuditSessionEnd, Kept
  <2>6. QED
    BY <2>1, <2>3, <2>4, <2>5
<1>7. ASSUME NEW w \in Workers, Receive(w) PROVE Kept
  <2>1. rec' = rec
    BY <1>7
    DEF Receive, ReportSession, ReportCommand, AuditCommand, SyncSessions,
        SyncCommands, InsertAndCount, TerminateSession, GetSessionRecording,
        GetSessionRecordings, db
  <2>2. QED
    BY <1>2, <2>1
<1>8. ASSUME NEW w \in Workers,
             \/ FindRecording(w) \/ RefuseRecording(w) \/ FindLogin(w) \/ CreateLogin(w)
             \/ RefuseLogin(w) \/ CreateCommands(w) \/ RefuseCommands(w)
             \/ TerminateAtProxy(w) \/ TerminateFails(w) \/ TerminateLogin(w)
             \/ ShowRecordings(w) \/ AnswerPage(w)
      PROVE  Kept
  <2>1. rec' = rec
    BY <1>8
    DEF FindRecording, RefuseRecording, FindLogin, CreateLogin, RefuseLogin, CreateCommands,
        RefuseCommands, TerminateAtProxy, TerminateFails, TerminateLogin, ShowRecordings,
        AnswerPage, db
  <2>2. QED
    BY <1>2, <2>1
<1>9. ASSUME NEW w \in Workers, CreateRecording(w) PROVE Kept
  <2> DEFINE x == NextRecording(w)
  <2>1. /\ task[w].recs # <<>> /\ task[w].at = "insert"
        /\ rec[x.s].status = "none" /\ rec' = [rec EXCEPT ![x.s] = NewRecording(x)]
    BY <1>9 DEF CreateRecording
  <2>2. task[w].recs \in Seq(Report)
    BY <2>1, AtItem
  <2>3. x \in Report
    BY <2>1, <2>2, TailSound DEF NextRecording
  <2> HIDE DEF x
  <2>4. x.s \in Sessions
    BY <2>3, ReportSound
  <2>5. QED
    BY <1>2, <1>3, <2>1, <2>4
<1>10. ASSUME NEW w \in Workers, TerminateRecording(w) PROVE Kept
  <2>1. rec' = [rec EXCEPT ![Subject(w)].status = "closed"] /\ task[w].op = "terminate"
    BY <1>10 DEF TerminateRecording, At
  <2>2. Subject(w) \in Sessions
    BY <2>1, AtTermination
  <2>3. QED
    BY <1>4, <2>1, <2>2
<1>11. QED
  BY <1>5, <1>6, <1>7, <1>8, <1>9, <1>10 DEF Kept, Other

LEMMA RecordingCounted ==
  ASSUME RecordsInv, NEW w \in Workers, CountCommands(w), NEW s \in Sessions
  PROVE  Stays(s) /\ rec'[s].count >= rec[s].count
<1>1. PICK r \in Sessions :
        \/ rec' = [rec EXCEPT ![r].count =
                     IF rec[r].status = "none" THEN @ ELSE @ + task[w].cmds[r]]
        \/ rec' = rec
  BY DEF CountCommands
<1>2. /\ rec \in [Sessions -> Recording] /\ rec[s].count \in Nat
      /\ task[w].cmds[r] \in Nat
  BY DEF RecordsInv, RecordsTypeOK, Task, Recording
<1>3. /\ rec'[s].status = rec[s].status /\ rec'[s].text = rec[s].text
      /\ rec'[s].count \in {rec[s].count, rec[s].count + task[w].cmds[r]}
  BY <1>1, <1>2 DEF Recording
<1>4. QED
  BY <1>2, <1>3 DEF Stays

-----------------------------------------------------------------------------
(* Theorems.                                                                *)

LEMMA CountStep ==
  ASSUME NEW n, NEW e, Enumerates(n, e), RecordsInv, RecordsInv', CountInv(n, e),
         [RecordsNext]_recordsVars
  PROVE  CountInv(n, e)'
<1>1. RecordsTypeOK /\ RecordsTypeOK'
  BY DEF RecordsInv
<1>2. SUFFICES ASSUME NEW s \in Sessions
               PROVE  Room(n, [k \in 1 .. n |-> Owed(e[k], s)'], rec'[s].count, rows'[s])
  BY DEF CountInv
<1>3. /\ Room(n, [k \in 1 .. n |-> Owed(e[k], s)], rec[s].count, rows[s])
      /\ rec[s].count \in Nat /\ rows[s] \in Nat /\ \A v \in Workers : Owed(v, s) \in Nat
  BY <1>1, OwedSound DEF CountInv
<1>4. ASSUME NEW w \in Workers, CreateCommands(w)
      PROVE  Room(n, [k \in 1 .. n |-> Owed(e[k], s)'], rec'[s].count, rows'[s])
  BY <1>1, <1>4, InsertKeepsRoom
<1>5. ASSUME NEW w \in Workers, CountCommands(w)
      PROVE  Room(n, [k \in 1 .. n |-> Owed(e[k], s)'], rec'[s].count, rows'[s])
  BY <1>1, <1>5, CountCommandsKeepsRoom
<1>6. ASSUME rec'[s].count = rec[s].count, rows' = rows,
             \A v \in Workers : Owed(v, s)' <= Owed(v, s)
      PROVE  Room(n, [k \in 1 .. n |-> Owed(e[k], s)'], rec'[s].count, rows'[s])
  <2>1. rec'[s].count <= rec[s].count /\ rows[s] <= rows'[s]
    BY <1>3, <1>6
  <2>2. QED
    BY <1>1, <1>3, <1>6, <2>1, CalmKeepsRoom
<1>7. ASSUME NEW w \in Workers,
             Receive(w) \/ Other(w)
      PROVE  Room(n, [k \in 1 .. n |-> Owed(e[k], s)'], rec'[s].count, rows'[s])
  <2>1. /\ \A v \in Workers : v # w => task'[v] = task[v]
        /\ ~At(w, "commands", "count")' /\ rows' = rows
    BY <1>7, CalmServe
  <2>2. rec'[s].count = rec[s].count
    BY <1>7, RecordingStays
  <2>3. ASSUME NEW v \in Workers PROVE Owed(v, s)' <= Owed(v, s)
    <3>1. CASE v = w
      BY <1>3, <2>1, <3>1 DEF Owed
    <3>2. CASE v # w
      <4>1. Owed(v, s)' = Owed(v, s)
        BY <2>1, <3>2 DEF Owed, At
      <4>2. QED
        BY <1>3, <4>1
    <3>3. QED
      BY <3>1, <3>2
  <2>4. QED
    BY <1>6, <2>1, <2>2, <2>3
<1>8. CASE ProxyStep \/ ServerStep \/ UNCHANGED recordsVars
  <2>1. task' = task /\ rows' = rows
    BY <1>8
    DEF ProxyStep, ServerStep, OpenAtProxy, CloseAtProxy, AuditLoginStart,
        AuditLoginActive, AuditLoginFailed, AuditRecording, AuditSessionEnd,
        AuditEndFails, AuditLogout, recordsVars, db
  <2>2. rec'[s].count = rec[s].count
    BY <1>8, RecordingStays
  <2>3. \A v \in Workers : Owed(v, s)' = Owed(v, s)
    BY <2>1 DEF Owed, At
  <2>4. \A v \in Workers : Owed(v, s)' <= Owed(v, s)
    BY <1>3, <2>3
  <2>5. QED
    BY <1>6, <2>1, <2>2, <2>4
<1>9. QED
  BY <1>4, <1>5, <1>7, <1>8 DEF RecordsNext, Serve, Other

\* The invariant holds, and every counter has room for what is still to be counted.
THEOREM RecordsInvHolds == RecordsSpec => [](RecordsInv /\ CountsRows)
<1>1. PICK n, e : Enumerates(n, e)
  BY WorkersInOrder
<1>2. RecordsInit => RecordsInv /\ CountInv(n, e)
  <2>1. SUFFICES ASSUME RecordsInit PROVE RecordsInv /\ CountInv(n, e)
    OBVIOUS
  <2>2. RecordsInv
    BY <2>1, RecordsStart
  <2>3. ASSUME NEW s \in Sessions
        PROVE  Room(n, [k \in 1 .. n |-> Owed(e[k], s)], rec[s].count, rows[s])
    <3> DEFINE due == [k \in 1 .. n |-> Owed(e[k], s)]
               acc == [k \in 0 .. n |-> 0]
    <3>1. n \in Nat /\ rec[s].count = 0 /\ rows[s] = 0
      BY <1>1, <2>1 DEF Enumerates, RecordsInit, NoCommands
    <3>2. \A k \in 1 .. n : due[k] = 0
      BY <1>1, <2>1, IdleSound DEF Enumerates, RecordsInit, Owed, At
    <3> HIDE DEF due
    <3>3. Covers(acc, n, due) /\ rec[s].count + acc[n] <= rows[s]
      BY <3>1, <3>2 DEF Covers
    <3> HIDE DEF acc
    <3>4. QED
      BY <3>3 DEF Room, due
  <2>4. QED
    BY <2>2, <2>3 DEF CountInv
<1>3. RecordsInv /\ CountInv(n, e) /\ [RecordsNext]_recordsVars
        => (RecordsInv /\ CountInv(n, e))'
  <2>1. SUFFICES ASSUME RecordsInv, CountInv(n, e), [RecordsNext]_recordsVars
                 PROVE  RecordsInv' /\ CountInv(n, e)'
    OBVIOUS
  <2>2. CountsRows
    BY <1>1, <2>1, RoomCounts DEF RecordsInv, Enumerates
  <2>3. RecordsInv'
    BY <2>1, <2>2, RecordsStep
  <2>4. QED
    BY <1>1, <2>1, <2>3, CountStep
<1>4. RecordsInv /\ CountInv(n, e) => RecordsInv /\ CountsRows
  BY <1>1, RoomCounts DEF RecordsInv, Enumerates
<1>5. QED
  BY <1>2, <1>3, <1>4, PTL DEF RecordsSpec

\* Whatever reports, batches, terminations and ends of sessions cross, whatever race a
\* report loses and whatever statement fails: a recorded session of a proxy has a login
\* record, a worker that will insert it or one that the database refused; a recording
\* that is closed is of a session that is over; its login record follows, unless its
\* UPDATE failed or it was inserted out of order; and no counter is ahead of its rows.
THEOREM RecordsAgreeHolds == RecordsSpec => []RecordsAgree
<1>1. RecordsInv /\ CountsRows => RecordsAgree
  <2>1. SUFFICES ASSUME RecordsInv, CountsRows PROVE RecordsAgree
    OBVIOUS
  <2>2. ASSUME NEW s \in ProxySessions, rec[s].status # "none", login[s] = "none",
               <<s, "missing">> \notin stranded
        PROVE  \E w \in Workers : \E i \in DOMAIN task[w].logins : task[w].logins[i].s = s
    <3>1. PICK w \in Workers : Sure(w, s)
      BY <2>1, <2>2 DEF RecordsInv, TablesInv, LoginInv
    <3>2. PICK x \in Items(task[w].logins) : x.s = s
      BY <3>1 DEF Sure, Named
    <3>3. PICK i \in DOMAIN task[w].logins : task[w].logins[i] = x
      BY <3>2 DEF Items
    <3>4. QED
      BY <3>2, <3>3
  <2>3. QED
    BY <2>1, <2>2 DEF RecordsAgree, RecordsInv, TablesInv, Audited
<1>2. RecordsSpec => [](RecordsInv /\ CountsRows)
  BY RecordsInvHolds
<1>3. QED
  BY <1>1, <1>2, PTL

\* Only ShowRecordings fills a page.
LEMMA OnlyShown ==
  ASSUME RecordsInv, [RecordsNext]_recordsVars, NEW w \in Workers,
         At(w, "view", "count"), At(w, "view", "shown")'
  PROVE  ShowRecordings(w)
<1>1. task \in [Workers -> Task] /\ task'[w] # task[w] /\ task[w] # Idle
  BY IdleSound DEF RecordsInv, RecordsTypeOK, At
<1>2. task' # task
  BY <1>1
<1>3. ~(ProxyStep \/ ServerStep \/ UNCHANGED recordsVars)
  BY <1>2
  DEF ProxyStep, ServerStep, OpenAtProxy, CloseAtProxy, AuditLoginStart, AuditLoginActive,
      AuditLoginFailed, AuditRecording, AuditSessionEnd, AuditEndFails, AuditLogout,
      recordsVars, db
<1>4. PICK v \in Workers : Receive(v) \/ Serve(v)
  BY <1>3 DEF RecordsNext
<1>5. CASE Receive(v) \/ Other(v) \/ CreateCommands(v)
  <2>1. v = w
    <3>1. CASE Receive(v) \/ Other(v)
      BY <1>1, <3>1, CalmServe
    <3>2. CASE CreateCommands(v)
      BY <1>1, <3>2 DEF CreateCommands, Goto
    <3>3. QED
      BY <1>5, <3>1, <3>2
  <2>2. ~Receive(w)
    BY <1>1 DEF Receive
  <2>3. ~CreateCommands(w) /\ ~RefuseCommands(w) /\ ~AnswerPage(w)
        /\ ~TerminateAtProxy(w) /\ ~TerminateRecording(w) /\ ~TerminateFails(w)
        /\ ~TerminateLogin(w)
    BY DEF CreateCommands, RefuseCommands, AnswerPage, TerminateAtProxy,
           TerminateRecording, TerminateFails, TerminateLogin, At
  <2>4. task[w].at = "count"
    BY DEF At
  <2>5. /\ ~FindRecording(w) /\ ~CreateRecording(w) /\ ~RefuseRecording(w)
        /\ ~FindLogin(w) /\ ~CreateLogin(w) /\ ~RefuseLogin(w)
    BY <2>4 DEF FindRecording, CreateRecording, RefuseRecording, FindLogin, CreateLogin,
                RefuseLogin
  <2>6. QED
    BY <1>5, <2>1, <2>2, <2>3, <2>5 DEF Other
<1>6. CASE CountCommands(v)
  <2>1. v # w
    BY <1>6 DEF CountCommands, At
  <2>2. task'[w] = task[w]
    BY <1>1, <1>6, <2>1 DEF CountCommands, Done
  <2>3. QED
    BY <1>1, <2>2
<1>7. QED
  BY <1>4, <1>5, <1>6 DEF Serve, Other

\* No step of anybody reopens a recording, drops its text or lowers its count, and a
\* replay page shows the commands that the counter had said, or 0 when its COUNT failed.
THEOREM NothingLostHolds == RecordsSpec => NothingLost
<1> DEFINE Kept ==
      /\ \A s \in Sessions :
           /\ rec[s].status = "closed" => rec'[s].status = "closed"
           /\ rec[s].status = "active" => rec'[s].status # "none"
           /\ rec[s].text => rec'[s].text
           /\ rec'[s].count >= rec[s].count
      /\ \A w \in Workers :
           At(w, "view", "count") /\ At(w, "view", "shown")' =>
             \A s \in Sessions :
               LET n == task'[w].shown[s]
               IN  n = 0 \/ (task[w].cmds[s] <= n /\ n <= rows[s])
<1>1. RecordsInv /\ [RecordsNext]_recordsVars => Kept
  <2>1. SUFFICES ASSUME RecordsInv, [RecordsNext]_recordsVars PROVE Kept
    OBVIOUS
  <2>2. ASSUME NEW s \in Sessions PROVE Stays(s) /\ rec'[s].count >= rec[s].count
    <3>1. rec[s].count \in Nat
      BY <2>1 DEF RecordsInv, RecordsTypeOK, Recording
    <3>2. ASSUME NEW w \in Workers, CountCommands(w)
          PROVE  Stays(s) /\ rec'[s].count >= rec[s].count
      BY <2>1, <3>2, RecordingCounted
    <3>3. CASE \/ ProxyStep \/ ServerStep \/ UNCHANGED recordsVars
               \/ \E w \in Workers :
                    Receive(w) \/ Other(w) \/ CreateCommands(w)
      <4>1. Stays(s) /\ rec'[s].count = rec[s].count
        BY <2>1, <3>3, RecordingStays
      <4>2. QED
        BY <3>1, <4>1
    <3>4. QED
      BY <2>1, <3>2, <3>3 DEF RecordsNext, Serve, Other
  <2>3. ASSUME NEW w \in Workers, At(w, "view", "count"), At(w, "view", "shown")',
               NEW s \in Sessions
        PROVE  LET n == task'[w].shown[s]
               IN  n = 0 \/ (task[w].cmds[s] <= n /\ n <= rows[s])
    <3>1. task[w].cmds[s] <= rows[s] /\ task[w].cmds[s] \in Nat /\ rows[s] \in Nat
      BY <2>1, <2>3 DEF RecordsInv, WorkerInv, ViewInv, At, RecordsTypeOK, Task
    <3>2. ShowRecordings(w)
      BY <2>1, <2>3, OnlyShown
    <3>3. task'[w].shown[s] \in {0, rows[s]}
      <4>1. PICK counted \in SUBSET Sessions :
              task' = [task EXCEPT ![w].at = "shown",
                                   ![w].shown = [r \in Sessions |->
                                                   IF r \in counted THEN rows[r] ELSE 0]]
        BY <3>2 DEF ShowRecordings
      <4>2. task[w] \in Task /\ task \in [Workers -> Task]
        BY <2>1 DEF RecordsInv, RecordsTypeOK
      <4>3. task'[w].shown = [r \in Sessions |-> IF r \in counted THEN rows[r] ELSE 0]
        BY <4>1, <4>2 DEF Task
      <4>4. QED
        BY <4>3
    <3>4. QED
      BY <3>1, <3>3
  <2>4. QED
    BY <2>2, <2>3 DEF Stays
<1>2. RecordsSpec => [](RecordsInv /\ CountsRows)
  BY RecordsInvHolds
<1>3. QED
  BY <1>1, <1>2, PTL DEF RecordsSpec, NothingLost
=============================================================================

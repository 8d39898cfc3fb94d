------------------------------- MODULE Approval -------------------------------
(***************************************************************************)
(* One approval ticket: its row, the API requests that decide it            *)
(* (api/handler/approval_handler.go), the callbacks of the third-party      *)
(* approval platforms (approval_callback_handler.go) and the platform's     *)
(* approval instance (approval/feishu.go, dingtalk.go, wechat.go).          *)
(*                                                                         *)
(* The callbacks are served without authentication and find the ticket by   *)
(* its external id, which is empty on an internal ticket: an event without  *)
(* an id finds that one.  The model therefore lets any event, with any      *)
(* status, reach any ticket through any of the three callback addresses.    *)
(*                                                                         *)
(* Every handler reads the row, may test its status, and writes the whole   *)
(* row back: reading, writing and recording the action are separate steps,  *)
(* so requests interleave between them.  The row is reduced to its status   *)
(* and to which of approved_at and rejected_at are set.                     *)
(***************************************************************************)
EXTENDS Naturals, FiniteSets

CONSTANTS
  Requests,   \* HTTP requests, each handled by a goroutine of its own
  Providers,  \* platforms registered by loadApprovalProviders at startup
  MaxFaults   \* failing database writes and calls to the platform (bound)

ASSUME ApprovalAssumption ==
  /\ Providers \subseteq {"feishu", "dingtalk", "wechat"}
  /\ MaxFaults \in Nat

VARIABLES
  platform,  \* approvals.platform
  creator,   \* where CreateApproval is
  status,    \* approvals.status, "none" before the row exists
  stamps,    \* which of approved_at and rejected_at are set
  comments,  \* actions recorded in approval_comments
  op,        \* what each request does
  step,      \* where each request is
  copy,      \* the stamps in the request's copy of the row
  target,    \* the status the request is about to write
  heard,     \* history: the callbacks whose event says "approved" in the words
             \* of the platform whose address it was sent to
  instance,  \* the platform's own status of the instance
  faults     \* writes and calls that have failed

ticket   == <<platform, creator, status, stamps>>
request  == <<op, step, copy, target, heard>>
vars     == <<platform, creator, status, stamps, comments, op, step, copy,
              target, heard, instance, faults>>

Stamp    == {"approved", "rejected"}
Decided  == {"approved", "rejected", "canceled"}
Status   == {"pending"} \cup Decided
Decision == {"approve", "reject", "cancel"}

\* The status each deciding endpoint writes.
Outcome == [approve |-> "approved", reject |-> "rejected",
            cancel |-> "canceled"]

\* The vocabulary of a platform: its running status, its final statuses, and
\* one status the code does not know.
ThirdParty == {"feishu", "dingtalk", "wechat"}
Platforms  == {"internal"} \cup ThirdParty

\* The status of the instance that a provider has just created.
FeishuInstance   == "PENDING"
DingTalkInstance == "RUNNING"
WeChatInstance   == "1"
Started == [feishu |-> FeishuInstance, dingtalk |-> DingTalkInstance,
            wechat |-> WeChatInstance]

\* What the providers' CancelApproval makes of a running instance.  The request
\* to Feishu has no body and so names no instance.
CancelFeishu   == {}
CancelDingTalk == {"CANCELED"}
CancelWeChat   == {"4"}
Withdrawn == [feishu |-> CancelFeishu, dingtalk |-> CancelDingTalk,
              wechat |-> CancelWeChat]

Finals ==
  [feishu   |-> {"APPROVED", "REJECTED", "CANCELED", "DELETED"},
   dingtalk |-> {"COMPLETED", "TERMINATED", "CANCELED"},
   wechat   |-> {"2", "3", "4"}]
Unknown == "other"
Raw ==
  {Unknown, "PENDING", "RUNNING", "1", "CANCELLED"} \cup Finals.feishu
    \cup Finals.dingtalk \cup Finals.wechat

\* The platforms' own words for an approval.
Approving == {<<"feishu", "APPROVED">>, <<"dingtalk", "COMPLETED">>,
              <<"wechat", "2">>}

TicketType ==
  /\ platform \in Platforms
  /\ creator \in {"start", "instance", "end"}
  /\ status \in {"none"} \cup Status
  /\ stamps \in SUBSET Stamp
  /\ comments \in SUBSET ({"submit", "comment"} \cup Decision)
  /\ faults \in Nat

RequestType ==
  /\ op \in [Requests -> {"none", "callback", "comment"} \cup Decision]
  /\ step \in [Requests -> {"new", "withdraw", "save", "record", "end",
                           "refused"}]
  /\ copy \in [Requests -> SUBSET Stamp]
  /\ target \in [Requests -> Status]
  /\ heard \in SUBSET Requests
  /\ \A r \in Requests :
       step[r] = "record" => op[r] \in {"comment"} \cup Decision

TypeOK == TicketType /\ RequestType /\ instance \in {"none"} \cup Raw

Init ==
  /\ platform = "internal"
  /\ creator = "start"
  /\ status = "none"
  /\ stamps = {}
  /\ comments = {}
  /\ op = [r \in Requests |-> "none"]
  /\ step = [r \in Requests |-> "new"]
  /\ copy = [r \in Requests |-> {}]
  /\ target = [r \in Requests |-> "pending"]
  /\ heard = {}
  /\ instance = "none"
  /\ faults = 0

\* A write or call succeeds (0) or, while the budget lasts, fails (1).
Write(failed) ==
  /\ faults + failed <= MaxFaults
  /\ faults' = faults + failed

-----------------------------------------------------------------------------
(* CreateApproval.                                                          *)

\* No platform given: one INSERT, and no submit record.
CreateInternal ==
  /\ creator = "start"
  /\ creator' = "end"
  /\ \E e \in 0 .. 1 :
       /\ Write(e)
       /\ status' = IF e = 0 THEN "pending" ELSE status
  /\ UNCHANGED <<platform, stamps, comments, request, instance>>

\* loadApprovalProviders registers the platforms configured at startup.
Registered(p) == p \in Providers

\* The provider creates the instance before the row exists.
CreateInstance(p) ==
  /\ creator = "start" /\ Registered(p)
  /\ platform' = p
  /\ creator' = "instance"
  /\ instance' = Started[p]
  /\ UNCHANGED <<status, stamps, comments, request, faults>>

\* The platform is not registered, or its API failed: no row.
CreateRefused ==
  /\ creator = "start"
  /\ creator' = "end"
  /\ UNCHANGED <<platform, status, stamps, comments, request, instance, faults>>

\* The row, then the submit record, whose error is ignored.
CreateRow ==
  /\ creator = "instance"
  /\ creator' = "end"
  /\ \E e1, e2 \in 0 .. 1 :
       /\ Write(e1 + e2)
       /\ status' = IF e1 = 0 THEN "pending" ELSE status
       /\ comments' = IF e1 = 0 /\ e2 = 0 THEN comments \cup {"submit"}
                                          ELSE comments
  /\ UNCHANGED <<platform, stamps, request, instance>>

-----------------------------------------------------------------------------
(* ApproveApproval, RejectApproval, CancelApproval, AddComment.             *)

\* Mistake: the status is not tested.
MayDecideAlways(s) == TRUE

\* The status test of the three deciding endpoints.
MayDecide(s) == s = "pending"

\* Mistake: a cancellation leaves the platform's instance alone.
AfterReadSave(d) == "save"

\* Where a decision goes after its test: only a cancellation with an external
\* instance calls the provider first.
AfterRead(d) == IF d = "cancel" /\ platform # "internal" THEN "withdraw"
                                                         ELSE "save"

\* Read the row and test its status.
ReadTicket(r, d) ==
  /\ step[r] = "new" /\ status # "none"
  /\ op' = [op EXCEPT ![r] = d]
  /\ copy' = [copy EXCEPT ![r] = stamps]
  /\ target' = [target EXCEPT ![r] = Outcome[d]]
  /\ step' = [step EXCEPT ![r] = IF MayDecide(status) THEN AfterRead(d)
                                                      ELSE "refused"]
  /\ UNCHANGED <<ticket, comments, heard, instance, faults>>

\* A cancellation by someone other than the applicant.
NotApplicant(r) ==
  /\ step[r] = "new" /\ status # "none"
  /\ op' = [op EXCEPT ![r] = "cancel"]
  /\ step' = [step EXCEPT ![r] = "refused"]
  /\ UNCHANGED <<ticket, comments, copy, target, heard, instance, faults>>

\* provider.CancelApproval, which may fail (or the provider is no longer
\* registered): the error is ignored.
Withdraw(r) ==
  /\ step[r] = "withdraw"
  /\ step' = [step EXCEPT ![r] = "save"]
  /\ \E e \in 0 .. 1 :
       /\ Write(e)
       /\ instance' \in IF /\ e = 0 /\ instance = Started[platform]
                           /\ Withdrawn[platform] # {}
                        THEN Withdrawn[platform] ELSE {instance}
  /\ UNCHANGED <<ticket, comments, op, copy, target, heard>>

\* Mistake: writing only the changed columns.
RowAfterUpdates(r) == stamps \cup ({target[r]} \cap Stamp)

\* The stamps db.Save writes: those of the copy, and the new one.
RowAfterSave(r) == copy[r] \cup ({target[r]} \cap Stamp)

\* db.Save writes every column of the request's copy.
SaveTicket(r) ==
  /\ step[r] = "save"
  /\ \E e \in 0 .. 1 :
       /\ Write(e)
       /\ status' = IF e = 0 THEN target[r] ELSE status
       /\ stamps' = IF e = 0 THEN RowAfterSave(r) ELSE stamps
       /\ step' = [step EXCEPT ![r] =
            IF e = 1 THEN "refused"
            ELSE IF op[r] \in Decision THEN "record" ELSE "end"]
  /\ UNCHANGED <<platform, creator, comments, op, copy, target, heard, instance>>

\* Mistake: an approval is not recorded.
RecordUnlessApproved(r) ==
  /\ step[r] = "record"
  /\ step' = [step EXCEPT ![r] = "end"]
  /\ \E e \in 0 .. 1 :
       /\ Write(e)
       /\ comments' = IF e = 0 THEN comments \cup ({op[r]} \ {"approve"})
                               ELSE comments
  /\ UNCHANGED <<ticket, op, copy, target, heard, instance>>

\* The action's record; an error is ignored and the answer is success.
RecordAction(r) ==
  /\ step[r] = "record"
  /\ step' = [step EXCEPT ![r] = "end"]
  /\ \E e \in 0 .. 1 :
       /\ Write(e)
       /\ comments' = IF e = 0 THEN comments \cup {op[r]} ELSE comments
  /\ UNCHANGED <<ticket, op, copy, target, heard, instance>>

\* AddComment: the row must exist, in any status.
AddComment(r) ==
  /\ step[r] = "new" /\ status # "none"
  /\ op' = [op EXCEPT ![r] = "comment"]
  /\ step' = [step EXCEPT ![r] = "record"]
  /\ UNCHANGED <<ticket, comments, copy, target, heard, instance, faults>>

-----------------------------------------------------------------------------
(* Callbacks.                                                               *)

MapFeishuStatus(raw) ==
  CASE raw = "APPROVED"  -> "approved"
    [] raw = "REJECTED"  -> "rejected"
    [] raw = "CANCELLED" -> "canceled"
    [] OTHER             -> "pending"

\* Mistake: a status the code does not know is taken for an approval.
MapDingTalkStatusLoosely(raw) ==
  CASE raw = "RUNNING"    -> "pending"
    [] raw = "TERMINATED" -> "rejected"
    [] raw = "CANCELED"   -> "canceled"
    [] OTHER              -> "approved"

MapDingTalkStatus(raw) ==
  CASE raw = "COMPLETED"  -> "approved"
    [] raw = "TERMINATED" -> "rejected"
    [] raw = "CANCELED"   -> "canceled"
    [] OTHER              -> "pending"

MapWeChatStatus(raw) ==
  CASE raw = "2" -> "approved"
    [] raw = "3" -> "rejected"
    [] raw = "4" -> "canceled"
    [] OTHER     -> "pending"

\* Mistake: the platform's own status is stored as it came.
MapStatusVerbatim(p, raw) == raw

MapStatus(p, raw) ==
  CASE p = "feishu"   -> MapFeishuStatus(raw)
    [] p = "dingtalk" -> MapDingTalkStatus(raw)
    [] OTHER          -> MapWeChatStatus(raw)

\* An event arrives at the address of platform p: sent again, late, out of
\* order, or without an instance id and so for an internal ticket.  The status
\* of the row found is not tested.  Without a row the callback is answered with
\* an error and nothing is kept.
ReceiveCallback(r, p, raw) ==
  /\ step[r] = "new"
  /\ op' = [op EXCEPT ![r] = "callback"]
  /\ copy' = [copy EXCEPT ![r] = stamps]
  /\ target' = [target EXCEPT ![r] = MapStatus(p, raw)]
  /\ heard' = IF <<p, raw>> \in Approving THEN heard \cup {r} ELSE heard
  /\ step' = [step EXCEPT ![r] = IF status = "none" THEN "refused"
                                                   ELSE "save"]
  /\ UNCHANGED <<ticket, comments, instance, faults>>

\* The instance is decided on the platform.
InstanceMoves(raw) ==
  /\ platform # "internal" /\ instance = Started[platform]
  /\ raw \in Finals[platform]
  /\ instance' = raw
  /\ UNCHANGED <<ticket, comments, request, faults>>

-----------------------------------------------------------------------------
Create == CreateInternal \/ CreateRow \/ CreateRefused
          \/ (\E p \in ThirdParty : CreateInstance(p))

Handle(r) ==
  \/ \E d \in Decision : ReadTicket(r, d)
  \/ NotApplicant(r) \/ Withdraw(r) \/ SaveTicket(r) \/ RecordAction(r)
  \/ AddComment(r)
  \/ \E p \in ThirdParty, raw \in Raw : ReceiveCallback(r, p, raw)

Next ==
  \/ Create
  \/ \E r \in Requests : Handle(r)
  \/ \E raw \in Raw : InstanceMoves(raw)

Spec == Init /\ [][Next]_vars

-----------------------------------------------------------------------------
(* Properties.                                                              *)

\* Whatever approvals, rejections and cancellations race on a ticket, its row
\* holds one decision: approved_at is set exactly on an approved row and
\* rejected_at exactly on a rejected one, because Save writes the whole copy
\* (approval_handler.go 308-323, 383-398, 475-484).  A callback, which does not
\* test the status, leaves the time of an earlier decision in the row.
OneDecisionInRow ==
  (\A r \in Requests : op[r] # "callback") => stamps = {status} \cap Stamp

\* With or without callbacks, an approved or rejected row has its time
\* (approval_callback_handler.go 218-228, 245-259, 280-292).
DecisionStamped == status \in Stamp => status \in stamps

\* A ticket that was cancelled here has no instance left running on the
\* platform, unless a call failed; on Feishu it may
\* (approval_handler.go 463-471, feishu.go 205-249).
CancelWithdraws ==
  platform \in {"dingtalk", "wechat"} /\ faults = 0 =>
    \A r \in Requests :
      op[r] = "cancel" /\ step[r] \in {"save", "record", "end"} =>
        instance # Started[platform]

\* The ticket is well typed, its row holds the time of its decision, and of no
\* other one unless a callback was served, and a cancellation reached the
\* platform too.
TicketSound ==
  TypeOK /\ OneDecisionInRow /\ DecisionStamped /\ CancelWithdraws

\* Callback r has written its status to the row.
CallbackWrote(r) == op[r] = "callback" /\ step[r] = "end"

\* A ticket becomes approved only if an approver asked for it here, or an event
\* said so in the words of the platform it was sent for: no other status, known
\* or not, is mapped to an approval (approval_callback_handler.go 298-343).
ApprovedOnRequest ==
  status = "approved" =>
    \/ \E r \in Requests : op[r] = "approve" /\ step[r] \in {"record", "end"}
    \/ \E r \in heard : CallbackWrote(r)

\* Once no request is running and no write failed, the history of a decided
\* ticket has the action that gave it its status, or a callback did: callbacks
\* leave no record (approval_handler.go 325-335, 400-410, 486-495).
HistoryExplainsStatus ==
  /\ faults = 0
  /\ \A r \in Requests : step[r] \in {"new", "end", "refused"}
  => \A d \in Decision : status = Outcome[d] =>
       d \in comments \/ \E r \in Requests : CallbackWrote(r) /\ target[r] = status

\* A decision can be explained: somebody asked for it, and the history, or a
\* callback that was served, says who took it.
DecisionsExplained == ApprovedOnRequest /\ HistoryExplainsStatus

\* The ticket is decided, and no deciding request that read it before is still
\* to write.
Settled ==
  /\ status \in Decided
  /\ \A r \in Requests : step[r] \in {"withdraw", "save"} => op[r] = "callback"

\* A callback writes its status to the row in this step.
CallbackWrites ==
  \E r \in Requests : op[r] = "callback" /\ step[r] = "save" /\ step'[r] = "end"

\* A decided ticket goes back to pending only by a callback; and once the
\* requests that raced for the decision are through, it is final for the API:
\* whatever requests come, only a callback changes it
\* (approval_handler.go 300-306, 375-381, 455-461).
DecisionFinal ==
  [][CallbackWrites \/ /\ status \in Decided => status' \in Decided
                       /\ Settled => Settled' /\ status' = status]_vars

-----------------------------------------------------------------------------
(* What comments and messages of the repository say and the code does not   *)
(* do: TLC finds a counterexample to each.                                  *)

\* approval_handler.go 303, 378: a processed approval cannot be approved or
\* rejected again.  At most one approving or rejecting request of an internal
\* ticket succeeds.
DecidedOnce ==
  platform = "internal" =>
    Cardinality({r \in Requests : /\ op[r] \in {"approve", "reject"}
                                  /\ step[r] \in {"record", "end"}}) <= 1

\* The same texts, for a ticket of a platform: once decided it stays
\* processed, so that no endpoint accepts it again.
ProcessedStaysProcessed ==
  [][(status \in Decided) => (status' \in Decided)]_vars

\* The provider's own reading of a Feishu status (feishu.go 190-202).
ConvertStatus(raw) ==
  CASE raw = "APPROVED" -> "approved"
    [] raw = "REJECTED" -> "rejected"
    [] raw \in {"CANCELED", "DELETED"} -> "canceled"
    [] OTHER -> "pending"

\* approval_callback_handler.go 297: mapFeishuStatus maps the Feishu statuses
\* to the system's.  It reads every status of an instance as feishu.go does.
CallbackReadsFeishuStatus ==
  platform = "feishu" /\ instance # "none" =>
    MapStatus(platform, instance) = ConvertStatus(instance)

-----------------------------------------------------------------------------
(* Inductive strengthening, used by Audit_proofs.                           *)

\* A row that is not there has no pending writers; while no callback was served
\* no request holds stamps it has not written itself; and only a cancellation
\* that must withdraw an instance is on its way to the platform.
TicketInv ==
  /\ creator # "end" => status = "none"
  /\ status = "none" =>
       stamps = {} /\ \A r \in Requests : step[r] \in {"new", "refused"}
  /\ \A r \in Requests :
       /\ step[r] = "new" => op[r] = "none"
       /\ step[r] = "withdraw" => op[r] = "cancel" /\ platform # "internal"
       /\ /\ step[r] \in {"withdraw", "save"}
          /\ \A q \in Requests : op[q] # "callback"
          => copy[r] = {}
  /\ OneDecisionInRow /\ DecisionStamped /\ CancelWithdraws

\* What a request is about to write is its decision, or the status an event
\* carried.
RequestInv ==
  /\ \A r \in Requests : step[r] \in {"withdraw", "save"} =>
       \/ op[r] \in Decision /\ target[r] = Outcome[op[r]]
       \/ op[r] = "callback" /\ (target[r] = "approved" => r \in heard)
  /\ ApprovedOnRequest

\* While nothing has failed, the action behind the status is on record, or the
\* request that took it is about to record it, or a callback wrote it.
HistoryInv ==
  faults = 0 =>
    \A d \in Decision : status = Outcome[d] =>
      \/ d \in comments
      \/ \E r \in Requests : step[r] = "record" /\ op[r] = d
      \/ \E r \in Requests : CallbackWrote(r) /\ target[r] = status
=============================================================================

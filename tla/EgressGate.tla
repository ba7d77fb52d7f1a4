------------------------------ MODULE EgressGate ------------------------------
(***************************************************************************)
(* The dispatch core of the gate proxy: POST /egress/<tool> from the point *)
(* where the pipeline has reached a decision, the human gate it may go     *)
(* through, the rejection poller that shares the process, and the receipt  *)
(* ledger all of them write.                                               *)
(*                                                                         *)
(* One Node process runs many requests; a handler gives up the event loop  *)
(* only where it awaits Paperclip or a performer, so an action here is the *)
(* code between two awaits.  The ledger is read and written synchronously: *)
(* an append either returns (line written and fsynced), or throws, with or *)
(* without its line in the file.  A power loss keeps what was fsynced and  *)
(* any longer prefix of the file.                                          *)
(*                                                                         *)
(* Paperclip (approvals, comments) and the vendors are external and are    *)
(* modelled from the calls the gate makes to them.                         *)
(***************************************************************************)
EXTENDS Integers, Sequences, FiniteSets

CONSTANTS
  Handlers,      \* requests the server can have in flight at once
  Tools,         \* tool names of POST /egress/<tool>
  HumanTools,    \* tools whose boundary the policy decides "human"
  Payloads,      \* request payloads, told apart by everything they hold
  Shas,          \* values of payloadSha256
  ShaOf,         \* payload -> payloadSha256 (decoded bytes only, for a binary upload)
  BulkyPayloads, \* payloads whose audit metadata is beyond META_MAX_BYTES
  Issues, NoIssue,
  Approvals, NoApproval,
  NoRequest, NoOp, NoPayload, PollerSha,
  MaxRequests,   \* bound: requests an agent sends
  MaxFaults,     \* bound: spells of disk trouble and calls that fail
  MaxCrashes     \* bound: process deaths

ASSUME DataAssumption ==
  /\ HumanTools \subseteq Tools
  /\ ShaOf \in [Payloads -> Shas]
  /\ BulkyPayloads \subseteq Payloads

ASSUME SentinelAssumption ==
  /\ NoIssue \notin Issues
  /\ NoApproval \notin Approvals
  /\ PollerSha \notin Shas
  /\ NoPayload \notin Payloads

ASSUME BoundAssumption ==
  MaxRequests \in Nat /\ MaxFaults \in Nat /\ MaxCrashes \in Nat

VARIABLES
  log,       \* the ledger: its lines, and how many of them are fsynced
  disk,      \* "sound", or "failing": writes and fsyncs may throw
  handler,   \* what each in-flight request awaits
  poller,    \* the pass of pollOnce in progress
  approvals, \* external: Paperclip's approvals
  sent,      \* external calls made after a reservation, in order
  executed,  \* external: performer operations the vendor carried out
  acked,     \* performer operations answered with 200
  spent      \* how much of each bound has been used

vars == <<log, disk, handler, poller, approvals, sent, executed, acked, spent>>

(***************************************************************************)
(* Data.                                                                   *)
(***************************************************************************)
Request == [tool: Tools, payload: Payloads, issue: Issues \cup {NoIssue},
            approval: Approvals \cup {NoApproval}]

Operation == [target: {"performer", "paperclip_approval", "paperclip_comment"},
              tool: Tools, sha: Shas \cup {PollerSha},
              issue: Issues \cup {NoIssue},
              approval: Approvals \cup {NoApproval}]

ASSUME IdentityAssumption == NoOp \notin Operation

Outcome == {"reserved", "performed", "pending", "blocked", "error"}

Receipt == [outcome: Outcome, tool: Tools, issue: Issues \cup {NoIssue},
            approval: Approvals \cup {NoApproval}, op: Operation \cup {NoOp}]

Decision == {"pending", "approved", "rejected", "revision_requested"}

\* What the poller keeps of a pending receipt (UnresolvedApproval).
Unresolved == [approval: Approvals, tool: Tools, issue: Issues \cup {NoIssue}]

Waiting == {"creating", "notifying", "checking", "performing"}

\* What an in-flight request awaits, for which request, and the answer so far.
HandlerState == [pc: Waiting \cup {"idle"}, req: Request \cup {NoRequest},
                 made: Approvals \cup {NoApproval}, seen: Decision \cup {"absent", "unread"}]

PollerState == [pc: {"idle", "next", "reading", "commenting"}, todo: SUBSET Unresolved,
                cur: Unresolved \cup {NoRequest}, seen: Decision \cup {"absent", "unread"}]

\* External: an approval, the payload it was asked for and the request that asked.
ApprovalState == [status: Decision \cup {"absent"}, binds: Payloads \cup {NoPayload},
                  op: Operation \cup {NoOp}]

SentCall == [op: Operation, payload: Payloads \cup {NoPayload}]

\* dispatchOperationId: the identity of one external side effect.  The code
\* hashes these fields; the hash is modelled as injective.
OperationId(target, tool, sha, issue, approval) ==
  [target |-> target, tool |-> tool, sha |-> sha, issue |-> issue,
   approval |-> approval]

PerformOp(r)  == OperationId("performer", r.tool, ShaOf[r.payload], r.issue, r.approval)
ApprovalOp(r) == OperationId("paperclip_approval", r.tool, ShaOf[r.payload],
                             r.issue, NoApproval)
CommentOp(u)  == OperationId("paperclip_comment", u.tool, PollerSha, u.issue, u.approval)

\* The identity the human gate puts on its own receipts: only a first call has one.
HumanOp(r) == IF r.approval = NoApproval THEN ApprovalOp(r) ELSE NoOp

\* Variant: the approval is bound to the receipt hash.
BindingToReceiptSha(payload) == ShaOf[payload]

\* The string the approval is bound to (humanGateSha256): the whole payload.
BindingSha(payload) == payload

ReceiptOf(outcome, r, approval, op) ==
  [outcome |-> outcome, tool |-> r.tool, issue |-> r.issue,
   approval |-> approval, op |-> op]

Idle == [pc |-> "idle", req |-> NoRequest, made |-> NoApproval, seen |-> "unread"]
Awaiting(pc, r) == [pc |-> pc, req |-> r, made |-> NoApproval, seen |-> "unread"]

PollerIdle == [pc |-> "idle", todo |-> {}, cur |-> NoRequest, seen |-> "unread"]

(***************************************************************************)
(* The ledger.                                                             *)
(***************************************************************************)

\* Variant: an identity with an error receipt counts as free to retry.
RecordedWithoutError(op) ==
  /\ \E i \in 1 .. Len(log.lines) : log.lines[i].op = op
  /\ \A i \in 1 .. Len(log.lines) : log.lines[i].op = op => log.lines[i].outcome # "error"

\* hasUnresolvedDispatch: the operation is on some line, whatever its outcome.
Recorded(op) == \E i \in 1 .. Len(log.lines) : log.lines[i].op = op

\* How ReceiptChain.append can end: it returns, it throws leaving no line, or
\* it throws after the write because fsync failed.
Results == IF disk = "sound" THEN {"ok"} ELSE {"ok", "lost", "unsynced"}

\* Variant: append returns without the fsync.
WrittenNoFsync(l, receipt, result) ==
  IF result = "lost" THEN l ELSE [l EXCEPT !.lines = Append(@, receipt)]

Written(l, receipt, result) ==
  IF result = "lost" THEN l
  ELSE [lines  |-> Append(l.lines, receipt),
        synced |-> IF result = "ok" THEN Len(l.lines) + 1 ELSE l.synced]

\* Variant: counts one line too many as flushed.
FlushedTooFar(l) == [l EXCEPT !.synced = Len(l.lines) + 1]

\* assertAppendable fsyncs the file it has just verified.
Flushed(l) == [l EXCEPT !.synced = Len(l.lines)]

\* The outer catch of POST /egress: one more receipt, with neither operation
\* nor approval on it, written or lost.
Unhandled(l, r) ==
  {Written(l, ReceiptOf("error", [r EXCEPT !.issue = NoIssue], NoApproval, NoOp), result) :
     result \in Results}

\* An append whose failure only the outer catch answers: the ledgers it can leave.
Appended(l, r, receipt) ==
  UNION {IF result = "ok" THEN {Written(l, receipt, result)}
         ELSE Unhandled(Written(l, receipt, result), r) : result \in Results}

\* The same for a receipt that carries the extra audit metadata: for a bulky
\* payload assertMetaSize throws before anything is written.
AppendedWithAudit(l, r, receipt) ==
  IF r.payload \in BulkyPayloads THEN Unhandled(l, r) ELSE Appended(l, r, receipt)

(***************************************************************************)
(* POST /egress/<tool>, up to its first await.                             *)
(***************************************************************************)
Answer(h) == handler' = [handler EXCEPT ![h] = Idle]
Await(h, pc, r) == handler' = [handler EXCEPT ![h] = Awaiting(pc, r)]

ToSend(op, payload) == sent' = Append(sent, [op |-> op, payload |-> payload])

\* A request; an approval it names is one Paperclip has issued.
Arrives(h, r) ==
  /\ handler[h].pc = "idle"
  /\ spent.requests < MaxRequests
  /\ r.approval # NoApproval => approvals[r.approval].status # "absent"
  /\ spent' = [spent EXCEPT !.requests = @ + 1]

\* Every refusal before the dispatch step (policy, citation gate, tier floor,
\* anonymizer, no Paperclip client) writes one receipt, with the approval named.
Refuse(h, r) ==
  /\ Arrives(h, r)
  /\ log' \in Appended(log, r, ReceiptOf("blocked", r, r.approval, NoOp))
  /\ UNCHANGED <<disk, handler, poller, approvals, sent, executed, acked>>

\* Variant: the performer is called even if the reservation could not be written.
ReserveBestEffort(h, r) ==
  LET op == PerformOp(r) IN
  IF Recorded(op)
  THEN log' = Flushed(log) /\ Answer(h) /\ UNCHANGED sent
  ELSE /\ \E result \in Results :
            log' = Written(log, ReceiptOf("reserved", r, r.approval, op), result)
       /\ ToSend(op, r.payload)
       /\ Await(h, "performing", r)

\* performAndReceipt up to its await: prove the store usable or give up (503),
\* refuse an identity that was ever recorded (409), make the reservation durable
\* or give up (503), and only then call the performer.
ReserveAndPerform(h, r) ==
  LET op == PerformOp(r)
      reservation == ReceiptOf("reserved", r, r.approval, op)
  IN \/ /\ disk = "failing"
        /\ Answer(h)
        /\ UNCHANGED <<log, sent>>
     \/ /\ Recorded(op)
        /\ log' = Flushed(log)
        /\ Answer(h)
        /\ UNCHANGED sent
     \/ /\ ~Recorded(op)
        /\ log' = Written(log, reservation, "ok")
        /\ ToSend(op, r.payload)
        /\ Await(h, "performing", r)
     \/ /\ ~Recorded(op)
        /\ \E result \in Results \ {"ok"} : log' = Written(log, reservation, result)
        /\ Answer(h)
        /\ UNCHANGED sent

\* A decision "allow" (or an anonymized prompt): straight to the performer.
Allow(h, r) ==
  /\ Arrives(h, r)
  /\ r.tool \notin HumanTools
  /\ ReserveAndPerform(h, r)
  /\ UNCHANGED <<disk, poller, approvals, executed, acked>>

\* The catch around humanGate: an error receipt with the approval the request
\* named and the operation of a first call.
GateError(l, r) == Appended(l, r, ReceiptOf("error", r, r.approval, HumanOp(r)))

\* A decision "human" on a first call: prove the store usable, reserve, then
\* humanGate creates an approval.
RequestApproval(h, r) ==
  LET op == ApprovalOp(r)
      reservation == ReceiptOf("reserved", r, NoApproval, op)
  IN /\ Arrives(h, r)
     /\ r.tool \in HumanTools /\ r.approval = NoApproval
     /\ \/ /\ disk = "failing"
           /\ log' \in GateError(log, r)
           /\ UNCHANGED <<handler, sent>>
        \/ /\ Recorded(op)
           /\ log' = Flushed(log)
           /\ UNCHANGED <<handler, sent>>
        \/ /\ ~Recorded(op)
           /\ log' = Written(log, reservation, "ok")
           /\ ToSend(op, NoPayload)
           /\ Await(h, "creating", r)
        \/ /\ ~Recorded(op)
           /\ \E result \in Results \ {"ok"} :
                log' \in GateError(Written(log, reservation, result), r)
           /\ UNCHANGED <<handler, sent>>
     /\ UNCHANGED <<disk, poller, approvals, executed, acked>>

\* A decision "human" on re-entry: humanGate asks Paperclip for the approval.
Reenter(h, r) ==
  /\ Arrives(h, r)
  /\ r.tool \in HumanTools /\ r.approval # NoApproval
  /\ \/ log' = Flushed(log) /\ Await(h, "checking", r)
     \/ disk = "failing" /\ log' \in GateError(log, r) /\ UNCHANGED handler
  /\ UNCHANGED <<disk, poller, approvals, sent, executed, acked>>

(***************************************************************************)
(* humanGate, first call: createApproval, then (when the request names an  *)
(* issue) linkIssueApproval and postIssueComment, awaited as "notifying".  *)
(***************************************************************************)

\* External: Paperclip carries the creation out.
CreateApproval(h, a) ==
  /\ handler[h].pc = "creating" /\ handler[h].made = NoApproval
  /\ approvals[a].status = "absent"
  /\ approvals' = [approvals EXCEPT
       ![a] = [status |-> "pending", binds |-> BindingSha(handler[h].req.payload),
               op |-> ApprovalOp(handler[h].req)]]
  /\ handler' = [handler EXCEPT ![h].made = a]
  /\ UNCHANGED <<log, disk, poller, sent, executed, acked, spent>>

\* The pending receipt and the 202: the receipt carries the audit metadata.
ReportPending(h, a) ==
  LET r == handler[h].req IN
  /\ log' \in AppendedWithAudit(log, r, ReceiptOf("pending", r, a, HumanOp(r)))
  /\ Answer(h)
  /\ UNCHANGED <<disk, poller, approvals, sent, executed, acked, spent>>

CreateReturns(h) ==
  /\ handler[h].pc = "creating" /\ handler[h].made # NoApproval
  /\ IF handler[h].req.issue = NoIssue
     THEN ReportPending(h, handler[h].made)
     ELSE /\ handler' = [handler EXCEPT ![h].pc = "notifying"]
          /\ UNCHANGED <<log, disk, poller, approvals, sent, executed, acked, spent>>

NotifyReturns(h) ==
  /\ handler[h].pc = "notifying"
  /\ ReportPending(h, handler[h].made)

\* A call to Paperclip fails or times out, whether or not it was carried out.
PaperclipFails(h) ==
  /\ handler[h].pc \in {"creating", "notifying", "checking"}
  /\ spent.faults < MaxFaults
  /\ spent' = [spent EXCEPT !.faults = @ + 1]
  /\ log' \in GateError(log, handler[h].req)
  /\ Answer(h)
  /\ UNCHANGED <<disk, poller, approvals, sent, executed, acked>>

(***************************************************************************)
(* humanGate, re-entry.                                                    *)
(***************************************************************************)

\* External: Paperclip answers with the status it has now; the answer travels.
ReadApproval(h) ==
  /\ handler[h].pc = "checking" /\ handler[h].seen = "unread"
  /\ handler' = [handler EXCEPT ![h].seen = approvals[handler[h].req.approval].status]
  /\ UNCHANGED <<log, disk, poller, approvals, sent, executed, acked, spent>>

\* The receipt and the 403 of a re-entry the gate refuses.
BlockReentry(h) ==
  LET r == handler[h].req IN
  /\ log' \in Appended(log, r, ReceiptOf("blocked", r, r.approval, NoOp))
  /\ Answer(h)
  /\ UNCHANGED <<disk, poller, approvals, sent, executed, acked, spent>>

\* An approval binds the payload it was created for.
BoundTo(r) == approvals[r.approval].binds = BindingSha(r.payload)

\* Variant: a request for revision is not taken for a refusal.
RefusedOnlyIfRejected == {"rejected"}

\* The decisions that close an approval without granting it.
Refused == {"rejected", "revision_requested"}

ResumePending(h) == handler[h].seen = "pending" /\ ReportPending(h, handler[h].req.approval)

ResumeRefused(h) == handler[h].seen \in Refused /\ BlockReentry(h)

\* Approved, for another payload, or by a human the approver check refuses.
ResumeBlocked(h) == handler[h].seen = "approved" /\ BlockReentry(h)

\* Approved, for this payload, by an approver the check accepts.
ResumeApproved(h) ==
  /\ handler[h].seen = "approved"
  /\ BoundTo(handler[h].req)
  /\ ReserveAndPerform(h, handler[h].req)
  /\ UNCHANGED <<disk, poller, approvals, executed, acked, spent>>

Resume(h) ==
  /\ handler[h].pc = "checking"
  /\ ResumePending(h) \/ ResumeRefused(h) \/ ResumeBlocked(h) \/ ResumeApproved(h)

(***************************************************************************)
(* The performer.                                                          *)
(***************************************************************************)

\* External: the vendor carries the operation out.
Execute(h) ==
  LET op == PerformOp(handler[h].req) IN
  /\ handler[h].pc = "performing"
  /\ op \notin executed
  /\ executed' = executed \cup {op}
  /\ UNCHANGED <<log, disk, handler, poller, approvals, sent, acked, spent>>

\* The catch of performAndReceipt: its error receipt carries the audit metadata too.
PerformError(l, r) ==
  AppendedWithAudit(l, r, ReceiptOf("error", r, r.approval, PerformOp(r)))

\* Variant: the 200 is sent before the performed receipt is known to be written.
PerformReturnsEarly(h) ==
  LET r  == handler[h].req
      op == PerformOp(r)
  IN /\ handler[h].pc = "performing"
     /\ op \in executed
     /\ log' \in AppendedWithAudit(log, r, ReceiptOf("performed", r, r.approval, op))
     /\ acked' = acked \cup {op}
     /\ Answer(h)
     /\ UNCHANGED <<disk, poller, approvals, sent, executed, spent>>

PerformReturns(h) ==
  LET r  == handler[h].req
      op == PerformOp(r)
      performed == ReceiptOf("performed", r, r.approval, op)
  IN /\ handler[h].pc = "performing"
     /\ op \in executed
     /\ \/ /\ r.payload \notin BulkyPayloads
           /\ log' = Written(log, performed, "ok")
           /\ acked' = acked \cup {op}
        \/ /\ \/ /\ r.payload \in BulkyPayloads
                 /\ log' \in PerformError(log, r)
              \/ /\ r.payload \notin BulkyPayloads
                 /\ \E result \in Results \ {"ok"} :
                      log' \in PerformError(Written(log, performed, result), r)
           /\ UNCHANGED acked
     /\ Answer(h)
     /\ UNCHANGED <<disk, poller, approvals, sent, executed, spent>>

\* The performer throws or times out, whether or not the vendor acted.
PerformFails(h) ==
  /\ handler[h].pc = "performing"
  /\ spent.faults < MaxFaults
  /\ spent' = [spent EXCEPT !.faults = @ + 1]
  /\ log' \in PerformError(log, handler[h].req)
  /\ Answer(h)
  /\ UNCHANGED <<disk, poller, approvals, sent, executed, acked>>

(***************************************************************************)
(* The rejection poller.                                                   *)
(***************************************************************************)

\* Approvals some receipt other than "pending" and "reserved" names.
Resolved(a) ==
  \E i \in 1 .. Len(log.lines) :
    /\ log.lines[i].approval = a
    /\ log.lines[i].outcome \notin {"pending", "reserved"}

\* What the comment on findUnresolvedApprovals says resolves an approval: a later
\* receipt, performed or blocked, with the same approvalId.
ResolvedAsDocumented(a, i) ==
  \E j \in i + 1 .. Len(log.lines) :
    log.lines[j].approval = a /\ log.lines[j].outcome \in {"performed", "blocked"}

\* A pending receipt that names an approval.
PendingAt(i) == log.lines[i].outcome = "pending" /\ log.lines[i].approval # NoApproval

\* findUnresolvedApprovals: the first pending receipt of each unresolved approval.
FindUnresolved ==
  {[approval |-> log.lines[i].approval, tool |-> log.lines[i].tool,
    issue |-> log.lines[i].issue] :
     i \in {j \in 1 .. Len(log.lines) :
              /\ PendingAt(j)
              /\ ~Resolved(log.lines[j].approval)
              /\ \A k \in 1 .. j - 1 :
                   ~(PendingAt(k) /\ log.lines[k].approval = log.lines[j].approval)}}

PollStart ==
  /\ poller.pc = "idle"
  /\ FindUnresolved # {}
  /\ poller' = [PollerIdle EXCEPT !.pc = "next", !.todo = FindUnresolved]
  /\ UNCHANGED <<log, disk, handler, approvals, sent, executed, acked, spent>>

\* Go on to the next approval of this pass, or end the pass.
NextItem(u) ==
  poller' = IF poller.todo = {u} THEN PollerIdle
            ELSE [PollerIdle EXCEPT !.pc = "next", !.todo = poller.todo \ {u}]

\* The per-approval try: the store must be usable before even the status is read.
PollAsk(u) ==
  /\ poller.pc = "next" /\ u \in poller.todo
  /\ \/ /\ log' = Flushed(log)
        /\ poller' = [poller EXCEPT !.pc = "reading", !.cur = u]
     \/ /\ disk = "failing"
        /\ NextItem(u)
        /\ UNCHANGED log
  /\ UNCHANGED <<disk, handler, approvals, sent, executed, acked, spent>>

PollRead ==
  /\ poller.pc = "reading" /\ poller.seen = "unread"
  /\ poller' = [poller EXCEPT !.seen = approvals[poller.cur.approval].status]
  /\ UNCHANGED <<log, disk, handler, approvals, sent, executed, acked, spent>>

PollReceipt(outcome) ==
  ReceiptOf(outcome, poller.cur, poller.cur.approval,
            IF poller.cur.issue = NoIssue THEN NoOp ELSE CommentOp(poller.cur))

\* An append in the poller: a throw moves on to the next approval.
PollAppend(outcome) == \E result \in Results : log' = Written(log, PollReceipt(outcome), result)

PollReadReturns ==
  /\ poller.pc = "reading" /\ poller.seen # "unread"
  /\ \/ /\ poller.seen \notin Refused
        /\ NextItem(poller.cur)
        /\ UNCHANGED <<log, sent>>
     \/ /\ poller.seen \in Refused
        /\ poller.cur.issue = NoIssue
        /\ PollAppend("blocked")
        /\ NextItem(poller.cur)
        /\ UNCHANGED sent
     \/ /\ poller.seen \in Refused
        /\ poller.cur.issue # NoIssue
        /\ Recorded(CommentOp(poller.cur))
        /\ NextItem(poller.cur)
        /\ UNCHANGED <<log, sent>>
     \/ /\ poller.seen \in Refused
        /\ poller.cur.issue # NoIssue
        /\ ~Recorded(CommentOp(poller.cur))
        /\ \/ /\ log' = Written(log, PollReceipt("reserved"), "ok")
              /\ ToSend(CommentOp(poller.cur), NoPayload)
              /\ poller' = [poller EXCEPT !.pc = "commenting"]
           \/ /\ \E result \in Results \ {"ok"} :
                   log' = Written(log, PollReceipt("reserved"), result)
              /\ NextItem(poller.cur)
              /\ UNCHANGED sent
  /\ UNCHANGED <<disk, handler, approvals, executed, acked, spent>>

PollCommentReturns ==
  /\ poller.pc = "commenting"
  /\ PollAppend("blocked")
  /\ NextItem(poller.cur)
  /\ UNCHANGED <<disk, handler, approvals, sent, executed, acked, spent>>

\* getApproval or postIssueComment fails: skip to the next approval.
PollFails ==
  /\ poller.pc \in {"reading", "commenting"}
  /\ spent.faults < MaxFaults
  /\ spent' = [spent EXCEPT !.faults = @ + 1]
  /\ NextItem(poller.cur)
  /\ UNCHANGED <<log, disk, handler, approvals, sent, executed, acked>>

(***************************************************************************)
(* The environment.                                                        *)
(***************************************************************************)

\* A human decides in the Paperclip dashboard; a decision is final.
Decide(a, decision) ==
  /\ approvals[a].status = "pending"
  /\ decision # "pending"
  /\ approvals' = [approvals EXCEPT ![a].status = decision]
  /\ UNCHANGED <<log, disk, handler, poller, sent, executed, acked, spent>>

DiskTrouble ==
  /\ disk = "sound" /\ spent.faults < MaxFaults
  /\ spent' = [spent EXCEPT !.faults = @ + 1]
  /\ disk' = "failing"
  /\ UNCHANGED <<log, handler, poller, approvals, sent, executed, acked>>

DiskRepaired ==
  /\ disk = "failing" /\ disk' = "sound"
  /\ UNCHANGED <<log, handler, poller, approvals, sent, executed, acked, spent>>

\* The process dies (killed, shutdown deadline, or a power loss that keeps only
\* a prefix of the file no shorter than what was fsynced) and is started again.
\* Nothing the gate keeps in memory is needed: every decision rereads the ledger.
CrashAndRestart(keep) ==
  /\ spent.crashes < MaxCrashes
  /\ spent' = [spent EXCEPT !.crashes = @ + 1]
  /\ keep \in log.synced .. Len(log.lines)
  /\ log' = [log EXCEPT !.lines = SubSeq(@, 1, keep)]
  /\ handler' = [h \in Handlers |-> Idle]
  /\ poller' = PollerIdle
  /\ UNCHANGED <<disk, approvals, sent, executed, acked>>

-------------------------------------------------------------------------------
Init ==
  /\ log = [lines |-> <<>>, synced |-> 0]
  /\ disk = "sound"
  /\ handler = [h \in Handlers |-> Idle]
  /\ poller = PollerIdle
  /\ approvals = [a \in Approvals |-> [status |-> "absent", binds |-> NoPayload, op |-> NoOp]]
  /\ sent = <<>>
  /\ executed = {}
  /\ acked = {}
  /\ spent = [requests |-> 0, faults |-> 0, crashes |-> 0]

Receive(h) ==
  \E r \in Request : Refuse(h, r) \/ Allow(h, r) \/ RequestApproval(h, r) \/ Reenter(h, r)

\* What the gate does with the answer to a call it awaits.
Continue(h) == CreateReturns(h) \/ NotifyReturns(h) \/ Resume(h) \/ PerformReturns(h)

\* What the services a request depends on do.
Service(h) == (\E a \in Approvals : CreateApproval(h, a)) \/ ReadApproval(h) \/ Execute(h)

Fail(h) == PaperclipFails(h) \/ PerformFails(h)

Poll == PollStart \/ (\E u \in poller.todo : PollAsk(u)) \/ PollRead \/ PollReadReturns
          \/ PollCommentReturns

Environment ==
  \/ \E a \in Approvals, decision \in Decision : Decide(a, decision)
  \/ DiskTrouble
  \/ DiskRepaired
  \/ \E keep \in 0 .. Len(log.lines) : CrashAndRestart(keep)

Next ==
  \/ \E h \in Handlers : Receive(h) \/ Continue(h) \/ Service(h) \/ Fail(h)
  \/ Poll
  \/ PollFails
  \/ Environment

Spec == Init /\ [][Next]_vars

\* The event loop runs whatever is ready, the services answer, and the poller's
\* interval timer keeps firing.
Fairness ==
  /\ \A h \in Handlers : WF_vars(Continue(h)) /\ WF_vars(Service(h))
  /\ WF_vars(Poll)

FairSpec == Spec /\ Fairness

-------------------------------------------------------------------------------
(***************************************************************************)
(* Properties.                                                             *)
(***************************************************************************)
TypeOK ==
  /\ log \in [lines: Seq(Receipt), synced: Nat] /\ log.synced <= Len(log.lines)
  /\ disk \in {"sound", "failing"}
  /\ handler \in [Handlers -> HandlerState]
  /\ \A h \in Handlers :
       /\ handler[h].pc # "idle" => handler[h].req \in Request
       /\ handler[h].pc = "notifying" => handler[h].made # NoApproval
       /\ handler[h].pc = "checking" => handler[h].req.approval # NoApproval
  /\ poller \in PollerState
  /\ poller.pc \in {"reading", "commenting"} => poller.cur \in poller.todo
  /\ approvals \in [Approvals -> ApprovalState]
  /\ sent \in Seq(SentCall)
  /\ executed \subseteq Operation
  /\ acked \subseteq Operation
  /\ spent \in [requests: Nat, faults: Nat, crashes: Nat]

\* The operation is on a line no power loss can take back.
DurablyRecorded(op) == \E i \in 1 .. log.synced : log.lines[i].op = op

\* One identity, one call: whatever crashes, retries, concurrent requests and
\* poller passes do, an operation identity is handed to its external service at
\* most once, in all lives of the process together (README: an identical action
\* is not silently replayed after response loss).
AtMostOnceDispatch ==
  \A i, j \in 1 .. Len(sent) : sent[i].op = sent[j].op => i = j

\* No call leaves the process without a reservation that survives a power loss,
\* so an operator can always find an action that may have happened.
ReservedBeforeDispatch == \A i \in 1 .. Len(sent) : DurablyRecorded(sent[i].op)

\* A payload of a human-gated tool reaches its performer only under an approval
\* that a human granted, and that was asked for that very payload: not merely for
\* one with the same receipt hash (a binary upload hashes its bytes only).
HumanGateHonoured ==
  \A i \in 1 .. Len(sent) :
    LET op == sent[i].op IN
    op.target = "performer" /\ op.tool \in HumanTools =>
      /\ op.approval # NoApproval
      /\ approvals[op.approval].status = "approved"
      /\ approvals[op.approval].binds = sent[i].payload

\* A "200" is never ahead of the ledger: what was acknowledged was carried out,
\* and its performed receipt survives a power loss.
AckedIsDurable ==
  \A op \in acked :
    /\ op \in executed
    /\ \E i \in 1 .. log.synced : log.lines[i].op = op /\ log.lines[i].outcome = "performed"

\* The ledger does not claim what did not happen, in the order it happened: a
\* performed receipt is for an operation the vendor carried out, and every
\* outcome of a performer operation comes after its reservation.
HonestLedger ==
  \A i \in 1 .. Len(log.lines) :
    LET line == log.lines[i] IN
    line.op # NoOp /\ line.outcome # "reserved" /\ line.op.target = "performer" =>
      /\ \E k \in 1 .. i - 1 : log.lines[k].op = line.op /\ log.lines[k].outcome = "reserved"
      /\ line.outcome = "performed" => line.op \in executed

\* The blocked receipt that tells the agent's issue of a rejection.
Told(a) == \E i \in 1 .. Len(log.lines) :
             log.lines[i].approval = a /\ log.lines[i].outcome = "blocked"

\* A pending receipt that no power loss can take back.
DurablyPending(a) == \E i \in 1 .. log.synced :
                       log.lines[i].approval = a /\ log.lines[i].outcome = "pending"

Rejected(a) == approvals[a].status \in {"rejected", "revision_requested"}

\* A comment the poller reserved and perhaps posted.
CommentReserved(a) == \E i \in 1 .. Len(log.lines) :
                        /\ log.lines[i].approval = a /\ log.lines[i].outcome = "reserved"
                        /\ log.lines[i].op.target = "paperclip_comment"

\* An error receipt that names the approval: findUnresolvedApprovals leaves it out.
HiddenByError(a) == \E i \in 1 .. Len(log.lines) :
                      log.lines[i].approval = a /\ log.lines[i].outcome = "error"

\* An ungated request that named the approval was performed.
CitedElsewhere(a) == \E i \in 1 .. Len(log.lines) :
                       /\ log.lines[i].approval = a /\ log.lines[i].outcome = "performed"
                       /\ log.lines[i].tool \notin HumanTools

\* A rejection of an approval with a durable pending receipt ends in a blocked
\* receipt that names it, through the poller if the agent never comes back, as
\* long as no disk trouble lasts for ever.  Without a failed call, disk trouble or
\* a crash only one thing may stand in its place: the performed receipt of an
\* ungated request that carried the approval's id.  After one, two more may: an
\* error receipt with that id, and a comment that was reserved and has no outcome.
RejectionNoticed ==
  []<>(disk = "sound") =>
    \A a \in Approvals :
      DurablyPending(a) /\ Rejected(a)
        ~> \/ Told(a)
           \/ CitedElsewhere(a)
           \/ spent.faults + spent.crashes > 0 /\ (HiddenByError(a) \/ CommentReserved(a))

\* The contract stated on findUnresolvedApprovals: every pending receipt without a
\* later performed or blocked receipt for its approval is one the poller looks at.
PollerSeesUnresolved ==
  \A i \in 1 .. Len(log.lines) :
    PendingAt(i) /\ ~ResolvedAsDocumented(log.lines[i].approval, i)
      => \E u \in FindUnresolved : u.approval = log.lines[i].approval

\* An approval that was created and whose request has been answered is on the
\* ledger under its id: the agent can resume it and the poller can see it.
AnsweredApprovalIsReceipted ==
  \A a \in Approvals :
    approvals[a].status # "absent" /\ (\A h \in Handlers : handler[h].made # a)
      => \E i \in 1 .. Len(log.lines) : log.lines[i].approval = a

(***************************************************************************)
(* The promise the dispatch core implements.                               *)
(***************************************************************************)
DurableOperations == {log.lines[i].op : i \in 1 .. log.synced} \ {NoOp}
Called == {sent[i].op : i \in 1 .. Len(sent)}

OneShot == INSTANCE OneShotDispatch
             WITH used <- DurableOperations, called <- Called,
                  done <- executed, answered <- acked

\* Every step of the gate, the crashes, power losses and disk faults included, is
\* a step of the one-shot promise: identities used up stay used up, and only a
\* fresh identity is ever called.
ImplementsOneShot == OneShot!Spec

===============================================================================

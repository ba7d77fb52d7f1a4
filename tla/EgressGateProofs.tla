--------------------------- MODULE EgressGateProofs ---------------------------
(***************************************************************************)
(* Theorems about EgressGate, for any number of requests, faults, crashes  *)
(* and concurrent handlers.                                                *)
(*                                                                         *)
(* The argument for one dispatch per identity: every step leaves the       *)
(* durable prefix of the ledger in place (Keeps); every call is made in    *)
(* the step that makes its reservation durable; and a call is made only if *)
(* its identity is on no line.  So all identities ever called are on       *)
(* durable lines, and a new call is for none of them.                      *)
(***************************************************************************)
EXTENDS EgressGate, TLAPS

\* Well-formed ledgers.
Ledger == {l \in [lines: Seq(Receipt), synced: Nat] : l.synced <= Len(l.lines)}

\* m keeps every durable line of l, and forgets none of its durability.
Keeps(l, m) ==
  /\ m \in Ledger
  /\ l.synced <= m.synced
  /\ \A i \in 1 .. l.synced : m.lines[i] = l.lines[i]

LEMMA ReceiptType ==
  ASSUME NEW outcome \in Outcome, NEW r, r.tool \in Tools, r.issue \in Issues \cup {NoIssue},
         NEW approval \in Approvals \cup {NoApproval}, NEW op \in Operation \cup {NoOp}
  PROVE  ReceiptOf(outcome, r, approval, op) \in Receipt
BY DEF ReceiptOf, Receipt

\* However an append ends, the durable lines stay, and an append that returns has
\* made its receipt the last durable line.
LEMMA WrittenKeeps ==
  ASSUME NEW l \in Ledger, NEW receipt \in Receipt, NEW result
  PROVE  /\ Keeps(l, Written(l, receipt, result))
         /\ result = "ok" =>
              LET m == Written(l, receipt, result)
              IN  m.synced = Len(m.lines) /\ m.synced >= 1 /\ m.lines[m.synced] = receipt
<1>1. /\ l.lines \in Seq(Receipt) /\ l.synced \in Nat /\ l.synced <= Len(l.lines)
      /\ Len(l.lines) \in Nat
  BY DEF Ledger
<1>2. /\ Append(l.lines, receipt) \in Seq(Receipt)
      /\ Len(Append(l.lines, receipt)) = Len(l.lines) + 1
      /\ \A i \in 1 .. Len(l.lines) : Append(l.lines, receipt)[i] = l.lines[i]
      /\ Append(l.lines, receipt)[Len(l.lines) + 1] = receipt
  BY <1>1
<1>3. CASE result = "lost"
  BY <1>1, <1>3 DEF Written, Keeps, Ledger
<1>4. CASE result # "lost"
  BY <1>1, <1>2, <1>4 DEF Written, Keeps, Ledger
<1>5. QED
  BY <1>3, <1>4

LEMMA FlushedKeeps ==
  ASSUME NEW l \in Ledger
  PROVE  Keeps(l, Flushed(l))
BY DEF Keeps, Ledger, Flushed

LEMMA KeepsTransitive ==
  ASSUME NEW l \in Ledger, NEW m, NEW n, Keeps(l, m), Keeps(m, n)
  PROVE  Keeps(l, n)
BY DEF Keeps, Ledger

\* The receipts the handlers write are receipts, and the identities operations.
LEMMA OperationTypes ==
  ASSUME NEW r \in Request
  PROVE  /\ PerformOp(r) \in Operation /\ ApprovalOp(r) \in Operation
         /\ HumanOp(r) \in Operation \cup {NoOp}
         /\ r.tool \in Tools /\ r.issue \in Issues \cup {NoIssue}
         /\ r.approval \in Approvals \cup {NoApproval}
         /\ r.payload \in Payloads
BY DataAssumption
   DEF Request, Operation, PerformOp, ApprovalOp, HumanOp, OperationId

LEMMA UnhandledKeeps ==
  ASSUME NEW l \in Ledger, NEW r \in Request, NEW m \in Unhandled(l, r)
  PROVE  Keeps(l, m)
<1>1. PICK result \in Results :
        m = Written(l, ReceiptOf("error", [r EXCEPT !.issue = NoIssue], NoApproval, NoOp), result)
  BY DEF Unhandled
<1>2. ReceiptOf("error", [r EXCEPT !.issue = NoIssue], NoApproval, NoOp) \in Receipt
  BY DEF ReceiptOf, Receipt, Outcome, Request
<1>3. QED
  BY <1>1, <1>2, WrittenKeeps

LEMMA AppendedKeeps ==
  ASSUME NEW l \in Ledger, NEW r \in Request, NEW receipt \in Receipt,
         NEW m \in Appended(l, r, receipt)
  PROVE  Keeps(l, m)
<1>1. PICK result \in Results :
        m \in IF result = "ok" THEN {Written(l, receipt, result)}
              ELSE Unhandled(Written(l, receipt, result), r)
  BY DEF Appended
<1>2. Keeps(l, Written(l, receipt, result)) /\ Written(l, receipt, result) \in Ledger
  BY WrittenKeeps DEF Keeps
<1>3. CASE result = "ok"
  BY <1>1, <1>2, <1>3
<1>4. CASE result # "ok"
  <2>1. Keeps(Written(l, receipt, result), m)
    BY <1>1, <1>2, <1>4, UnhandledKeeps
  <2>2. QED
    BY <1>2, <2>1, KeepsTransitive
<1>5. QED
  BY <1>3, <1>4

LEMMA AppendedWithAuditKeeps ==
  ASSUME NEW l \in Ledger, NEW r \in Request, NEW receipt \in Receipt,
         NEW m \in AppendedWithAudit(l, r, receipt)
  PROVE  Keeps(l, m)
BY AppendedKeeps, UnhandledKeeps DEF AppendedWithAudit

LEMMA ErrorsKeep ==
  ASSUME NEW l \in Ledger, NEW r \in Request
  PROVE  /\ \A m \in GateError(l, r) : Keeps(l, m)
         /\ \A m \in PerformError(l, r) : Keeps(l, m)
<1>1. /\ ReceiptOf("error", r, r.approval, HumanOp(r)) \in Receipt
      /\ ReceiptOf("error", r, r.approval, PerformOp(r)) \in Receipt
  BY OperationTypes, ReceiptType DEF Outcome
<1>2. QED
  BY <1>1, AppendedKeeps, AppendedWithAuditKeeps DEF GateError, PerformError

\* A prefix no shorter than what was fsynced keeps the durable lines.
LEMMA PrefixKeeps ==
  ASSUME NEW l \in Ledger, NEW keep \in l.synced .. Len(l.lines)
  PROVE  Keeps(l, [l EXCEPT !.lines = SubSeq(@, 1, keep)])
<1>1. /\ l.lines \in Seq(Receipt) /\ l.synced \in Nat /\ keep \in Nat /\ keep <= Len(l.lines)
      /\ l.synced <= keep
  BY DEF Ledger
<1>2. /\ SubSeq(l.lines, 1, keep) \in Seq(Receipt)
      /\ Len(SubSeq(l.lines, 1, keep)) = keep
      /\ \A i \in 1 .. keep : SubSeq(l.lines, 1, keep)[i] = l.lines[i]
  BY <1>1
<1>3. [l EXCEPT !.lines = SubSeq(@, 1, keep)] = [lines |-> SubSeq(l.lines, 1, keep), synced |-> l.synced]
  <2>1. l \in [lines: Seq(Receipt), synced: Nat]
    BY DEF Ledger
  <2>2. QED
    BY <2>1
<1>4. Keeps(l, [lines |-> SubSeq(l.lines, 1, keep), synced |-> l.synced])
  BY <1>1, <1>2 DEF Keeps, Ledger
<1>5. QED
  BY <1>3, <1>4

-------------------------------------------------------------------------------
(***************************************************************************)
(* What a step does to the ledger and to the calls made.                   *)
(***************************************************************************)
QuietStep == Keeps(log, log') /\ sent' = sent

\* A call of a fresh identity, durably reserved by the end of the step.
CallStep ==
  \E op \in Operation, payload \in Payloads \cup {NoPayload} :
    /\ ~Recorded(op)
    /\ sent' = Append(sent, [op |-> op, payload |-> payload])
    /\ Keeps(log, log')
    /\ log'.synced \in Nat /\ log'.synced >= 1
    /\ log'.lines[log'.synced].op = op /\ log'.lines[log'.synced].outcome = "reserved"

LEMMA LedgerTyped == TypeOK => log \in Ledger
BY DEF TypeOK, Ledger

LEMMA UnchangedKeeps == TypeOK => Keeps(log, log)
BY LedgerTyped DEF Keeps, Ledger

LEMMA ReserveStep ==
  ASSUME TypeOK, NEW h \in Handlers, NEW r \in Request, ReserveAndPerform(h, r)
  PROVE  /\ QuietStep \/ CallStep
         /\ handler' = [handler EXCEPT ![h] = Idle]
              \/ handler' = [handler EXCEPT ![h] = Awaiting("performing", r)]
<1> DEFINE op == PerformOp(r)
           reservation == ReceiptOf("reserved", r, r.approval, op)
<1>1. log \in Ledger /\ op \in Operation /\ reservation \in Receipt /\ r.payload \in Payloads
  BY LedgerTyped, OperationTypes, ReceiptType DEF Outcome
<1>2. reservation.op = op /\ reservation.outcome = "reserved"
  BY DEF ReceiptOf
<1>3. CASE Recorded(op) /\ log' = Flushed(log) /\ Answer(h) /\ UNCHANGED sent
  BY <1>1, <1>3, FlushedKeeps DEF QuietStep, Answer
<1>4. CASE /\ ~Recorded(op) /\ log' = Written(log, reservation, "ok")
           /\ ToSend(op, r.payload) /\ Await(h, "performing", r)
  <2>1. /\ Keeps(log, log')
        /\ log'.synced = Len(log'.lines) /\ log'.synced >= 1
        /\ log'.lines[log'.synced] = reservation
    BY <1>1, <1>4, WrittenKeeps
  <2>2. log'.synced \in Nat
    BY <2>1 DEF Keeps, Ledger
  <2>3. CallStep
    BY <1>1, <1>2, <1>4, <2>1, <2>2 DEF CallStep, ToSend
  <2>4. QED
    BY <1>4, <2>3 DEF Await
<1>5. CASE /\ ~Recorded(op)
           /\ \E result \in Results \ {"ok"} : log' = Written(log, reservation, result)
           /\ Answer(h) /\ UNCHANGED sent
  BY <1>1, <1>5, WrittenKeeps DEF QuietStep, Answer
<1>6. CASE Answer(h) /\ UNCHANGED <<log, sent>>
  BY <1>6, UnchangedKeeps DEF QuietStep, Answer
<1>7. QED
  BY <1>3, <1>4, <1>5, <1>6 DEF ReserveAndPerform

\* The handlers' part of TypeOK.
HandlersOK ==
  /\ handler \in [Handlers -> HandlerState]
  /\ \A h \in Handlers :
       /\ handler[h].pc # "idle" => handler[h].req \in Request
       /\ handler[h].pc = "notifying" => handler[h].made # NoApproval
       /\ handler[h].pc = "checking" => handler[h].req.approval # NoApproval

LEMMA HandlerUpdates ==
  ASSUME HandlersOK, NEW h \in Handlers, NEW r \in Request,
         NEW pc \in {"creating", "checking", "performing"},
         pc = "checking" => r.approval # NoApproval
  PROVE  /\ handler' = handler => HandlersOK'
         /\ handler' = [handler EXCEPT ![h] = Idle] => HandlersOK'
         /\ handler' = [handler EXCEPT ![h] = Awaiting(pc, r)] => HandlersOK'
<1>1. Idle \in HandlerState /\ Idle.pc = "idle"
  BY DEF Idle, HandlerState
<1>2. /\ Awaiting(pc, r) \in HandlerState
      /\ Awaiting(pc, r).req = r /\ Awaiting(pc, r).pc = pc
  BY DEF Awaiting, HandlerState, Waiting
<1>3. QED
  BY <1>1, <1>2 DEF HandlersOK

\* The rest of TypeOK that most steps leave alone.
PollerOK ==
  /\ poller \in PollerState
  /\ poller.pc \in {"reading", "commenting"} => poller.cur \in poller.todo

WorldOK ==
  /\ disk \in {"sound", "failing"}
  /\ approvals \in [Approvals -> ApprovalState]
  /\ executed \subseteq Operation
  /\ acked \subseteq Operation
  /\ spent \in [requests: Nat, faults: Nat, crashes: Nat]

LEMMA TypeParts ==
  TypeOK <=> /\ log \in Ledger /\ HandlersOK /\ PollerOK /\ WorldOK /\ sent \in Seq(SentCall)
BY DEF TypeOK, Ledger, HandlersOK, PollerOK, WorldOK

LEMMA TypePartsNext ==
  TypeOK' <=> /\ log' \in Ledger /\ HandlersOK' /\ PollerOK' /\ WorldOK' /\ sent' \in Seq(SentCall)
BY DEF TypeOK, Ledger, HandlersOK, PollerOK, WorldOK

\* A quiet step or a call keeps the ledger and the list of calls well typed.
LEMMA StepTypes ==
  ASSUME TypeOK, QuietStep \/ CallStep
  PROVE  log' \in Ledger /\ sent' \in Seq(SentCall)
<1>1. sent \in Seq(SentCall)
  BY DEF TypeOK
<1>2. CASE QuietStep
  BY <1>1, <1>2 DEF QuietStep, Keeps
<1>3. CASE CallStep
  <2>1. PICK op \in Operation, payload \in Payloads \cup {NoPayload} :
          sent' = Append(sent, [op |-> op, payload |-> payload]) /\ Keeps(log, log')
    BY <1>3 DEF CallStep
  <2>2. [op |-> op, payload |-> payload] \in SentCall
    BY DEF SentCall
  <2>3. QED
    BY <1>1, <2>1, <2>2 DEF Keeps
<1>4. QED
  BY <1>2, <1>3

LEMMA CountTypes ==
  ASSUME WorldOK
  PROVE  /\ spent' = [spent EXCEPT !.requests = @ + 1] => spent' \in [requests: Nat, faults: Nat, crashes: Nat]
         /\ spent' = [spent EXCEPT !.faults = @ + 1] => spent' \in [requests: Nat, faults: Nat, crashes: Nat]
         /\ spent' = [spent EXCEPT !.crashes = @ + 1] => spent' \in [requests: Nat, faults: Nat, crashes: Nat]
BY DEF WorldOK

\* What every step of the gate does: it keeps the types, and it is quiet or a call.
StepOK == TypeOK' /\ (QuietStep \/ CallStep)

LEMMA QuietStepOK ==
  ASSUME TypeOK, QuietStep \/ CallStep, HandlersOK', PollerOK', WorldOK'
  PROVE  StepOK
BY StepTypes, TypePartsNext DEF StepOK

LEMMA ReceiveStep ==
  ASSUME TypeOK, NEW h \in Handlers, NEW r \in Request,
         Refuse(h, r) \/ Allow(h, r) \/ RequestApproval(h, r) \/ Reenter(h, r)
  PROVE  StepOK
<1>1. log \in Ledger /\ HandlersOK /\ PollerOK /\ WorldOK
  BY TypeParts
<1>2. spent' \in [requests: Nat, faults: Nat, crashes: Nat]
  BY <1>1, CountTypes DEF Refuse, Allow, RequestApproval, Reenter, Arrives
<1>3. WorldOK' /\ PollerOK'
  BY <1>1, <1>2 DEF Refuse, Allow, RequestApproval, Reenter, WorldOK, PollerOK
<1>4. CASE Refuse(h, r)
  <2>1. ReceiptOf("blocked", r, r.approval, NoOp) \in Receipt
    BY OperationTypes, ReceiptType DEF Outcome
  <2>2. QuietStep
    BY <1>1, <1>4, <2>1, AppendedKeeps DEF Refuse, QuietStep
  <2>3. HandlersOK'
    BY <1>1, <1>4 DEF Refuse, HandlersOK
  <2>4. QED
    BY <1>3, <2>2, <2>3, QuietStepOK
<1>5. CASE Allow(h, r)
  <2>1. ReserveAndPerform(h, r)
    BY <1>5 DEF Allow
  <2>2. HandlersOK'
    BY <1>1, <2>1, ReserveStep, HandlerUpdates
  <2>3. QED
    BY <1>3, <2>1, <2>2, ReserveStep, QuietStepOK
<1>6. CASE RequestApproval(h, r)
  <2> DEFINE op == ApprovalOp(r)
             reservation == ReceiptOf("reserved", r, NoApproval, op)
  <2>1. /\ op \in Operation /\ reservation \in Receipt
        /\ reservation.op = op /\ reservation.outcome = "reserved"
    BY OperationTypes, ReceiptType DEF Outcome, ReceiptOf
  <2>2. CASE log' = Flushed(log) /\ UNCHANGED <<handler, sent>>
    <3>1. QuietStep
      BY <1>1, <2>2, FlushedKeeps DEF QuietStep
    <3>2. HandlersOK'
      BY <1>1, <2>2 DEF HandlersOK
    <3>3. QED
      BY <1>3, <3>1, <3>2, QuietStepOK
  <2>3. CASE /\ ~Recorded(op) /\ log' = Written(log, reservation, "ok")
             /\ ToSend(op, NoPayload) /\ Await(h, "creating", r)
    <3>1. Keeps(log, log') /\ log'.synced >= 1 /\ log'.lines[log'.synced] = reservation
      BY <1>1, <2>1, <2>3, WrittenKeeps
    <3>2. log'.synced \in Nat
      BY <3>1 DEF Keeps, Ledger
    <3>3. CallStep
      BY <2>1, <2>3, <3>1, <3>2 DEF CallStep, ToSend
    <3>4. HandlersOK'
      BY <1>1, <2>3, HandlerUpdates DEF Await
    <3>5. QED
      BY <1>3, <3>3, <3>4, QuietStepOK
  <2>4. CASE /\ \E result \in Results \ {"ok"} :
                  log' \in GateError(Written(log, reservation, result), r)
             /\ UNCHANGED <<handler, sent>>
    <3>1. PICK result : log' \in GateError(Written(log, reservation, result), r)
      BY <2>4
    <3>2. Keeps(log, Written(log, reservation, result))
      BY <1>1, <2>1, WrittenKeeps
    <3>3. Keeps(Written(log, reservation, result), log')
      BY <3>1, <3>2, ErrorsKeep DEF Keeps
    <3>4. QuietStep
      BY <1>1, <2>4, <3>2, <3>3, KeepsTransitive DEF QuietStep
    <3>5. HandlersOK'
      BY <1>1, <2>4 DEF HandlersOK
    <3>6. QED
      BY <1>3, <3>4, <3>5, QuietStepOK
  <2>5. CASE log' \in GateError(log, r) /\ UNCHANGED <<handler, sent>>
    <3>1. QuietStep
      BY <1>1, <2>5, ErrorsKeep DEF QuietStep
    <3>2. HandlersOK'
      BY <1>1, <2>5 DEF HandlersOK
    <3>3. QED
      BY <1>3, <3>1, <3>2, QuietStepOK
  <2>6. QED
    BY <1>6, <2>2, <2>3, <2>4, <2>5 DEF RequestApproval
<1>7. CASE Reenter(h, r)
  <2>1. QuietStep
    BY <1>1, <1>7, FlushedKeeps, ErrorsKeep DEF Reenter, QuietStep
  <2>2. HandlersOK'
    <3>1. handler' = handler \/ handler' = [handler EXCEPT ![h] = Awaiting("checking", r)]
      BY <1>7 DEF Reenter, Await
    <3>2. r.approval # NoApproval
      BY <1>7 DEF Reenter
    <3>3. QED
      BY <1>1, <3>1, <3>2, HandlerUpdates
  <2>3. QED
    BY <1>3, <2>1, <2>2, QuietStepOK
<1>8. QED
  BY <1>4, <1>5, <1>6, <1>7

\* The steps of a handler that end with its answer and call nothing.
LEMMA AnswerStep ==
  ASSUME TypeOK, NEW h \in Handlers, handler[h].pc # "idle", Answer(h),
         Keeps(log, log'), sent' = sent, PollerOK', WorldOK'
  PROVE  StepOK
<1>1. HandlersOK /\ handler[h].req \in Request
  BY TypeParts DEF HandlersOK
<1>2. HandlersOK'
  BY <1>1, HandlerUpdates DEF Answer
<1>3. QED
  BY <1>2, QuietStepOK DEF QuietStep

LEMMA PendingStep ==
  ASSUME TypeOK, NEW h \in Handlers, handler[h].pc # "idle",
         NEW a \in Approvals \cup {NoApproval}, ReportPending(h, a)
  PROVE  StepOK
<1>1. log \in Ledger /\ HandlersOK /\ PollerOK /\ WorldOK /\ handler[h].req \in Request
  BY TypeParts DEF HandlersOK
<1>2. ReceiptOf("pending", handler[h].req, a, HumanOp(handler[h].req)) \in Receipt
  BY <1>1, OperationTypes, ReceiptType DEF Outcome
<1>3. Keeps(log, log')
  BY <1>1, <1>2, AppendedWithAuditKeeps DEF ReportPending
<1>4. PollerOK' /\ WorldOK'
  BY <1>1 DEF ReportPending, PollerOK, WorldOK
<1>5. QED
  BY <1>3, <1>4, AnswerStep DEF ReportPending

LEMMA BlockStep ==
  ASSUME TypeOK, NEW h \in Handlers, handler[h].pc # "idle", BlockReentry(h)
  PROVE  StepOK
<1>1. log \in Ledger /\ HandlersOK /\ PollerOK /\ WorldOK /\ handler[h].req \in Request
  BY TypeParts DEF HandlersOK
<1>2. ReceiptOf("blocked", handler[h].req, handler[h].req.approval, NoOp) \in Receipt
  BY <1>1, OperationTypes, ReceiptType DEF Outcome
<1>3. Keeps(log, log')
  BY <1>1, <1>2, AppendedKeeps DEF BlockReentry
<1>4. PollerOK' /\ WorldOK'
  BY <1>1 DEF BlockReentry, PollerOK, WorldOK
<1>5. QED
  BY <1>3, <1>4, AnswerStep DEF BlockReentry

LEMMA PerformReturnsStep ==
  ASSUME TypeOK, NEW h \in Handlers, PerformReturns(h)
  PROVE  StepOK
<1> DEFINE r == handler[h].req
           op == PerformOp(r)
           performed == ReceiptOf("performed", r, r.approval, op)
<1>1. /\ log \in Ledger /\ HandlersOK /\ PollerOK /\ WorldOK /\ r \in Request
      /\ handler[h].pc # "idle"
  BY TypeParts DEF HandlersOK, PerformReturns
<1>2. op \in Operation /\ performed \in Receipt
  BY <1>1, OperationTypes, ReceiptType DEF Outcome
<1>3. Keeps(log, log')
  <2>1. CASE log' = Written(log, performed, "ok")
    BY <1>1, <1>2, <2>1, WrittenKeeps
  <2>2. CASE log' \in PerformError(log, r)
    BY <1>1, <2>2, ErrorsKeep
  <2>3. CASE \E result \in Results \ {"ok"} :
               log' \in PerformError(Written(log, performed, result), r)
    <3>1. PICK result : log' \in PerformError(Written(log, performed, result), r)
      BY <2>3
    <3>2. Keeps(log, Written(log, performed, result))
      BY <1>1, <1>2, WrittenKeeps
    <3>3. Keeps(Written(log, performed, result), log')
      BY <1>1, <3>1, <3>2, ErrorsKeep DEF Keeps
    <3>4. QED
      BY <1>1, <3>2, <3>3, KeepsTransitive
  <2>4. QED
    BY <2>1, <2>2, <2>3 DEF PerformReturns
<1>4. acked' = acked \/ acked' = acked \cup {op}
  BY DEF PerformReturns
<1>5. PollerOK' /\ WorldOK'
  BY <1>1, <1>2, <1>4 DEF PerformReturns, PollerOK, WorldOK
<1>6. QED
  BY <1>1, <1>3, <1>5, AnswerStep DEF PerformReturns

LEMMA ContinueStep ==
  ASSUME TypeOK, NEW h \in Handlers, Continue(h)
  PROVE  StepOK
<1>1. log \in Ledger /\ HandlersOK /\ PollerOK /\ WorldOK /\ handler[h] \in HandlerState
  BY TypeParts DEF HandlersOK
<1>2. CASE CreateReturns(h)
  <2>1. CASE handler[h].req.issue = NoIssue
    BY <1>1, <1>2, <2>1, PendingStep DEF CreateReturns, HandlerState
  <2>2. CASE handler[h].req.issue # NoIssue
    <3>1. QuietStep
      BY <1>2, <2>2, UnchangedKeeps DEF CreateReturns, QuietStep
    <3>2. PollerOK' /\ WorldOK'
      BY <1>1, <1>2, <2>2 DEF CreateReturns, PollerOK, WorldOK
    <3>3. HandlersOK'
      BY <1>1, <1>2, <2>2 DEF CreateReturns, HandlersOK, HandlerState, Waiting
    <3>4. QED
      BY <3>1, <3>2, <3>3, QuietStepOK
  <2>3. QED
    BY <2>1, <2>2
<1>3. CASE NotifyReturns(h)
  BY <1>1, <1>3, PendingStep DEF NotifyReturns, HandlerState
<1>4. CASE Resume(h)
  <2>1. handler[h].pc # "idle" /\ handler[h].req \in Request
    BY <1>1, <1>4 DEF Resume, HandlersOK
  <2>2. CASE ResumePending(h)
    BY <2>1, <2>2, PendingStep, OperationTypes DEF ResumePending
  <2>3. CASE ResumeRefused(h) \/ ResumeBlocked(h)
    BY <2>1, <2>3, BlockStep DEF ResumeRefused, ResumeBlocked
  <2>4. CASE ResumeApproved(h)
    <3>1. ReserveAndPerform(h, handler[h].req)
      BY <2>4 DEF ResumeApproved
    <3>2. QuietStep \/ CallStep
      BY <2>1, <3>1, ReserveStep
    <3>3. HandlersOK'
      BY <1>1, <2>1, <3>1, ReserveStep, HandlerUpdates
    <3>4. PollerOK' /\ WorldOK'
      BY <1>1, <2>4 DEF ResumeApproved, PollerOK, WorldOK
    <3>5. QED
      BY <3>2, <3>3, <3>4, QuietStepOK
  <2>5. QED
    BY <1>4, <2>2, <2>3, <2>4 DEF Resume
<1>5. CASE PerformReturns(h)
  BY <1>5, PerformReturnsStep
<1>6. QED
  BY <1>2, <1>3, <1>4, <1>5 DEF Continue

LEMMA ServiceStep ==
  ASSUME TypeOK, NEW h \in Handlers, Service(h)
  PROVE  StepOK
<1>1. /\ log \in Ledger /\ HandlersOK /\ PollerOK /\ WorldOK
      /\ handler \in [Handlers -> HandlerState] /\ handler[h] \in HandlerState
  BY TypeParts DEF HandlersOK
<1>2. CASE \E a \in Approvals : CreateApproval(h, a)
  <2>1. PICK a \in Approvals : CreateApproval(h, a)
    BY <1>2
  <2>2. handler[h].req \in Request
    BY <1>1, <2>1 DEF CreateApproval, HandlersOK
  <2>3. [status |-> "pending", binds |-> BindingSha(handler[h].req.payload),
         op |-> ApprovalOp(handler[h].req)] \in ApprovalState
    BY <2>2, OperationTypes DEF ApprovalState, BindingSha, Decision
  <2>4. approvals' \in [Approvals -> ApprovalState]
    BY <1>1, <2>1, <2>3 DEF CreateApproval, WorldOK
  <2>5. PollerOK' /\ WorldOK'
    BY <1>1, <2>1, <2>4 DEF CreateApproval, PollerOK, WorldOK
  <2>6. HandlersOK'
    BY <1>1, <2>1 DEF CreateApproval, HandlersOK, HandlerState
  <2>7. QuietStep
    BY <2>1, UnchangedKeeps DEF CreateApproval, QuietStep
  <2>8. QED
    BY <2>5, <2>6, <2>7, QuietStepOK
<1>3. CASE ReadApproval(h)
  <2>1. handler[h].req \in Request /\ handler[h].req.approval \in Approvals
    BY <1>1, <1>3, OperationTypes DEF ReadApproval, HandlersOK
  <2>2. approvals[handler[h].req.approval].status \in Decision \cup {"absent"}
    BY <1>1, <2>1 DEF WorldOK, ApprovalState
  <2>3. PollerOK' /\ WorldOK'
    BY <1>1, <1>3 DEF ReadApproval, PollerOK, WorldOK
  <2>4. HandlersOK'
    BY <1>1, <1>3, <2>2 DEF ReadApproval, HandlersOK, HandlerState
  <2>5. QuietStep
    BY <1>3, UnchangedKeeps DEF ReadApproval, QuietStep
  <2>6. QED
    BY <2>3, <2>4, <2>5, QuietStepOK
<1>4. CASE Execute(h)
  <2>1. PerformOp(handler[h].req) \in Operation
    BY <1>1, <1>4, OperationTypes DEF Execute, HandlersOK
  <2>2. PollerOK' /\ WorldOK' /\ HandlersOK'
    BY <1>1, <1>4, <2>1 DEF Execute, PollerOK, WorldOK, HandlersOK
  <2>3. QuietStep
    BY <1>4, UnchangedKeeps DEF Execute, QuietStep
  <2>4. QED
    BY <2>2, <2>3, QuietStepOK
<1>5. QED
  BY <1>2, <1>3, <1>4 DEF Service

LEMMA FailStep ==
  ASSUME TypeOK, NEW h \in Handlers, Fail(h)
  PROVE  StepOK
<1>1. log \in Ledger /\ HandlersOK /\ PollerOK /\ WorldOK
  BY TypeParts
<1>2. handler[h].pc # "idle" /\ handler[h].req \in Request /\ Answer(h) /\ sent' = sent
  BY <1>1 DEF Fail, PaperclipFails, PerformFails, HandlersOK
<1>3. Keeps(log, log')
  BY <1>1, <1>2, ErrorsKeep DEF Fail, PaperclipFails, PerformFails
<1>4. spent' \in [requests: Nat, faults: Nat, crashes: Nat]
  BY <1>1, CountTypes DEF Fail, PaperclipFails, PerformFails
<1>5. PollerOK' /\ WorldOK'
  BY <1>1, <1>4 DEF Fail, PaperclipFails, PerformFails, PollerOK, WorldOK
<1>6. QED
  BY <1>2, <1>3, <1>5, AnswerStep

(***************************************************************************)
(* The poller.                                                             *)
(***************************************************************************)
LEMMA FindUnresolvedType == TypeOK => FindUnresolved \subseteq Unresolved
<1> SUFFICES ASSUME TypeOK, NEW i \in 1 .. Len(log.lines), PendingAt(i)
             PROVE  [approval |-> log.lines[i].approval, tool |-> log.lines[i].tool,
                     issue |-> log.lines[i].issue] \in Unresolved
  BY DEF FindUnresolved
<1>1. log.lines[i] \in Receipt
  BY DEF TypeOK
<1>2. QED
  BY <1>1 DEF Receipt, Unresolved, PendingAt

LEMMA PollerTypes ==
  ASSUME PollerOK, NEW u \in poller.todo
  PROVE  /\ u \in Unresolved
         /\ u.tool \in Tools /\ u.issue \in Issues \cup {NoIssue} /\ u.approval \in Approvals
         /\ CommentOp(u) \in Operation
         /\ NextItem(u) => PollerOK'
<1>1. u \in Unresolved /\ poller.todo \ {u} \subseteq Unresolved
  BY DEF PollerOK, PollerState
<1>2. u.tool \in Tools /\ u.issue \in Issues \cup {NoIssue} /\ u.approval \in Approvals
  BY <1>1 DEF Unresolved
<1>3. CommentOp(u) \in Operation
  BY <1>2 DEF CommentOp, OperationId, Operation
<1>4. PollerIdle \in PollerState /\ PollerIdle.pc = "idle"
  BY DEF PollerIdle, PollerState
<1>5. /\ [PollerIdle EXCEPT !.pc = "next", !.todo = poller.todo \ {u}] \in PollerState
      /\ [PollerIdle EXCEPT !.pc = "next", !.todo = poller.todo \ {u}].pc = "next"
  BY <1>1 DEF PollerIdle, PollerState
<1>6. NextItem(u) => PollerOK'
  BY <1>4, <1>5 DEF NextItem, PollerOK
<1>7. QED
  BY <1>1, <1>2, <1>3, <1>6

LEMMA PollReceiptType ==
  ASSUME PollerOK, poller.pc \in {"reading", "commenting"}, NEW outcome \in Outcome
  PROVE  /\ PollReceipt(outcome) \in Receipt
         /\ PollReceipt(outcome).outcome = outcome
         /\ poller.cur.issue # NoIssue => PollReceipt(outcome).op = CommentOp(poller.cur)
<1>1. poller.cur \in poller.todo
  BY DEF PollerOK
<1>2. QED
  BY <1>1, PollerTypes, ReceiptType DEF PollReceipt, ReceiptOf

LEMMA PollAppendKeeps ==
  ASSUME TypeOK, poller.pc \in {"reading", "commenting"}, NEW outcome \in Outcome,
         PollAppend(outcome)
  PROVE  Keeps(log, log')
BY TypeParts, PollReceiptType, WrittenKeeps DEF PollAppend

LEMMA PollReadReturnsStep ==
  ASSUME TypeOK, PollReadReturns
  PROVE  StepOK
<1>1. /\ log \in Ledger /\ HandlersOK /\ PollerOK /\ WorldOK
      /\ poller.cur \in poller.todo /\ poller.pc = "reading"
  BY TypeParts DEF PollerOK, PollReadReturns
<1>2. HandlersOK' /\ WorldOK'
  BY <1>1 DEF PollReadReturns, HandlersOK, WorldOK
<1>3. CASE NextItem(poller.cur) /\ UNCHANGED <<log, sent>>
  BY <1>1, <1>2, <1>3, PollerTypes, UnchangedKeeps, QuietStepOK DEF QuietStep
<1>4. CASE PollAppend("blocked") /\ NextItem(poller.cur) /\ UNCHANGED sent
  BY <1>1, <1>2, <1>4, PollerTypes, PollAppendKeeps, QuietStepOK DEF QuietStep, Outcome
<1>5. CASE /\ poller.cur.issue # NoIssue /\ ~Recorded(CommentOp(poller.cur))
           /\ log' = Written(log, PollReceipt("reserved"), "ok")
           /\ ToSend(CommentOp(poller.cur), NoPayload)
           /\ poller' = [poller EXCEPT !.pc = "commenting"]
  <2>1. /\ PollReceipt("reserved") \in Receipt
        /\ PollReceipt("reserved").op = CommentOp(poller.cur)
        /\ PollReceipt("reserved").outcome = "reserved"
        /\ CommentOp(poller.cur) \in Operation
    BY <1>1, <1>5, PollReceiptType, PollerTypes DEF Outcome
  <2>2. /\ Keeps(log, log') /\ log'.synced >= 1
        /\ log'.lines[log'.synced] = PollReceipt("reserved")
    BY <1>1, <1>5, <2>1, WrittenKeeps
  <2>3. log'.synced \in Nat
    BY <2>2 DEF Keeps, Ledger
  <2>4. CallStep
    BY <1>5, <2>1, <2>2, <2>3 DEF CallStep, ToSend
  <2>5. PollerOK'
    BY <1>1, <1>5 DEF PollerOK, PollerState
  <2>6. QED
    BY <1>2, <2>4, <2>5, QuietStepOK
<1>6. CASE /\ \E result \in Results \ {"ok"} : log' = Written(log, PollReceipt("reserved"), result)
           /\ NextItem(poller.cur) /\ UNCHANGED sent
  <2>1. PollReceipt("reserved") \in Receipt
    BY <1>1, PollReceiptType DEF Outcome
  <2>2. QuietStep
    BY <1>1, <1>6, <2>1, WrittenKeeps DEF QuietStep
  <2>3. QED
    BY <1>1, <1>2, <1>6, <2>2, PollerTypes, QuietStepOK
<1>7. QED
  BY <1>3, <1>4, <1>5, <1>6 DEF PollReadReturns

LEMMA PollStep ==
  ASSUME TypeOK, Poll \/ PollFails
  PROVE  StepOK
<1>1. log \in Ledger /\ HandlersOK /\ PollerOK /\ WorldOK
  BY TypeParts
<1>2. CASE PollStart
  <2>1. poller' = [pc |-> "next", todo |-> FindUnresolved, cur |-> NoRequest, seen |-> "unread"]
    BY <1>2 DEF PollStart, PollerIdle
  <2>2. PollerOK'
    BY <2>1, FindUnresolvedType DEF PollerOK, PollerState
  <2>3. HandlersOK' /\ WorldOK' /\ QuietStep
    BY <1>1, <1>2, UnchangedKeeps DEF PollStart, HandlersOK, WorldOK, QuietStep
  <2>4. QED
    BY <2>2, <2>3, QuietStepOK
<1>3. ASSUME NEW u \in poller.todo, PollAsk(u)
      PROVE  StepOK
  <2>1. QuietStep
    BY <1>1, <1>3, FlushedKeeps, UnchangedKeeps DEF PollAsk, QuietStep
  <2>2. HandlersOK' /\ WorldOK'
    BY <1>1, <1>3 DEF PollAsk, HandlersOK, WorldOK
  <2>3. PollerOK'
    <3>1. CASE NextItem(u)
      BY <1>1, <1>3, <3>1, PollerTypes
    <3>2. CASE poller' = [poller EXCEPT !.pc = "reading", !.cur = u]
      BY <1>1, <3>2, <1>3, PollerTypes DEF PollerOK, PollerState
    <3>3. QED
      BY <1>3, <3>1, <3>2 DEF PollAsk
  <2>4. QED
    BY <2>1, <2>2, <2>3, QuietStepOK
<1>4. CASE PollRead
  <2>1. poller.cur.approval \in Approvals
    BY <1>1, <1>4, PollerTypes DEF PollRead, PollerOK
  <2>2. approvals[poller.cur.approval].status \in Decision \cup {"absent"}
    BY <1>1, <2>1 DEF WorldOK, ApprovalState
  <2>3. PollerOK'
    BY <1>1, <1>4, <2>2 DEF PollRead, PollerOK, PollerState
  <2>4. HandlersOK' /\ WorldOK' /\ QuietStep
    BY <1>1, <1>4, UnchangedKeeps DEF PollRead, HandlersOK, WorldOK, QuietStep
  <2>5. QED
    BY <2>3, <2>4, QuietStepOK
<1>5. CASE PollReadReturns
  BY <1>5, PollReadReturnsStep
<1>6. CASE PollCommentReturns
  <2>1. HandlersOK' /\ WorldOK' /\ QuietStep
    BY <1>1, <1>6, PollAppendKeeps DEF PollCommentReturns, HandlersOK, WorldOK, QuietStep, Outcome
  <2>2. PollerOK'
    BY <1>1, <1>6, PollerTypes DEF PollCommentReturns, PollerOK
  <2>3. QED
    BY <2>1, <2>2, QuietStepOK
<1>7. CASE PollFails
  <2>1. PollerOK'
    BY <1>1, <1>7, PollerTypes DEF PollFails, PollerOK
  <2>2. WorldOK'
    BY <1>1, <1>7, CountTypes DEF PollFails, WorldOK
  <2>3. HandlersOK' /\ QuietStep
    BY <1>1, <1>7, UnchangedKeeps DEF PollFails, HandlersOK, QuietStep
  <2>4. QED
    BY <2>1, <2>2, <2>3, QuietStepOK
<1>8. QED
  BY <1>2, <1>3, <1>4, <1>5, <1>6, <1>7 DEF Poll

LEMMA EnvironmentStep ==
  ASSUME TypeOK, Environment
  PROVE  StepOK
<1>1. log \in Ledger /\ HandlersOK /\ PollerOK /\ WorldOK
  BY TypeParts
<1>2. ASSUME NEW a \in Approvals, NEW decision \in Decision, Decide(a, decision)
      PROVE  StepOK
  <2>1. approvals' \in [Approvals -> ApprovalState]
    BY <1>1, <1>2 DEF Decide, WorldOK, ApprovalState
  <2>2. HandlersOK' /\ PollerOK' /\ WorldOK' /\ QuietStep
    BY <1>1, <1>2, <2>1, UnchangedKeeps DEF Decide, HandlersOK, PollerOK, WorldOK, QuietStep
  <2>3. QED
    BY <2>2, QuietStepOK
<1>3. CASE DiskTrouble \/ DiskRepaired
  <2>1. spent' \in [requests: Nat, faults: Nat, crashes: Nat] /\ disk' \in {"sound", "failing"}
    BY <1>1, <1>3, CountTypes DEF DiskTrouble, DiskRepaired, WorldOK
  <2>2. HandlersOK' /\ PollerOK' /\ WorldOK' /\ QuietStep
    BY <1>1, <1>3, <2>1, UnchangedKeeps
       DEF DiskTrouble, DiskRepaired, HandlersOK, PollerOK, WorldOK, QuietStep
  <2>3. QED
    BY <2>2, QuietStepOK
<1>4. ASSUME NEW keep \in 0 .. Len(log.lines), CrashAndRestart(keep)
      PROVE  StepOK
  <2>1. QuietStep
    BY <1>1, <1>4, PrefixKeeps DEF CrashAndRestart, QuietStep
  <2>2. WorldOK'
    BY <1>1, <1>4, CountTypes DEF CrashAndRestart, WorldOK
  <2>3. PollerOK'
    BY <1>4 DEF CrashAndRestart, PollerOK, PollerIdle, PollerState
  <2>4. HandlersOK'
    BY <1>4 DEF CrashAndRestart, HandlersOK, Idle, HandlerState
  <2>5. QED
    BY <2>1, <2>2, <2>3, <2>4, QuietStepOK
<1>5. QED
  BY <1>2, <1>3, <1>4 DEF Environment

LEMMA NextStep ==
  ASSUME TypeOK, [Next]_vars
  PROVE  StepOK
<1>1. CASE Next
  BY <1>1, ReceiveStep, ContinueStep, ServiceStep, FailStep, PollStep, EnvironmentStep
     DEF Next, Receive
<1>2. CASE UNCHANGED vars
  BY <1>2, TypeParts, UnchangedKeeps, QuietStepOK
     DEF vars, HandlersOK, PollerOK, WorldOK, QuietStep
<1>3. QED
  BY <1>1, <1>2

-------------------------------------------------------------------------------
(***************************************************************************)
(* Theorems.                                                               *)
(***************************************************************************)
LEMMA InitTyped == Init => TypeOK
<1> SUFFICES ASSUME Init PROVE TypeOK
  OBVIOUS
<1>1. log \in Ledger /\ sent \in Seq(SentCall)
  BY DEF Init, Ledger
<1>2. HandlersOK
  BY DEF Init, HandlersOK, Idle, HandlerState
<1>3. PollerOK
  BY DEF Init, PollerOK, PollerIdle, PollerState
<1>4. WorldOK
  BY DEF Init, WorldOK, ApprovalState
<1>5. QED
  BY <1>1, <1>2, <1>3, <1>4, TypeParts

\* Every state of the gate is well typed, and in particular the ledger never
\* counts more fsynced lines than it has.
THEOREM TypeCorrect == Spec => []TypeOK
<1>1. TypeOK /\ [Next]_vars => TypeOK'
  BY NextStep DEF StepOK
<1>2. QED
  BY <1>1, InitTyped, PTL DEF Spec

\* A durably recorded identity stays so.
LEMMA DurableStays ==
  ASSUME TypeOK, Keeps(log, log'), NEW op, DurablyRecorded(op)
  PROVE  \E k \in 1 .. log'.synced : log'.lines[k].op = op
<1>1. log \in Ledger
  BY TypeParts
<1>2. QED
  BY <1>1 DEF DurablyRecorded, Keeps, Ledger

LEMMA DurableIsRecorded ==
  ASSUME TypeOK, NEW op, DurablyRecorded(op)
  PROVE  Recorded(op)
BY DEF TypeOK, DurablyRecorded, Recorded

\* The calls made so far stay where they are; a new one goes last.
LEMMA CallAppends ==
  ASSUME TypeOK, NEW c \in SentCall, sent' = Append(sent, c)
  PROVE  /\ Len(sent) \in Nat /\ Len(sent') = Len(sent) + 1
         /\ \A i \in 1 .. Len(sent) : sent'[i] = sent[i]
         /\ sent'[Len(sent) + 1] = c
BY DEF TypeOK

\* The inductive invariant of dispatch.
DispatchInv == TypeOK /\ ReservedBeforeDispatch /\ AtMostOnceDispatch

LEMMA DispatchStep ==
  ASSUME DispatchInv, [Next]_vars
  PROVE  DispatchInv'
<1>1. TypeOK /\ TypeOK' /\ (QuietStep \/ CallStep)
  BY NextStep DEF StepOK, DispatchInv
<1>2. CASE QuietStep
  <2>1. ReservedBeforeDispatch'
    <3>1. \A i \in 1 .. Len(sent) : \E k \in 1 .. log'.synced : log'.lines[k].op = sent[i].op
      BY <1>1, <1>2, DurableStays DEF QuietStep, DispatchInv, ReservedBeforeDispatch
    <3>2. QED
      BY <1>2, <3>1 DEF QuietStep, ReservedBeforeDispatch, DurablyRecorded
  <2>2. AtMostOnceDispatch'
    BY <1>2 DEF QuietStep, DispatchInv, AtMostOnceDispatch
  <2>3. QED
    BY <1>1, <2>1, <2>2 DEF DispatchInv
<1>3. CASE CallStep
  <2>1. PICK op \in Operation, payload \in Payloads \cup {NoPayload} :
          /\ ~Recorded(op)
          /\ sent' = Append(sent, [op |-> op, payload |-> payload])
          /\ Keeps(log, log')
          /\ log'.synced \in Nat /\ log'.synced >= 1 /\ log'.lines[log'.synced].op = op
    BY <1>3 DEF CallStep
  <2> DEFINE c == [op |-> op, payload |-> payload]
  <2>2. c \in SentCall /\ c.op = op
    BY DEF SentCall
  <2>3. /\ Len(sent) \in Nat /\ Len(sent') = Len(sent) + 1
        /\ \A i \in 1 .. Len(sent) : sent'[i] = sent[i]
        /\ sent'[Len(sent) + 1] = c
    BY <1>1, <2>1, <2>2, CallAppends
  <2>4. \E k \in 1 .. log'.synced : log'.lines[k].op = op
    BY <2>1
  <2>5. ReservedBeforeDispatch'
    <3> SUFFICES ASSUME NEW i \in 1 .. Len(sent')
                 PROVE  \E k \in 1 .. log'.synced : log'.lines[k].op = sent'[i].op
      BY DEF ReservedBeforeDispatch, DurablyRecorded
    <3>1. CASE i = Len(sent) + 1
      BY <2>2, <2>3, <2>4, <3>1
    <3>2. CASE i \in 1 .. Len(sent)
      <4>1. DurablyRecorded(sent[i].op)
        BY <3>2 DEF DispatchInv, ReservedBeforeDispatch
      <4>2. QED
        BY <1>1, <2>1, <2>3, <3>2, <4>1, DurableStays
    <3>3. QED
      BY <2>3, <3>1, <3>2
  <2>6. \A i \in 1 .. Len(sent) : sent[i].op # op
    BY <1>1, <2>1, DurableIsRecorded DEF DispatchInv, ReservedBeforeDispatch
  <2>7. AtMostOnceDispatch'
    BY <2>2, <2>3, <2>6 DEF DispatchInv, AtMostOnceDispatch
  <2>8. QED
    BY <1>1, <2>5, <2>7 DEF DispatchInv
<1>4. QED
  BY <1>1, <1>2, <1>3

LEMMA DispatchInvariant == Spec => []DispatchInv
<1>1. Init => DispatchInv
  BY InitTyped DEF Init, DispatchInv, ReservedBeforeDispatch, AtMostOnceDispatch
<1>2. DispatchInv /\ [Next]_vars => DispatchInv'
  BY DispatchStep
<1>3. QED
  BY <1>1, <1>2, PTL DEF Spec

\* Whatever crashes, power losses, faults and concurrent requests do, and however
\* many there are, no identity is handed to its external service twice.
THEOREM OneDispatch == Spec => []AtMostOnceDispatch
<1>1. DispatchInv => AtMostOnceDispatch
  BY DEF DispatchInv
<1>2. QED
  BY <1>1, DispatchInvariant, PTL

\* Every call ever made has its reservation on lines no power loss can take back.
THEOREM DurableReservations == Spec => []ReservedBeforeDispatch
<1>1. DispatchInv => ReservedBeforeDispatch
  BY DEF DispatchInv
<1>2. QED
  BY <1>1, DispatchInvariant, PTL

-------------------------------------------------------------------------------
(***************************************************************************)
(* Four further promises, for every value of the constants: a              *)
(* human-gated payload is performed only under the approval granted for    *)
(* it; the whole gate implements OneShotDispatch; what was answered with   *)
(* 200 is done and durably receipted; and the ledger claims nothing that   *)
(* did not happen.                                                         *)
(*                                                                         *)
(* For the first, what a re-entry read of its approval must still hold     *)
(* when it acts: a decision is final, so it does (SeenHolds).  For the     *)
(* second, a handler that awaits a performer has made that call, so what   *)
(* the vendor carries out was called (PerformingCalled).  For the last,    *)
(* every line a step adds is founded on an operation some handler is       *)
(* performing (StepAdds), and each of those is reserved on a line no crash *)
(* takes off (PerformingReserved).                                         *)
(***************************************************************************)
Granted(op, payload) ==
  /\ op.approval # NoApproval
  /\ approvals[op.approval].status = "approved"
  /\ approvals[op.approval].binds = payload

SeenHolds ==
  \A h \in Handlers :
    handler[h].pc = "checking" /\ handler[h].seen = "approved"
      => approvals[handler[h].req.approval].status = "approved"

\* A granted approval is never touched again.
LEMMA GrantStays ==
  ASSUME TypeOK, [Next]_vars, NEW a \in Approvals, approvals[a].status = "approved"
  PROVE  approvals'[a] = approvals[a]
<1>1. approvals \in [Approvals -> ApprovalState]
  BY DEF TypeOK
<1>2. ASSUME NEW h \in Handlers, NEW b \in Approvals, CreateApproval(h, b)
      PROVE  approvals'[a] = approvals[a]
  BY <1>1, <1>2 DEF CreateApproval
<1>3. ASSUME NEW b \in Approvals, NEW decision \in Decision, Decide(b, decision)
      PROVE  approvals'[a] = approvals[a]
  BY <1>1, <1>3 DEF Decide
<1>4. CASE approvals' = approvals
  BY <1>4
<1>5. ASSUME NEW h \in Handlers, Receive(h) \/ Continue(h) \/ ReadApproval(h) \/ Execute(h) \/ Fail(h)
      PROVE  approvals' = approvals
  <2>1. Receive(h) => approvals' = approvals
    BY DEF Receive, Refuse, Allow, RequestApproval, Reenter
  <2>2. Continue(h) => approvals' = approvals
    BY DEF Continue, CreateReturns, NotifyReturns, ReportPending, PerformReturns, Resume,
           ResumePending, ResumeRefused, ResumeBlocked, ResumeApproved, BlockReentry
  <2>3. ReadApproval(h) \/ Execute(h) \/ Fail(h) => approvals' = approvals
    BY DEF ReadApproval, Execute, Fail, PaperclipFails, PerformFails
  <2>4. QED
    BY <1>5, <2>1, <2>2, <2>3
<1>6. Poll \/ PollFails => approvals' = approvals
  BY DEF Poll, PollFails, PollStart, PollAsk, PollRead, PollReadReturns, PollCommentReturns
<1>7. Environment => approvals' = approvals \/ \E b \in Approvals, decision \in Decision : Decide(b, decision)
  BY DEF Environment, DiskTrouble, DiskRepaired, CrashAndRestart
<1>8. QED
  BY <1>2, <1>3, <1>4, <1>5, <1>6, <1>7 DEF Next, Service, vars

\* What a step does to a handler: it may go idle or start over, keep what it read,
\* or have just read it.
LEMMA HandlerSteps ==
  ASSUME TypeOK, [Next]_vars, NEW h \in Handlers
  PROVE  \/ handler'[h] = handler[h]
         \/ handler'[h].pc # "checking"
         \/ handler'[h].seen = "unread"
         \/ /\ handler'[h].req = handler[h].req
            /\ handler[h].req.approval \in Approvals
            /\ handler'[h].seen = approvals[handler[h].req.approval].status
            /\ approvals' = approvals
<1> DEFINE Goal == \/ handler'[h] = handler[h]
                   \/ handler'[h].pc # "checking"
                   \/ handler'[h].seen = "unread"
                   \/ /\ handler'[h].req = handler[h].req
                      /\ handler[h].req.approval \in Approvals
                      /\ handler'[h].seen = approvals[handler[h].req.approval].status
                      /\ approvals' = approvals
<1>1. handler \in [Handlers -> HandlerState] /\ HandlersOK
  BY TypeParts DEF HandlersOK
<1>2. ASSUME NEW g \in Handlers, Answer(g) PROVE Goal
  BY <1>1, <1>2 DEF Answer, Idle
<1>3. ASSUME NEW g \in Handlers, NEW pc, NEW r, Await(g, pc, r) PROVE Goal
  BY <1>1, <1>3 DEF Await, Awaiting
<1>4. CASE handler' = handler
  BY <1>4
<1>5. ASSUME NEW g \in Handlers, NEW r, ReserveAndPerform(g, r) PROVE Goal
  BY <1>2, <1>3, <1>5 DEF ReserveAndPerform
<1>6. ASSUME NEW g \in Handlers, Receive(g) PROVE Goal
  BY <1>3, <1>4, <1>5, <1>6 DEF Receive, Refuse, Allow, RequestApproval, Reenter
<1>7. ASSUME NEW g \in Handlers, Continue(g) PROVE Goal
  <2>1. CASE CreateReturns(g)
    <3>1. CASE Answer(g)
      BY <1>2, <3>1
    <3>2. CASE handler' = [handler EXCEPT ![g].pc = "notifying"]
      BY <1>1, <3>2
    <3>3. QED
      BY <2>1, <3>1, <3>2 DEF CreateReturns, ReportPending
  <2>2. CASE NotifyReturns(g) \/ PerformReturns(g)
    BY <1>2, <2>2 DEF NotifyReturns, ReportPending, PerformReturns
  <2>3. CASE Resume(g)
    <3>1. CASE ResumePending(g) \/ ResumeRefused(g) \/ ResumeBlocked(g)
      BY <1>2, <3>1 DEF ResumePending, ResumeRefused, ResumeBlocked, ReportPending, BlockReentry
    <3>2. CASE ResumeApproved(g)
      BY <1>5, <3>2 DEF ResumeApproved
    <3>3. QED
      BY <2>3, <3>1, <3>2 DEF Resume
  <2>4. QED
    BY <1>7, <2>1, <2>2, <2>3 DEF Continue
<1>8. ASSUME NEW g \in Handlers, NEW a \in Approvals, CreateApproval(g, a) PROVE Goal
  BY <1>1, <1>8 DEF CreateApproval
<1>9. ASSUME NEW g \in Handlers, ReadApproval(g) PROVE Goal
  <2>1. handler[g].req.approval \in Approvals
    BY <1>1, <1>9, OperationTypes DEF ReadApproval, HandlersOK
  <2>2. QED
    BY <1>1, <1>9, <2>1 DEF ReadApproval
<1>10. ASSUME NEW g \in Handlers, Execute(g) \/ Fail(g) PROVE Goal
  BY <1>2, <1>4, <1>10 DEF Execute, Fail, PaperclipFails, PerformFails
<1>11. CASE Poll \/ PollFails
  BY <1>4, <1>11 DEF Poll, PollFails, PollStart, PollAsk, PollRead, PollReadReturns, PollCommentReturns
<1>12. CASE Environment
  BY <1>4, <1>12 DEF Environment, Decide, DiskTrouble, DiskRepaired, CrashAndRestart, Idle
<1>13. QED
  BY <1>4, <1>6, <1>7, <1>8, <1>9, <1>10, <1>11, <1>12 DEF Next, Service, vars

LEMMA SeenStep ==
  ASSUME TypeOK, SeenHolds, [Next]_vars
  PROVE  SeenHolds'
<1> SUFFICES ASSUME NEW h \in Handlers, handler'[h].pc = "checking", handler'[h].seen = "approved"
             PROVE  approvals'[handler'[h].req.approval].status = "approved"
  BY DEF SeenHolds
<1>1. CASE handler'[h] = handler[h]
  <2>1. handler[h].req \in Request /\ handler[h].req.approval # NoApproval
    BY <1>1 DEF TypeOK
  <2>2. handler[h].req.approval \in Approvals
    BY <2>1, OperationTypes
  <2>3. QED
    BY <1>1, <2>2, GrantStays DEF SeenHolds
<1>2. CASE /\ handler'[h].req = handler[h].req
           /\ handler'[h].seen = approvals[handler[h].req.approval].status
           /\ approvals' = approvals
  BY <1>2
<1>3. QED
  BY <1>1, <1>2, HandlerSteps

\* A step makes no call, or one that needs no approval, or one that has it.
LEMMA CallsAreGranted ==
  ASSUME TypeOK, SeenHolds, [Next]_vars
  PROVE  \/ sent' = sent
         \/ \E op \in Operation, payload \in Payloads \cup {NoPayload} :
              /\ sent' = Append(sent, [op |-> op, payload |-> payload])
              /\ op.target = "performer" /\ op.tool \in HumanTools => Granted(op, payload)
              /\ approvals' = approvals
<1> DEFINE Goal == \/ sent' = sent
                   \/ \E op \in Operation, payload \in Payloads \cup {NoPayload} :
                        /\ sent' = Append(sent, [op |-> op, payload |-> payload])
                        /\ op.target = "performer" /\ op.tool \in HumanTools => Granted(op, payload)
                        /\ approvals' = approvals
<1>1. CASE sent' = sent
  BY <1>1
<1>2. ASSUME NEW r \in Request, NEW h \in Handlers, ReserveAndPerform(h, r), approvals' = approvals,
             r.tool \in HumanTools => Granted(PerformOp(r), r.payload)
      PROVE  Goal
  <2>1. PerformOp(r) \in Operation /\ r.payload \in Payloads /\ PerformOp(r).tool = r.tool
    BY OperationTypes DEF PerformOp, OperationId
  <2>2. QED
    BY <1>2, <2>1 DEF ReserveAndPerform, ToSend
<1>3. ASSUME NEW h \in Handlers, Receive(h) PROVE Goal
  <2>1. PICK r \in Request : Refuse(h, r) \/ Allow(h, r) \/ RequestApproval(h, r) \/ Reenter(h, r)
    BY <1>3 DEF Receive
  <2>2. CASE Allow(h, r)
    BY <1>2, <2>2 DEF Allow
  <2>3. CASE RequestApproval(h, r)
    <3>1. ApprovalOp(r) \in Operation /\ ApprovalOp(r).target # "performer"
      BY OperationTypes DEF ApprovalOp, OperationId
    <3>2. QED
      BY <2>3, <3>1 DEF RequestApproval, ToSend
  <2>4. QED
    BY <2>1, <2>2, <2>3 DEF Refuse, Reenter
<1>4. ASSUME NEW h \in Handlers, Continue(h) PROVE Goal
  <2>1. CASE ResumeApproved(h) /\ handler[h].pc = "checking"
    <3> DEFINE r == handler[h].req
    <3>1. r \in Request /\ r.approval # NoApproval /\ PerformOp(r).approval = r.approval
      BY <2>1 DEF TypeOK, PerformOp, OperationId
    <3>2. Granted(PerformOp(r), r.payload)
      BY <2>1, <3>1 DEF ResumeApproved, BoundTo, BindingSha, Granted, SeenHolds
    <3>3. QED
      BY <1>2, <2>1, <3>1, <3>2 DEF ResumeApproved
  <2>2. CASE CreateReturns(h) \/ NotifyReturns(h) \/ PerformReturns(h)
    BY <2>2 DEF CreateReturns, NotifyReturns, PerformReturns, ReportPending
  <2>3. CASE ResumePending(h) \/ ResumeRefused(h) \/ ResumeBlocked(h)
    BY <2>3 DEF ResumePending, ResumeRefused, ResumeBlocked, BlockReentry, ReportPending
  <2>4. QED
    BY <1>4, <2>1, <2>2, <2>3 DEF Continue, Resume
<1>5. ASSUME NEW h \in Handlers, Service(h) \/ Fail(h) PROVE Goal
  BY <1>5 DEF Service, CreateApproval, ReadApproval, Execute, Fail, PaperclipFails, PerformFails
<1>6. CASE PollReadReturns
  <2>1. poller.cur \in poller.todo /\ PollerOK
    BY <1>6 DEF TypeOK, PollReadReturns, PollerOK
  <2>2. CommentOp(poller.cur) \in Operation /\ CommentOp(poller.cur).target # "performer"
    BY <2>1, PollerTypes DEF CommentOp, OperationId
  <2>3. QED
    BY <1>6, <2>2 DEF PollReadReturns, ToSend
<1>7. CASE PollStart \/ (\E u \in poller.todo : PollAsk(u)) \/ PollRead \/ PollCommentReturns \/ PollFails
  BY <1>7 DEF PollStart, PollAsk, PollRead, PollCommentReturns, PollFails
<1>8. CASE Environment
  BY <1>8 DEF Environment, Decide, DiskTrouble, DiskRepaired, CrashAndRestart
<1>9. QED
  BY <1>1, <1>3, <1>4, <1>5, <1>6, <1>7, <1>8 DEF Next, Poll, vars

GateInv == TypeOK /\ SeenHolds /\ HumanGateHonoured

LEMMA GateStep ==
  ASSUME GateInv, [Next]_vars
  PROVE  GateInv'
<1>1. TypeOK /\ SeenHolds /\ TypeOK' /\ SeenHolds'
  BY NextStep, SeenStep DEF StepOK, GateInv
<1> DEFINE GrantedNext(c) ==
             c.op.target = "performer" /\ c.op.tool \in HumanTools =>
               /\ c.op.approval # NoApproval
               /\ approvals'[c.op.approval].status = "approved"
               /\ approvals'[c.op.approval].binds = c.payload
<1>2. \A i \in 1 .. Len(sent) : GrantedNext(sent[i])
  <2> SUFFICES ASSUME NEW i \in 1 .. Len(sent), sent[i].op.target = "performer",
                      sent[i].op.tool \in HumanTools
               PROVE  /\ sent[i].op.approval # NoApproval
                      /\ approvals'[sent[i].op.approval].status = "approved"
                      /\ approvals'[sent[i].op.approval].binds = sent[i].payload
    OBVIOUS
  <2>1. /\ sent[i].op.approval # NoApproval
        /\ approvals[sent[i].op.approval].status = "approved"
        /\ approvals[sent[i].op.approval].binds = sent[i].payload
    BY DEF GateInv, HumanGateHonoured
  <2>2. sent[i].op.approval \in Approvals
    <3>1. sent[i] \in SentCall
      BY <1>1 DEF TypeOK
    <3>2. sent[i].op \in Operation
      BY <3>1 DEF SentCall
    <3>3. QED
      BY <2>1, <3>2 DEF Operation
  <2>3. QED
    BY <1>1, <2>1, <2>2, GrantStays
<1>3. \A i \in 1 .. Len(sent') : GrantedNext(sent'[i])
  <2>1. CASE sent' = sent
    BY <1>2, <2>1
  <2>2. ASSUME NEW op \in Operation, NEW payload \in Payloads \cup {NoPayload},
               sent' = Append(sent, [op |-> op, payload |-> payload]),
               op.target = "performer" /\ op.tool \in HumanTools => Granted(op, payload),
               approvals' = approvals
        PROVE  \A i \in 1 .. Len(sent') : GrantedNext(sent'[i])
    <3> DEFINE c == [op |-> op, payload |-> payload]
    <3>1. c \in SentCall
      BY DEF SentCall
    <3>2. /\ Len(sent) \in Nat /\ Len(sent') = Len(sent) + 1
          /\ \A i \in 1 .. Len(sent) : sent'[i] = sent[i]
          /\ sent'[Len(sent) + 1] = c
      BY <1>1, <2>2, <3>1, CallAppends
    <3>3. GrantedNext(c)
      BY <2>2 DEF Granted
    <3> HIDE DEF GrantedNext, c
    <3>4. QED
      BY <1>2, <3>2, <3>3
  <2>3. QED
    BY <1>1, <2>1, <2>2, CallsAreGranted
<1>4. HumanGateHonoured'
  BY <1>3 DEF HumanGateHonoured
<1>5. QED
  BY <1>1, <1>4 DEF GateInv

\* A human-gated payload reaches its performer only under an approval a human
\* granted and that was asked for that very payload, for any number of payloads
\* sharing a receipt hash, of concurrent requests and of process deaths.
THEOREM HumanGate == Spec => []HumanGateHonoured
<1>1. Init => GateInv
  BY InitTyped DEF Init, GateInv, SeenHolds, HumanGateHonoured, Idle
<1>2. GateInv /\ [Next]_vars => GateInv'
  BY GateStep
<1>3. GateInv => HumanGateHonoured
  BY DEF GateInv
<1>4. QED
  BY <1>1, <1>2, <1>3, PTL DEF Spec

-------------------------------------------------------------------------------
(***************************************************************************)
(* EgressGate implements OneShotDispatch.                                  *)
(***************************************************************************)
LEMMA UsedUp ==
  /\ \A op : op \in DurableOperations <=> DurablyRecorded(op) /\ op # NoOp
  /\ \A op : op \in DurableOperations'
           <=> (\E k \in 1 .. log'.synced : log'.lines[k].op = op) /\ op # NoOp
BY DEF DurableOperations, DurablyRecorded

LEMMA CalledBefore ==
  /\ \A op : op \in Called <=> \E i \in 1 .. Len(sent) : sent[i].op = op
  /\ \A op : op \in Called' <=> \E i \in 1 .. Len(sent') : sent'[i].op = op
BY DEF Called

\* A handler that awaits a performer has called it.
PerformingCalled ==
  \A h \in Handlers : handler[h].pc = "performing" => PerformOp(handler[h].req) \in Called

LEMMA CalledGrows ==
  ASSUME TypeOK, QuietStep \/ CallStep
  PROVE  Called \subseteq Called'
<1>1. CASE sent' = sent
  BY <1>1 DEF Called
<1>2. ASSUME NEW op \in Operation, NEW payload \in Payloads \cup {NoPayload},
             sent' = Append(sent, [op |-> op, payload |-> payload])
      PROVE  Called \subseteq Called'
  <2>1. [op |-> op, payload |-> payload] \in SentCall
    BY DEF SentCall
  <2>2. QED
    BY <1>2, <2>1, CallAppends, CalledBefore
<1>3. QED
  BY <1>1, <1>2 DEF QuietStep, CallStep

\* A handler starts to await a performer only in the step that calls it.
LEMMA PerformingStarts ==
  ASSUME TypeOK, [Next]_vars, NEW h \in Handlers, handler'[h].pc = "performing"
  PROVE  \/ handler[h].pc = "performing" /\ handler'[h].req = handler[h].req
         \/ \E payload \in Payloads :
              sent' = Append(sent, [op |-> PerformOp(handler'[h].req), payload |-> payload])
<1> DEFINE Goal == \/ handler[h].pc = "performing" /\ handler'[h].req = handler[h].req
                   \/ \E payload \in Payloads :
                        sent' = Append(sent, [op |-> PerformOp(handler'[h].req), payload |-> payload])
<1>1. handler \in [Handlers -> HandlerState] /\ HandlersOK
  BY TypeParts DEF HandlersOK
<1>2. CASE handler' = handler
  BY <1>2
<1>3. ASSUME NEW g \in Handlers, Answer(g) PROVE Goal
  BY <1>1, <1>3 DEF Answer, Idle
<1>4. ASSUME NEW g \in Handlers, NEW pc, NEW r, Await(g, pc, r), pc # "performing" PROVE Goal
  BY <1>1, <1>4 DEF Await, Awaiting
<1>5. ASSUME NEW g \in Handlers, NEW r \in Request, ReserveAndPerform(g, r) PROVE Goal
  <2>1. CASE Answer(g)
    BY <1>3, <2>1
  <2>2. CASE ToSend(PerformOp(r), r.payload) /\ Await(g, "performing", r)
    <3>1. handler' = [handler EXCEPT ![g] = Awaiting("performing", r)] /\ r.payload \in Payloads
      BY <2>2, OperationTypes DEF Await
    <3>2. handler'[h] = handler[h] \/ handler'[h].req = r
      BY <1>1, <3>1 DEF Awaiting
    <3>3. QED
      BY <2>2, <3>1, <3>2 DEF ToSend
  <2>3. QED
    BY <1>5, <2>1, <2>2 DEF ReserveAndPerform
<1>6. ASSUME NEW g \in Handlers, Receive(g) PROVE Goal
  BY <1>2, <1>4, <1>5, <1>6 DEF Receive, Refuse, Allow, RequestApproval, Reenter
<1>7. ASSUME NEW g \in Handlers, Continue(g) PROVE Goal
  <2>1. CASE CreateReturns(g)
    <3>1. CASE Answer(g)
      BY <1>3, <3>1
    <3>2. CASE handler' = [handler EXCEPT ![g].pc = "notifying"]
      BY <1>1, <3>2
    <3>3. QED
      BY <2>1, <3>1, <3>2 DEF CreateReturns, ReportPending
  <2>2. CASE NotifyReturns(g) \/ PerformReturns(g)
    BY <1>3, <2>2 DEF NotifyReturns, ReportPending, PerformReturns
  <2>3. CASE Resume(g)
    <3>1. CASE ResumePending(g) \/ ResumeRefused(g) \/ ResumeBlocked(g)
      BY <1>3, <3>1 DEF ResumePending, ResumeRefused, ResumeBlocked, ReportPending, BlockReentry
    <3>2. CASE ResumeApproved(g)
      BY <1>1, <1>5, <2>3, <3>2 DEF Resume, ResumeApproved, HandlersOK
    <3>3. QED
      BY <2>3, <3>1, <3>2 DEF Resume
  <2>4. QED
    BY <1>7, <2>1, <2>2, <2>3 DEF Continue
<1>8. ASSUME NEW g \in Handlers, NEW a \in Approvals, CreateApproval(g, a) PROVE Goal
  BY <1>1, <1>8 DEF CreateApproval
<1>9. ASSUME NEW g \in Handlers, ReadApproval(g) PROVE Goal
  BY <1>1, <1>9 DEF ReadApproval
<1>10. ASSUME NEW g \in Handlers, Execute(g) \/ Fail(g) PROVE Goal
  BY <1>2, <1>3, <1>10 DEF Execute, Fail, PaperclipFails, PerformFails
<1>11. CASE Poll \/ PollFails
  BY <1>2, <1>11 DEF Poll, PollFails, PollStart, PollAsk, PollRead, PollReadReturns, PollCommentReturns
<1>12. CASE Environment
  BY <1>2, <1>12 DEF Environment, Decide, DiskTrouble, DiskRepaired, CrashAndRestart, Idle
<1>13. QED
  BY <1>2, <1>6, <1>7, <1>8, <1>9, <1>10, <1>11, <1>12 DEF Next, Service, vars

LEMMA PerformingStep ==
  ASSUME TypeOK, PerformingCalled, [Next]_vars
  PROVE  PerformingCalled'
<1>1. Called \subseteq Called'
  BY NextStep, CalledGrows DEF StepOK
<1>2. ASSUME NEW h \in Handlers, handler'[h].pc = "performing"
      PROVE  PerformOp(handler'[h].req) \in Called'
  <2>1. CASE handler[h].pc = "performing" /\ handler'[h].req = handler[h].req
    BY <1>1, <2>1 DEF PerformingCalled
  <2>2. ASSUME NEW payload \in Payloads,
               sent' = Append(sent, [op |-> PerformOp(handler'[h].req), payload |-> payload])
        PROVE  PerformOp(handler'[h].req) \in Called'
    <3>1. handler'[h].req \in Request
      BY <1>2, NextStep DEF StepOK, TypeOK
    <3>2. [op |-> PerformOp(handler'[h].req), payload |-> payload] \in SentCall
      BY <3>1, OperationTypes DEF SentCall
    <3>3. QED
      BY <2>2, <3>2, CallAppends, CalledBefore
  <2>3. QED
    BY <1>2, <2>1, <2>2, PerformingStarts
<1>3. QED
  BY <1>2 DEF PerformingCalled, PerformOp

\* What a quiet step or a call does to the identities used up and called.
LEMMA UseMaps ==
  ASSUME DispatchInv, TypeOK', QuietStep \/ CallStep
  PROVE  /\ DurableOperations \subseteq DurableOperations'
         /\ DurableOperations' \subseteq Operation
         /\ Called \subseteq Called'
         /\ Called' \ Called \subseteq DurableOperations' \ DurableOperations
<1>1. TypeOK /\ Keeps(log, log')
  BY DEF DispatchInv, QuietStep, CallStep
<1>2. DurableOperations \subseteq DurableOperations'
  BY <1>1, UsedUp, DurableStays
<1>3. DurableOperations' \subseteq Operation
  <2> SUFFICES ASSUME NEW k \in 1 .. log'.synced, log'.lines[k].op # NoOp
               PROVE  log'.lines[k].op \in Operation
    BY UsedUp
  <2>1. log'.lines \in Seq(Receipt) /\ log'.synced \in Nat /\ log'.synced <= Len(log'.lines)
    BY <1>1 DEF Keeps, Ledger
  <2>2. log'.lines[k] \in Receipt
    BY <2>1
  <2>3. QED
    BY <2>2 DEF Receipt
<1>4. Called \subseteq Called'
  BY <1>1, CalledGrows
<1>5. Called' \ Called \subseteq DurableOperations' \ DurableOperations
  <2>1. CASE QuietStep
    BY <2>1 DEF QuietStep, Called
  <2>2. CASE CallStep
    <3>1. PICK op \in Operation, payload \in Payloads \cup {NoPayload} :
            /\ ~Recorded(op)
            /\ sent' = Append(sent, [op |-> op, payload |-> payload])
            /\ log'.synced \in Nat /\ log'.synced >= 1 /\ log'.lines[log'.synced].op = op
      BY <2>2 DEF CallStep
    <3>2. [op |-> op, payload |-> payload] \in SentCall
      BY DEF SentCall
    <3>3. Called' \ Called \subseteq {op}
      BY <1>1, <3>1, <3>2, CallAppends, CalledBefore
    <3>4. op \in DurableOperations'
      BY <3>1, UsedUp, IdentityAssumption
    <3>5. op \notin DurableOperations
      BY <1>1, <3>1, UsedUp, DurableIsRecorded
    <3>6. QED
      BY <3>3, <3>4, <3>5
  <2>3. QED
    BY <2>1, <2>2
<1>6. QED
  BY <1>2, <1>3, <1>4, <1>5

\* Only a performer's vendor and a returning performer touch the outcome sets.
LEMMA OutcomesChange ==
  ASSUME [Next]_vars
  PROVE  \/ executed' = executed /\ acked' = acked
         \/ \E h \in Handlers : Execute(h)
         \/ \E h \in Handlers : PerformReturns(h)
<1> DEFINE Same == executed' = executed /\ acked' = acked
<1>1. ASSUME NEW h \in Handlers, Receive(h) PROVE Same
  BY <1>1 DEF Receive, Refuse, Allow, RequestApproval, Reenter
<1>2. ASSUME NEW h \in Handlers, CreateReturns(h) \/ NotifyReturns(h) PROVE Same
  BY <1>2 DEF CreateReturns, NotifyReturns, ReportPending
<1>3. ASSUME NEW h \in Handlers, Resume(h) PROVE Same
  BY <1>3 DEF Resume, ResumePending, ResumeRefused, ResumeBlocked, ResumeApproved, ReportPending,
              BlockReentry
<1>4. ASSUME NEW h \in Handlers, (\E a \in Approvals : CreateApproval(h, a)) \/ ReadApproval(h) \/ Fail(h)
      PROVE  Same
  BY <1>4 DEF CreateApproval, ReadApproval, Fail, PaperclipFails, PerformFails
<1>5. Poll \/ PollFails => Same
  BY DEF Poll, PollFails, PollStart, PollAsk, PollRead, PollReadReturns, PollCommentReturns
<1>6. Environment => Same
  BY DEF Environment, Decide, DiskTrouble, DiskRepaired, CrashAndRestart
<1>7. QED
  BY <1>1, <1>2, <1>3, <1>4, <1>5, <1>6 DEF Next, Continue, Service, vars

LEMMA StepImplements ==
  ASSUME DispatchInv, PerformingCalled, [Next]_vars
  PROVE  [OneShot!Next]_<<DurableOperations, Called, executed, acked>>
<1>1. TypeOK /\ TypeOK' /\ (QuietStep \/ CallStep)
  BY NextStep DEF StepOK, DispatchInv
<1>2. /\ DurableOperations \subseteq DurableOperations'
      /\ DurableOperations' \subseteq Operation
      /\ Called \subseteq Called'
      /\ Called' \ Called \subseteq DurableOperations' \ DurableOperations
  BY <1>1, UseMaps
<1>3. CASE executed' = executed /\ acked' = acked
  BY <1>2, <1>3 DEF OneShot!Next, OneShot!Use, OneShot!UsedGrows
<1>4. ASSUME NEW h \in Handlers, Execute(h)
      PROVE  OneShot!Next
  <2> DEFINE op == PerformOp(handler[h].req)
  <2>1. op \in Called /\ op \notin executed /\ executed' = executed \cup {op}
    BY <1>4 DEF Execute, PerformingCalled
  <2>2. op \in Operation
    BY <1>1, <1>4, OperationTypes DEF Execute, TypeOK
  <2>3. DurableOperations' = DurableOperations /\ Called' = Called /\ acked' = acked
    BY <1>4 DEF Execute, DurableOperations, Called
  <2>4. OneShot!CarryOut(op)
    BY <2>1, <2>3 DEF OneShot!CarryOut
  <2>5. QED
    BY <2>2, <2>4 DEF OneShot!Next
<1>5. ASSUME NEW h \in Handlers, PerformReturns(h), acked' # acked
      PROVE  OneShot!Next
  <2> DEFINE op == PerformOp(handler[h].req)
  <2>1. op \in executed /\ acked' = acked \cup {op} /\ executed' = executed
    BY <1>5 DEF PerformReturns
  <2>2. op \in Operation
    BY <1>1, <1>5, OperationTypes DEF PerformReturns, TypeOK
  <2>3. Called' = Called
    BY <1>5 DEF PerformReturns, Called
  <2>4. OneShot!Acknowledge(op)
    BY <1>2, <2>1, <2>3 DEF OneShot!Acknowledge, OneShot!UsedGrows
  <2>5. QED
    BY <2>2, <2>4 DEF OneShot!Next
<1>6. ASSUME NEW h \in Handlers, PerformReturns(h)
      PROVE  executed' = executed
  BY <1>6 DEF PerformReturns
<1>7. QED
  BY <1>3, <1>4, <1>5, <1>6, OutcomesChange

\* Every behaviour of the gate is one of the one-shot promise: an identity is used
\* up for good by the first durable line that names it, only a fresh identity is
\* called, what is carried out was called, and what is answered was carried out.
THEOREM GateImplementsOneShot == Spec => ImplementsOneShot
<1>1. Init => OneShot!Init
  BY DEF Init, OneShot!Init, DurableOperations, Called
<1>2. Init => PerformingCalled
  BY DEF Init, PerformingCalled, Idle
<1>3. DispatchInv /\ PerformingCalled /\ [Next]_vars => PerformingCalled'
  BY PerformingStep DEF DispatchInv
<1>4. DispatchInv /\ PerformingCalled /\ [Next]_vars
        => [OneShot!Next]_<<DurableOperations, Called, executed, acked>>
  BY StepImplements
<1>5. QED
  BY <1>1, <1>2, <1>3, <1>4, DispatchInvariant, PTL DEF Spec, ImplementsOneShot, OneShot!Spec

-------------------------------------------------------------------------------
(***************************************************************************)
(* What the answers and the ledger say is true.                            *)
(***************************************************************************)
LEMMA StepKeeps ==
  ASSUME TypeOK, [Next]_vars
  PROVE  TypeOK' /\ Keeps(log, log') /\ executed \subseteq executed'
<1>1. TypeOK' /\ Keeps(log, log')
  BY NextStep DEF StepOK, QuietStep, CallStep
<1>2. executed \subseteq executed'
  BY OutcomesChange DEF Execute, PerformReturns
<1>3. QED
  BY <1>1, <1>2

\* The 200 is sent in the step that makes its performed receipt the last durable line.
LEMMA NewlyAcked ==
  ASSUME TypeOK, [Next]_vars, NEW op \in acked', op \notin acked
  PROVE  /\ op \in executed'
         /\ \E i \in 1 .. log'.synced :
              log'.lines[i].op = op /\ log'.lines[i].outcome = "performed"
<1>1. PICK h \in Handlers : PerformReturns(h)
  BY OutcomesChange DEF Execute
<1> DEFINE r == handler[h].req
           performed == ReceiptOf("performed", r, r.approval, PerformOp(r))
<1>2. /\ op = PerformOp(r) /\ op \in executed /\ executed' = executed
      /\ log' = Written(log, performed, "ok")
  BY <1>1 DEF PerformReturns
<1>3. r \in Request /\ log \in Ledger
  BY <1>1 DEF PerformReturns, TypeOK, Ledger
<1>4. performed \in Receipt /\ performed.op = op /\ performed.outcome = "performed"
  BY <1>2, <1>3, OperationTypes, ReceiptType DEF Outcome, ReceiptOf
<1>5. /\ Keeps(log, log') /\ log'.synced >= 1
      /\ log'.lines[log'.synced] = performed
  BY <1>2, <1>3, <1>4, WrittenKeeps
<1>6. log'.synced \in 1 .. log'.synced
  BY <1>5 DEF Keeps, Ledger
<1>7. log'.lines[log'.synced].op = op /\ log'.lines[log'.synced].outcome = "performed"
  BY <1>4, <1>5
<1>8. QED
  BY <1>2, <1>6, <1>7

LEMMA AckedStep ==
  ASSUME TypeOK, AckedIsDurable, [Next]_vars
  PROVE  AckedIsDurable'
<1>1. Keeps(log, log') /\ executed \subseteq executed' /\ log \in Ledger
  BY StepKeeps, TypeParts
<1>2. ASSUME NEW op \in acked
      PROVE  /\ op \in executed'
             /\ \E i \in 1 .. log'.synced :
                  log'.lines[i].op = op /\ log'.lines[i].outcome = "performed"
  <2>1. PICK i \in 1 .. log.synced : log.lines[i].op = op /\ log.lines[i].outcome = "performed"
    BY DEF AckedIsDurable
  <2>2. i \in 1 .. log'.synced /\ log'.lines[i] = log.lines[i]
    BY <1>1 DEF Keeps, Ledger
  <2>3. QED
    BY <1>1, <2>1, <2>2 DEF AckedIsDurable
<1>3. QED
  BY <1>2, NewlyAcked DEF AckedIsDurable

\* A "200" is never ahead of the vendor or of the fsync, for any number of requests
\* in flight, disk faults and power losses between the answer and the reading of it.
THEOREM AnswersAreDurable == Spec => []AckedIsDurable
<1>1. Init => TypeOK /\ AckedIsDurable
  BY InitTyped DEF Init, AckedIsDurable
<1>2. TypeOK /\ AckedIsDurable /\ [Next]_vars => TypeOK' /\ AckedIsDurable'
  BY StepKeeps, AckedStep
<1>3. QED
  BY <1>1, <1>2, PTL DEF Spec

\* Operations whose performer some handler awaits.
Performing == {PerformOp(handler[h].req) : h \in {g \in Handlers : handler[g].pc = "performing"}}

\* The receipt says something of a performer operation, beyond its reservation.
Claims(line) ==
  line.op # NoOp /\ line.outcome # "reserved" /\ line.op.target = "performer"

\* What it says is of one of the operations S, and true.
Founded(line, S) ==
  Claims(line) => line.op \in S /\ (line.outcome = "performed" => line.op \in executed)

\* m is l with founded lines added at its end.
Adds(l, m, S) ==
  /\ m \in Ledger
  /\ Len(l.lines) <= Len(m.lines)
  /\ \A i \in 1 .. Len(l.lines) : m.lines[i] = l.lines[i]
  /\ \A i \in Len(l.lines) + 1 .. Len(m.lines) : Founded(m.lines[i], S)

LEMMA WrittenAdds ==
  ASSUME NEW l \in Ledger, NEW receipt \in Receipt, NEW S, Founded(receipt, S), NEW result
  PROVE  Adds(l, Written(l, receipt, result), S)
<1>1. l.lines \in Seq(Receipt) /\ l.synced \in Nat /\ l.synced <= Len(l.lines) /\ Len(l.lines) \in Nat
  BY DEF Ledger
<1>2. /\ Append(l.lines, receipt) \in Seq(Receipt)
      /\ Len(Append(l.lines, receipt)) = Len(l.lines) + 1
      /\ \A i \in 1 .. Len(l.lines) : Append(l.lines, receipt)[i] = l.lines[i]
      /\ Append(l.lines, receipt)[Len(l.lines) + 1] = receipt
  BY <1>1
<1>3. Written(l, receipt, result) \in Ledger
  BY WrittenKeeps DEF Keeps
<1>4. CASE result = "lost"
  BY <1>1, <1>3, <1>4 DEF Written, Adds
<1>5. CASE result # "lost"
  <2>1. Written(l, receipt, result).lines = Append(l.lines, receipt)
    BY <1>5 DEF Written
  <2>2. QED
    BY <1>1, <1>2, <1>3, <2>1 DEF Adds
<1>6. QED
  BY <1>4, <1>5

LEMMA FlushedAdds ==
  ASSUME NEW l \in Ledger, NEW S
  PROVE  Adds(l, Flushed(l), S) /\ Adds(l, l, S)
BY DEF Adds, Ledger, Flushed

LEMMA AddsTransitive ==
  ASSUME NEW l \in Ledger, NEW m, NEW n, NEW S, Adds(l, m, S), Adds(m, n, S)
  PROVE  Adds(l, n, S)
<1>1. Len(l.lines) \in Nat /\ Len(m.lines) \in Nat /\ Len(n.lines) \in Nat
  BY DEF Adds, Ledger
<1>2. ASSUME NEW i \in 1 .. Len(l.lines) PROVE n.lines[i] = l.lines[i]
  BY <1>1 DEF Adds
<1>3. ASSUME NEW i \in Len(l.lines) + 1 .. Len(n.lines) PROVE Founded(n.lines[i], S)
  <2>1. CASE i <= Len(m.lines)
    <3>1. n.lines[i] = m.lines[i] /\ Founded(m.lines[i], S)
      BY <1>1, <2>1 DEF Adds
    <3>2. QED
      BY <3>1
  <2>2. CASE i > Len(m.lines)
    BY <1>1, <2>2 DEF Adds
  <2>3. QED
    BY <1>1, <2>1, <2>2
<1>4. QED
  BY <1>1, <1>2, <1>3 DEF Adds

LEMMA UnhandledAdds ==
  ASSUME NEW l \in Ledger, NEW r \in Request, NEW S, NEW m \in Unhandled(l, r)
  PROVE  Adds(l, m, S)
<1> DEFINE receipt == ReceiptOf("error", [r EXCEPT !.issue = NoIssue], NoApproval, NoOp)
<1>1. PICK result \in Results : m = Written(l, receipt, result)
  BY DEF Unhandled
<1>2. receipt \in Receipt /\ receipt.op = NoOp
  BY DEF ReceiptOf, Receipt, Outcome, Request
<1>3. QED
  BY <1>1, <1>2, WrittenAdds DEF Founded, Claims

LEMMA AppendedAdds ==
  ASSUME NEW l \in Ledger, NEW r \in Request, NEW receipt \in Receipt, NEW S, Founded(receipt, S)
  PROVE  /\ \A m \in Appended(l, r, receipt) : Adds(l, m, S)
         /\ \A m \in AppendedWithAudit(l, r, receipt) : Adds(l, m, S)
<1>1. ASSUME NEW m \in Appended(l, r, receipt) PROVE Adds(l, m, S)
  <2>1. PICK result \in Results :
          m \in IF result = "ok" THEN {Written(l, receipt, result)}
                ELSE Unhandled(Written(l, receipt, result), r)
    BY DEF Appended
  <2>2. Adds(l, Written(l, receipt, result), S)
    BY WrittenAdds
  <2>3. CASE result = "ok"
    BY <2>1, <2>2, <2>3
  <2>4. CASE result # "ok"
    <3>1. Adds(Written(l, receipt, result), m, S)
      BY <2>1, <2>2, <2>4, UnhandledAdds DEF Adds
    <3>2. QED
      BY <2>2, <3>1, AddsTransitive
  <2>5. QED
    BY <2>3, <2>4
<1>2. QED
  BY <1>1, UnhandledAdds DEF AppendedWithAudit

\* The receipts that claim nothing of a performer, and the ones that may.
LEMMA FoundedReceipts ==
  ASSUME NEW r \in Request, NEW approval \in Approvals \cup {NoApproval}, NEW S
  PROVE  /\ \A outcome \in Outcome, op \in {NoOp, ApprovalOp(r), HumanOp(r)} :
              /\ ReceiptOf(outcome, r, approval, op) \in Receipt
              /\ Founded(ReceiptOf(outcome, r, approval, op), S)
         /\ \A op \in Operation \cup {NoOp} :
              /\ ReceiptOf("reserved", r, approval, op) \in Receipt
              /\ Founded(ReceiptOf("reserved", r, approval, op), S)
         /\ PerformOp(r) \in S => Founded(ReceiptOf("error", r, approval, PerformOp(r)), S)
         /\ PerformOp(r) \in S \cap executed
              => Founded(ReceiptOf("performed", r, approval, PerformOp(r)), S)
         /\ \A outcome \in Outcome : ReceiptOf(outcome, r, approval, PerformOp(r)) \in Receipt
<1>1. /\ PerformOp(r) \in Operation /\ ApprovalOp(r) \in Operation
      /\ HumanOp(r) \in {NoOp, ApprovalOp(r)}
      /\ r.tool \in Tools /\ r.issue \in Issues \cup {NoIssue}
  BY OperationTypes DEF HumanOp
<1>2. \A outcome \in Outcome, op \in Operation \cup {NoOp} :
        /\ ReceiptOf(outcome, r, approval, op) \in Receipt
        /\ ReceiptOf(outcome, r, approval, op).outcome = outcome
        /\ ReceiptOf(outcome, r, approval, op).op = op
  BY <1>1 DEF ReceiptOf, Receipt
<1>3. ApprovalOp(r).target # "performer"
  BY DEF ApprovalOp, OperationId
<1>4. QED
  BY <1>1, <1>2, <1>3 DEF Founded, Claims, Outcome

LEMMA ErrorsAdd ==
  ASSUME NEW l \in Ledger, NEW r \in Request, NEW S
  PROVE  /\ \A m \in GateError(l, r) : Adds(l, m, S)
         /\ PerformOp(r) \in S => \A m \in PerformError(l, r) : Adds(l, m, S)
<1>1. r.approval \in Approvals \cup {NoApproval} /\ "error" \in Outcome
  BY OperationTypes DEF Outcome
<1>2. QED
  BY <1>1, FoundedReceipts, AppendedAdds DEF GateError, PerformError

LEMMA ReserveAdds ==
  ASSUME TypeOK, NEW h \in Handlers, NEW r \in Request, NEW S, ReserveAndPerform(h, r)
  PROVE  Adds(log, log', S)
<1>1. /\ log \in Ledger /\ PerformOp(r) \in Operation /\ r.approval \in Approvals \cup {NoApproval}
  BY TypeParts, OperationTypes
<1>2. /\ ReceiptOf("reserved", r, r.approval, PerformOp(r)) \in Receipt
      /\ Founded(ReceiptOf("reserved", r, r.approval, PerformOp(r)), S)
  BY <1>1, FoundedReceipts
<1>3. QED
  BY <1>1, <1>2, FlushedAdds, WrittenAdds DEF ReserveAndPerform

LEMMA ReceiveAdds ==
  ASSUME TypeOK, NEW h \in Handlers, NEW S, Receive(h)
  PROVE  Adds(log, log', S)
<1>1. PICK r \in Request : Refuse(h, r) \/ Allow(h, r) \/ RequestApproval(h, r) \/ Reenter(h, r)
  BY DEF Receive
<1>2. /\ log \in Ledger /\ r.approval \in Approvals \cup {NoApproval} /\ ApprovalOp(r) \in Operation
      /\ NoApproval \in Approvals \cup {NoApproval}
  BY TypeParts, OperationTypes
<1>3. CASE Refuse(h, r)
  <2>1. /\ ReceiptOf("blocked", r, r.approval, NoOp) \in Receipt
        /\ Founded(ReceiptOf("blocked", r, r.approval, NoOp), S)
    BY <1>2, FoundedReceipts DEF Outcome
  <2>2. QED
    BY <1>2, <1>3, <2>1, AppendedAdds DEF Refuse
<1>4. CASE Allow(h, r)
  BY <1>4, ReserveAdds DEF Allow
<1>5. CASE RequestApproval(h, r)
  <2> DEFINE reservation == ReceiptOf("reserved", r, NoApproval, ApprovalOp(r))
  <2>1. reservation \in Receipt /\ Founded(reservation, S)
    BY <1>2, FoundedReceipts
  <2>2. \A result : Adds(log, Written(log, reservation, result), S)
    BY <1>2, <2>1, WrittenAdds
  <2>3. CASE \E result \in Results \ {"ok"} :
               log' \in GateError(Written(log, reservation, result), r)
    <3>1. PICK result : log' \in GateError(Written(log, reservation, result), r)
      BY <2>3
    <3>2. Adds(Written(log, reservation, result), log', S)
      BY <2>2, <3>1, ErrorsAdd DEF Adds
    <3>3. QED
      BY <1>2, <2>2, <3>2, AddsTransitive
  <2>4. CASE log' = Flushed(log) \/ log' = Written(log, reservation, "ok")
    BY <1>2, <2>2, <2>4, FlushedAdds
  <2>5. CASE log' \in GateError(log, r)
    BY <1>2, <2>5, ErrorsAdd
  <2>6. QED
    BY <1>5, <2>3, <2>4, <2>5 DEF RequestApproval
<1>6. CASE Reenter(h, r)
  BY <1>2, <1>6, FlushedAdds, ErrorsAdd DEF Reenter
<1>7. QED
  BY <1>1, <1>3, <1>4, <1>5, <1>6

LEMMA AnswerAdds ==
  ASSUME TypeOK, NEW h \in Handlers, handler[h].pc # "idle", NEW S
  PROVE  /\ \A a \in Approvals \cup {NoApproval} : ReportPending(h, a) => Adds(log, log', S)
         /\ BlockReentry(h) => Adds(log, log', S)
<1> DEFINE r == handler[h].req
<1>1. log \in Ledger /\ r \in Request /\ r.approval \in Approvals \cup {NoApproval}
  BY OperationTypes DEF TypeOK, Ledger
<1>2. ASSUME NEW a \in Approvals \cup {NoApproval}, ReportPending(h, a)
      PROVE  Adds(log, log', S)
  <2>1. /\ ReceiptOf("pending", r, a, HumanOp(r)) \in Receipt
        /\ Founded(ReceiptOf("pending", r, a, HumanOp(r)), S)
    BY <1>1, FoundedReceipts DEF Outcome
  <2>2. QED
    BY <1>1, <1>2, <2>1, AppendedAdds DEF ReportPending
<1>3. ASSUME BlockReentry(h)
      PROVE  Adds(log, log', S)
  <2>1. /\ ReceiptOf("blocked", r, r.approval, NoOp) \in Receipt
        /\ Founded(ReceiptOf("blocked", r, r.approval, NoOp), S)
    BY <1>1, FoundedReceipts DEF Outcome
  <2>2. QED
    BY <1>1, <1>3, <2>1, AppendedAdds DEF BlockReentry
<1>4. QED
  BY <1>2, <1>3

LEMMA PerformAdds ==
  ASSUME TypeOK, NEW h \in Handlers, PerformReturns(h) \/ PerformFails(h)
  PROVE  Adds(log, log', Performing)
<1> DEFINE r == handler[h].req
           op == PerformOp(r)
           performed == ReceiptOf("performed", r, r.approval, op)
<1>1. /\ log \in Ledger /\ r \in Request /\ r.approval \in Approvals \cup {NoApproval}
      /\ handler[h].pc = "performing"
  BY OperationTypes DEF TypeOK, Ledger, PerformReturns, PerformFails
<1>2. op \in Performing
  BY <1>1 DEF Performing
<1>3. \A l \in Ledger : \A m \in PerformError(l, r) : Adds(l, m, Performing)
  BY <1>1, <1>2, ErrorsAdd
<1>4. CASE PerformFails(h)
  BY <1>1, <1>3, <1>4 DEF PerformFails
<1>5. CASE PerformReturns(h)
  <2>1. performed \in Receipt /\ Founded(performed, Performing)
    BY <1>1, <1>2, <1>5, FoundedReceipts DEF PerformReturns, Outcome
  <2>2. \A result : Adds(log, Written(log, performed, result), Performing)
    BY <1>1, <2>1, WrittenAdds
  <2>3. CASE \E result \in Results \ {"ok"} :
               log' \in PerformError(Written(log, performed, result), r)
    <3>1. PICK result : log' \in PerformError(Written(log, performed, result), r)
      BY <2>3
    <3>2. Adds(Written(log, performed, result), log', Performing)
      BY <1>3, <2>2, <3>1 DEF Adds
    <3>3. QED
      BY <1>1, <2>2, <3>2, AddsTransitive
  <2>4. CASE log' = Written(log, performed, "ok") \/ log' \in PerformError(log, r)
    BY <1>1, <1>3, <2>2, <2>4
  <2>5. QED
    BY <1>5, <2>3, <2>4 DEF PerformReturns
<1>6. QED
  BY <1>4, <1>5

LEMMA PollAdds ==
  ASSUME TypeOK, NEW S, Poll \/ PollFails
  PROVE  Adds(log, log', S)
<1>1. log \in Ledger /\ PollerOK
  BY TypeParts
<1>2. CASE PollStart \/ PollRead \/ PollFails \/ \E u \in poller.todo : PollAsk(u)
  BY <1>1, <1>2, FlushedAdds DEF PollStart, PollRead, PollFails, PollAsk
<1>3. CASE PollReadReturns \/ PollCommentReturns
  <2>1. poller.pc \in {"reading", "commenting"} /\ poller.cur \in poller.todo
    BY <1>1, <1>3 DEF PollReadReturns, PollCommentReturns, PollerOK
  <2>2. CommentOp(poller.cur).target # "performer"
    BY DEF CommentOp, OperationId
  <2>3. \A outcome \in Outcome :
          /\ PollReceipt(outcome) \in Receipt /\ PollReceipt(outcome).outcome = outcome
          /\ PollReceipt(outcome).op \in {NoOp, CommentOp(poller.cur)}
    BY <1>1, <2>1, PollReceiptType DEF PollReceipt, ReceiptOf
  <2>4. \A outcome \in Outcome : Founded(PollReceipt(outcome), S)
    BY <2>2, <2>3 DEF Founded, Claims
  <2>5. \A outcome \in Outcome : \A result : Adds(log, Written(log, PollReceipt(outcome), result), S)
    BY <1>1, <2>3, <2>4, WrittenAdds
  <2>6. QED
    BY <1>1, <1>3, <2>5, FlushedAdds DEF PollReadReturns, PollCommentReturns, PollAppend, Outcome
<1>4. QED
  BY <1>2, <1>3 DEF Poll

\* A step only adds founded lines, except that a crash may take undurable ones off.
LEMMA StepAdds ==
  ASSUME TypeOK, [Next]_vars
  PROVE  \/ Adds(log, log', Performing)
         \/ \E keep \in 0 .. Len(log.lines) : CrashAndRestart(keep)
<1>1. log \in Ledger
  BY TypeParts
<1>2. log' = log => Adds(log, log', Performing)
  BY <1>1, FlushedAdds
<1>3. ASSUME NEW h \in Handlers, Receive(h)
      PROVE  Adds(log, log', Performing)
  BY <1>3, ReceiveAdds
<1>4. ASSUME NEW h \in Handlers, Continue(h)
      PROVE  Adds(log, log', Performing)
  <2>1. handler[h] \in HandlerState /\ (handler[h].pc = "checking" => handler[h].req \in Request)
    BY DEF TypeOK
  <2>2. CASE CreateReturns(h) \/ NotifyReturns(h)
    <3>1. handler[h].pc # "idle" /\ handler[h].made \in Approvals \cup {NoApproval}
      BY <2>1, <2>2 DEF CreateReturns, NotifyReturns, HandlerState
    <3>2. log' = log \/ ReportPending(h, handler[h].made)
      BY <2>2 DEF CreateReturns, NotifyReturns
    <3>3. ReportPending(h, handler[h].made) => Adds(log, log', Performing)
      BY <3>1, AnswerAdds
    <3>4. QED
      BY <1>2, <3>2, <3>3
  <2>3. CASE Resume(h)
    <3>1. handler[h].pc # "idle" /\ handler[h].req \in Request
          /\ handler[h].req.approval \in Approvals \cup {NoApproval}
      BY <2>1, <2>3, OperationTypes DEF Resume
    <3>2. CASE ResumeApproved(h)
      BY <3>1, <3>2, ReserveAdds DEF ResumeApproved
    <3>3. QED
      BY <2>3, <3>1, <3>2, AnswerAdds DEF Resume, ResumePending, ResumeRefused, ResumeBlocked
  <2>4. CASE PerformReturns(h)
    BY <2>4, PerformAdds
  <2>5. QED
    BY <1>4, <2>2, <2>3, <2>4 DEF Continue
<1>5. ASSUME NEW h \in Handlers, Fail(h)
      PROVE  Adds(log, log', Performing)
  <2>1. CASE PaperclipFails(h)
    <3>1. handler[h].req \in Request
      BY <2>1 DEF PaperclipFails, TypeOK
    <3>2. QED
      BY <1>1, <2>1, <3>1, ErrorsAdd DEF PaperclipFails
  <2>2. QED
    BY <1>5, <2>1, PerformAdds DEF Fail
<1>6. ASSUME NEW h \in Handlers, Service(h)
      PROVE  log' = log
  BY <1>6 DEF Service, CreateApproval, ReadApproval, Execute
<1>7. CASE Environment
  BY <1>2, <1>7 DEF Environment, Decide, DiskTrouble, DiskRepaired
<1>8. QED
  BY <1>2, <1>3, <1>4, <1>5, <1>6, <1>7, PollAdds DEF Next, vars

\* What a handler awaits a performer for has its reservation on a durable line.
PerformingReserved ==
  \A op \in Performing :
    \E k \in 1 .. log.synced : log.lines[k].op = op /\ log.lines[k].outcome = "reserved"

LEMMA PerformingReservedStep ==
  ASSUME TypeOK, PerformingReserved, [Next]_vars
  PROVE  PerformingReserved'
<1>1. /\ TypeOK' /\ Keeps(log, log') /\ (QuietStep \/ CallStep)
      /\ log \in Ledger /\ sent \in Seq(SentCall)
  BY StepKeeps, NextStep, TypeParts DEF StepOK
<1>2. ASSUME NEW h \in Handlers, handler'[h].pc = "performing"
      PROVE  \E k \in 1 .. log'.synced : /\ log'.lines[k].op = PerformOp(handler'[h].req)
                                         /\ log'.lines[k].outcome = "reserved"
  <2>1. CASE handler[h].pc = "performing" /\ handler'[h].req = handler[h].req
    <3>1. PerformOp(handler'[h].req) \in Performing
      BY <2>1 DEF Performing
    <3>2. PICK k \in 1 .. log.synced : /\ log.lines[k].op = PerformOp(handler'[h].req)
                                       /\ log.lines[k].outcome = "reserved"
      BY <3>1 DEF PerformingReserved
    <3>3. k \in 1 .. log'.synced /\ log'.lines[k] = log.lines[k]
      BY <1>1 DEF Keeps, Ledger
    <3>4. QED
      BY <3>2, <3>3
  <2>2. ASSUME NEW payload \in Payloads,
               sent' = Append(sent, [op |-> PerformOp(handler'[h].req), payload |-> payload])
        PROVE  \E k \in 1 .. log'.synced : /\ log'.lines[k].op = PerformOp(handler'[h].req)
                                           /\ log'.lines[k].outcome = "reserved"
    <3> DEFINE c == [op |-> PerformOp(handler'[h].req), payload |-> payload]
    <3>1. handler'[h].req \in Request
      BY <1>1, <1>2 DEF TypeOK
    <3>2. c \in SentCall /\ c.op = PerformOp(handler'[h].req)
      BY <3>1, OperationTypes DEF SentCall
    <3>3. /\ Len(sent) \in Nat /\ Len(sent') = Len(sent) + 1
          /\ sent'[Len(sent) + 1] = c
      BY <2>2, <3>2, CallAppends
    <3>4. CallStep
      BY <1>1, <3>3 DEF QuietStep
    <3>5. PICK op \in Operation, other \in Payloads \cup {NoPayload} :
            /\ sent' = Append(sent, [op |-> op, payload |-> other])
            /\ log'.synced \in Nat /\ log'.synced >= 1
            /\ log'.lines[log'.synced].op = op /\ log'.lines[log'.synced].outcome = "reserved"
      BY <3>4 DEF CallStep
    <3>6. [op |-> op, payload |-> other] \in SentCall
      BY DEF SentCall
    <3>7. sent'[Len(sent) + 1] = [op |-> op, payload |-> other]
      BY <3>5, <3>6, CallAppends
    <3>8. op = PerformOp(handler'[h].req) /\ log'.synced \in 1 .. log'.synced
      BY <3>2, <3>3, <3>5, <3>7
    <3>9. QED
      BY <3>5, <3>8
  <2>3. QED
    BY <1>2, <2>1, <2>2, PerformingStarts
<1>3. QED
  BY <1>2 DEF PerformingReserved, Performing, PerformOp

\* A line of the ledger is preceded by the reservation of what it claims, and true.
Borne(lines, i, done) ==
  Claims(lines[i]) =>
    /\ \E k \in 1 .. i - 1 : lines[k].op = lines[i].op /\ lines[k].outcome = "reserved"
    /\ lines[i].outcome = "performed" => lines[i].op \in done

LEMMA HonestLines ==
  /\ HonestLedger <=> \A i \in 1 .. Len(log.lines) : Borne(log.lines, i, executed)
  /\ HonestLedger' <=> \A i \in 1 .. Len(log'.lines) : Borne(log'.lines, i, executed')
BY DEF HonestLedger, Borne, Claims

HonestInv == TypeOK /\ PerformingReserved /\ HonestLedger

LEMMA HonestStep ==
  ASSUME HonestInv, [Next]_vars
  PROVE  HonestInv'
<1>1. /\ TypeOK /\ TypeOK' /\ log \in Ledger /\ log' \in Ledger
      /\ executed \subseteq executed' /\ PerformingReserved'
  BY StepKeeps, PerformingReservedStep DEF HonestInv, Keeps, TypeOK, Ledger
<1>2. \A i \in 1 .. Len(log.lines) : Borne(log.lines, i, executed)
  BY HonestLines DEF HonestInv
<1>3. Len(log.lines) \in Nat /\ Len(log'.lines) \in Nat /\ log.synced \in Nat
      /\ log.synced <= Len(log.lines)
  BY <1>1 DEF Ledger
<1>4. ASSUME NEW i \in 1 .. Len(log.lines), \A k \in 1 .. i : log'.lines[k] = log.lines[k]
      PROVE  Borne(log'.lines, i, executed')
  <2> SUFFICES ASSUME Claims(log.lines[i])
               PROVE  /\ \E k \in 1 .. i - 1 : /\ log'.lines[k].op = log.lines[i].op
                                               /\ log'.lines[k].outcome = "reserved"
                      /\ log.lines[i].outcome = "performed" => log.lines[i].op \in executed'
    BY <1>3, <1>4 DEF Borne
  <2>1. PICK k \in 1 .. i - 1 : log.lines[k].op = log.lines[i].op /\ log.lines[k].outcome = "reserved"
    BY <1>2 DEF Borne
  <2>2. log'.lines[k] = log.lines[k]
    BY <1>3, <1>4
  <2>3. log.lines[i].outcome = "performed" => log.lines[i].op \in executed'
    BY <1>1, <1>2 DEF Borne
  <2>4. QED
    BY <2>1, <2>2, <2>3
<1>5. CASE Adds(log, log', Performing)
  <2>1. ASSUME NEW i \in Len(log.lines) + 1 .. Len(log'.lines)
        PROVE  Borne(log'.lines, i, executed')
    <3> SUFFICES ASSUME Claims(log'.lines[i])
                 PROVE  /\ \E k \in 1 .. i - 1 : /\ log'.lines[k].op = log'.lines[i].op
                                                 /\ log'.lines[k].outcome = "reserved"
                        /\ log'.lines[i].outcome = "performed" => log'.lines[i].op \in executed'
      BY DEF Borne
    <3>1. /\ log'.lines[i].op \in Performing
          /\ log'.lines[i].outcome = "performed" => log'.lines[i].op \in executed
      BY <1>5 DEF Adds, Founded
    <3>2. PICK k \in 1 .. log.synced : /\ log.lines[k].op = log'.lines[i].op
                                       /\ log.lines[k].outcome = "reserved"
      BY <3>1 DEF HonestInv, PerformingReserved
    <3>3. k \in 1 .. i - 1 /\ log'.lines[k] = log.lines[k]
      BY <1>3, <1>5 DEF Adds
    <3>4. QED
      BY <1>1, <3>1, <3>2, <3>3
  <2>2. \A i \in 1 .. Len(log.lines) : Borne(log'.lines, i, executed')
    BY <1>3, <1>4, <1>5 DEF Adds
  <2>3. HonestLedger'
    BY <1>3, <2>1, <2>2, HonestLines
  <2>4. QED
    BY <1>1, <2>3 DEF HonestInv
<1>6. ASSUME NEW keep \in 0 .. Len(log.lines), CrashAndRestart(keep)
      PROVE  HonestInv'
  <2>1. /\ log'.lines = SubSeq(log.lines, 1, keep)
        /\ log.lines \in Seq(Receipt)
    BY <1>1, <1>6 DEF CrashAndRestart, Ledger
  <2>2. Len(log'.lines) = keep /\ \A k \in 1 .. keep : log'.lines[k] = log.lines[k]
    BY <2>1
  <2>3. \A i \in 1 .. Len(log'.lines) : Borne(log'.lines, i, executed')
    BY <1>3, <1>4, <2>2
  <2>4. QED
    BY <1>1, <2>3, HonestLines DEF HonestInv
<1>7. QED
  BY <1>1, <1>5, <1>6, StepAdds

\* The ledger never claims what did not happen, nor before its reservation, for any
\* interleaving of handlers and poller and any prefix a power loss leaves.
THEOREM LedgerIsHonest == Spec => []HonestLedger
<1>1. Init => HonestInv
  BY InitTyped DEF Init, HonestInv, PerformingReserved, Performing, HonestLedger, Idle
<1>2. HonestInv /\ [Next]_vars => HonestInv'
  BY HonestStep
<1>3. HonestInv => HonestLedger
  BY DEF HonestInv
<1>4. QED
  BY <1>1, <1>2, <1>3, PTL DEF Spec

===============================================================================

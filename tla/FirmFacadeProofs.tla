--------------------------- MODULE FirmFacadeProofs ---------------------------
(***************************************************************************)
(* Theorems about FirmFacade, for any number of callers, calls, matters,   *)
(* approvals and requests of other agents, any policy of the gate, and any *)
(* failure the model has.                                                  *)
(***************************************************************************)
EXTENDS FirmFacade, FiniteSetTheorems, TLAPS

-----------------------------------------------------------------------------
(* Types: a call is of a tool of the facade or an anchor. *)
Tellings ==
  [call : Nat, tool : FacadeTools \cup {"anchor"}, matter : Matters \cup {None},
   approval : Approvals \cup {None}, product : DOMAIN Products \cup {"unlisted", None},
   word : {"ok", "pending_approval", "error"}, text : BOOLEAN]
ToolCalls ==
  [at : {"guard", "list", "document", "create", "approve", "record", "reply"}, id : Nat,
   req : Requests, matter : Matters \cup {None}, outcome : {"performed", "pending", "error"},
   product : DOMAIN Products \cup {"unlisted", None}, approval : Approvals \cup {None},
   disclosed : {None, "withheld", "text"}, told : Tellings \cup {None}]
AnchorCalls == [at : {"stamp", "comment", "anchored"}, id : Nat, agent : Agents \cup {None}]

TypeOK ==
  /\ allowText \in BOOLEAN /\ tsa \in BOOLEAN
  /\ policy.grants \in [Agents -> SUBSET Targets]
  /\ issues \in [Matters -> {None, "another firm", Company}]
  /\ approvals \in [Approvals -> [status : {"none", "pending"} \cup Decided,
                                  matter : Matters \cup {None}, source : {None, "facade", "egress"}]]
  /\ ledger \in Seq(Range(ledger))
  /\ \A i \in DOMAIN ledger : ledger[i].from.call \in (1 .. made) \cup {None}
  /\ calls \in [Callers -> {Idle} \cup ToolCalls \cup AnchorCalls]
  /\ tokens \cup posted \subseteq 1 .. made
  /\ poller \in Approvals \cup {None} /\ answers \subseteq Tellings
  /\ made \in 0 .. MaxWork

-----------------------------------------------------------------------------
(* Sequences, calls and entries keep their types *)

LEMMA AppendIs ==
  ASSUME NEW S, NEW s \in Seq(S), NEW e
  PROVE  /\ DOMAIN Append(s, e) = DOMAIN s \cup {Len(s) + 1}
         /\ Len(s) + 1 \notin DOMAIN s
         /\ \A i \in DOMAIN s : Append(s, e)[i] = s[i]
         /\ Append(s, e)[Len(s) + 1] = e
<1>1. Append(s, e) \in Seq(S \cup {e})
  OBVIOUS
<1>2. DOMAIN s = 1 .. Len(s) /\ DOMAIN Append(s, e) = 1 .. Len(Append(s, e))
  BY <1>1
<1>3. Len(Append(s, e)) = Len(s) + 1 /\ Len(s) \in Nat
  OBVIOUS
<1>4. DOMAIN Append(s, e) = DOMAIN s \cup {Len(s) + 1} /\ Len(s) + 1 \notin DOMAIN s
  BY <1>2, <1>3
<1>5. \A i \in DOMAIN s : Append(s, e)[i] = s[i]
  BY <1>2
<1>6. Append(s, e)[Len(s) + 1] = e
  OBVIOUS
<1>7. QED
  BY <1>4, <1>5, <1>6

\* A ledger that grows stays a sequence of its entries.
LEMMA AppendStays ==
  ASSUME NEW s, s \in Seq(Range(s)), NEW e
  PROVE  Append(s, e) \in Seq(Range(Append(s, e)))
<1> DEFINE t == Append(s, e)
<1>1. t \in Seq(Range(s) \cup {e})
  OBVIOUS
<1>2. DOMAIN t = DOMAIN s \cup {Len(s) + 1} /\ (\A i \in DOMAIN s : t[i] = s[i]) /\ t[Len(s) + 1] = e
  BY AppendIs
<1>3. Range(s) \cup {e} \subseteq Range(t)
  BY <1>2 DEF Range
<1>4. QED
  BY <1>1, <1>3

RequestFacts(req) ==
  /\ req.tool \in FacadeTools /\ req.text \in BOOLEAN
  /\ req.product \in DOMAIN Products \cup {"unlisted", None}
  /\ req.tool = "create_matter" => req.matter \in {None, Malformed}
  /\ req.tool # "create_matter" => req.matter \in Matters
  /\ req.tool = "fetch_work_product" => req.product \in DOMAIN Products \cup {"unlisted"}

LEMMA RequestIs ==
  ASSUME NEW req \in Requests
  PROVE  RequestFacts(req)
BY DEF Requests, Reads, Fetches, Asks, Creates, FacadeTools, RequestFacts

LEMMA StartTyped ==
  ASSUME NEW req \in Requests, NEW id \in Nat, req.tool # "create_matter"
  PROVE  Start(id, req) \in ToolCalls
BY RequestIs DEF Start, ToolCalls, RequestFacts

LEMMA CreateTyped ==
  ASSUME NEW req \in Requests, NEW id \in Nat, req.matter = None
  PROVE  [Start(id, req) EXCEPT !.at = "create"] \in ToolCalls
BY DEF Start, ToolCalls

LEMMA ToldTyped ==
  ASSUME NEW call \in ToolCalls, NEW word \in {"ok", "pending_approval", "error"}, NEW text \in BOOLEAN
  PROVE  Told(call, word, text) \in Tellings
<1>1. call.req \in Requests /\ call.id \in Nat /\ call.matter \in Matters \cup {None} /\ call.approval \in Approvals \cup {None}
  BY DEF ToolCalls
<1>2. call.req.tool \in FacadeTools /\ call.req.product \in DOMAIN Products \cup {"unlisted", None}
  BY <1>1, RequestIs DEF RequestFacts
<1>3. QED
  BY <1>1, <1>2 DEF Told, Tellings

LEMMA AnswersTyped ==
  ASSUME NEW call \in ToolCalls, NEW word \in {"ok", "pending_approval", "error"}, NEW text \in BOOLEAN
  PROVE  Answers(call, word, text) \in ToolCalls
<1>1. Told(call, word, text) \in Tellings
  BY ToldTyped
<1>2. QED
  BY <1>1 DEF Answers, Recording, ToolCalls

LEMMA ThrowsTyped ==
  ASSUME NEW call \in ToolCalls
  PROVE  Throws(call) \in ToolCalls
BY DEF Throws, Recording, ToolCalls

AnyCall == {Idle} \cup ToolCalls \cup AnchorCalls

LEMMA Counts ==
  ASSUME TypeOK
  PROVE  made \in Nat /\ made <= MaxWork /\ MaxWork \in Nat
<1>1. made \in 0 .. MaxWork
  BY DEF TypeOK
<1>2. MaxWork \in Nat
  BY FacadeAssumption
<1>3. QED
  BY <1>1, <1>2

\* A new call leaves the old ones in range.
LEMMA StillCounted ==
  ASSUME TypeOK, made' \in Nat, made <= made'
  PROVE  /\ 1 .. made \subseteq 1 .. made'
         /\ \A i \in DOMAIN ledger : ledger[i].from.call \in (1 .. made') \cup {None}
         /\ tokens \cup posted \subseteq 1 .. made'
<1>1. 1 .. made \subseteq 1 .. made'
  BY Counts
<1>2. (\A i \in DOMAIN ledger : ledger[i].from.call \in (1 .. made) \cup {None}) /\ tokens \cup posted \subseteq 1 .. made
  BY DEF TypeOK
<1>3. QED
  BY <1>1, <1>2

LEMMA GoesTyped ==
  ASSUME TypeOK, NEW c \in Callers, NEW x \in AnyCall, Goes(c, x)
  PROVE  calls' \in [Callers -> AnyCall]
BY DEF TypeOK, Goes, AnyCall

LEMMA StoresTyped ==
  ASSUME TypeOK, NEW e, Stores(e), made' \in Nat, made <= made',
         e.from.call \in (1 .. made') \cup {None}
  PROVE  /\ ledger' \in Seq(Range(ledger'))
         /\ \A i \in DOMAIN ledger' : ledger'[i].from.call \in (1 .. made') \cup {None}
<1>1. ledger \in Seq(Range(ledger)) /\ ledger' = Append(ledger, e)
  BY DEF TypeOK, Stores
<1>2. \A i \in DOMAIN ledger : ledger[i].from.call \in (1 .. made') \cup {None}
  BY StillCounted
<1>3. DOMAIN ledger' = DOMAIN ledger \cup {Len(ledger) + 1}
      /\ (\A i \in DOMAIN ledger : ledger'[i] = ledger[i]) /\ ledger'[Len(ledger) + 1] = e
  BY <1>1, AppendIs
<1>4. ledger' \in Seq(Range(ledger'))
  BY <1>1, AppendStays
<1>5. QED
  BY <1>2, <1>3, <1>4

\* Which kind of call waits where.
LEMMA CallAt ==
  ASSUME TypeOK, NEW c \in Callers
  PROVE  /\ calls[c].at \in {"guard", "list", "document", "create", "approve", "record", "reply"}
              => calls[c] \in ToolCalls
         /\ calls[c].at \in {"stamp", "comment", "anchored"} => calls[c] \in AnchorCalls
         /\ calls[c].at = "idle" => calls[c] = Idle
         /\ calls[c] \in AnyCall
<1>1. calls[c] \in AnyCall
  BY DEF TypeOK, AnyCall
<1>2. Idle.at = "idle"
  BY DEF Idle
<1>3. \A x \in ToolCalls : x.at \in {"guard", "list", "document", "create", "approve", "record", "reply"}
  BY DEF ToolCalls
<1>4. \A x \in AnchorCalls : x.at \in {"stamp", "comment", "anchored"}
  BY DEF AnchorCalls
<1>5. QED
  BY <1>1, <1>2, <1>3, <1>4 DEF AnyCall

LEMMA TypeParts ==
  ASSUME TypeOK, UNCHANGED external,
         issues' \in [Matters -> {None, "another firm", Company}],
         approvals' \in [Approvals -> [status : {"none", "pending"} \cup Decided,
                          matter : Matters \cup {None}, source : {None, "facade", "egress"}]],
         ledger' \in Seq(Range(ledger')),
         \A i \in DOMAIN ledger' : ledger'[i].from.call \in (1 .. made') \cup {None},
         calls' \in [Callers -> AnyCall],
         tokens' \cup posted' \subseteq 1 .. made',
         poller' \in Approvals \cup {None}, answers' \subseteq Tellings,
         made' \in 0 .. MaxWork
  PROVE  TypeOK'
BY DEF TypeOK, external, AnyCall

LEMMA CallTyped ==
  ASSUME TypeOK, NEW c \in Callers, Call(c)
  PROVE  TypeOK'
<1>0. made < MaxWork /\ made' = made + 1
  BY DEF Call
<1>1. made' \in 0 .. MaxWork /\ made' = made + 1 /\ made + 1 \in Nat /\ made <= made'
  BY <1>0, Counts
<1>2. PICK req \in Requests :
        Goes(c, CASE req.tool = "create_matter" /\ req.matter = None -> [Start(made + 1, req) EXCEPT !.at = "create"]
                 [] req.tool = "create_matter" /\ req.matter # None ->
                      Answers([Start(made + 1, req) EXCEPT !.outcome = "error", !.matter = None], "error", FALSE)
                 [] OTHER -> Start(made + 1, req))
  BY DEF Call
<1>3. [Start(made + 1, req) EXCEPT !.outcome = "error", !.matter = None] \in ToolCalls
  BY <1>1, RequestIs DEF Start, ToolCalls, RequestFacts
<1>4. Answers([Start(made + 1, req) EXCEPT !.outcome = "error", !.matter = None], "error", FALSE) \in AnyCall
  BY <1>3, AnswersTyped DEF AnyCall
<1>5. req.tool = "create_matter" /\ req.matter = None => [Start(made + 1, req) EXCEPT !.at = "create"] \in AnyCall
  BY <1>1, CreateTyped DEF AnyCall
<1>6. req.tool # "create_matter" => Start(made + 1, req) \in AnyCall
  BY <1>1, StartTyped DEF AnyCall
<1>7. calls' \in [Callers -> AnyCall]
  <2>1. CASE req.tool = "create_matter" /\ req.matter = None
    BY <2>1, <1>2, <1>5, GoesTyped
  <2>2. CASE req.tool = "create_matter" /\ req.matter # None
    BY <2>2, <1>2, <1>4, GoesTyped
  <2>3. CASE req.tool # "create_matter"
    BY <2>3, <1>2, <1>6, GoesTyped
  <2>4. QED
    BY <2>1, <2>2, <2>3
<1>8. \A i \in DOMAIN ledger' : ledger'[i].from.call \in (1 .. made') \cup {None}
  BY <1>1, StillCounted DEF Call
<1>9. tokens' \cup posted' \subseteq 1 .. made'
  BY <1>1, StillCounted DEF Call, anchors
<1>10. QED
  BY <1>1, <1>7, <1>8, <1>9, TypeParts DEF TypeOK, Call, AnyCall

LEMMA QuietTyped ==
  ASSUME TypeOK, NEW c \in Callers, NEW x \in AnyCall, Goes(c, x), Quiet
  PROVE  TypeOK'
<1>1. calls' \in [Callers -> AnyCall]
  BY GoesTyped
<1>2. QED
  BY <1>1 DEF TypeOK, Quiet, external, anchors, AnyCall

\* What GuardReads and Lists may make of a call.
LEMMA MovesTyped ==
  ASSUME NEW call \in ToolCalls, NEW at \in {"list", "document", "approve", "record", "reply"}
  PROVE  [call EXCEPT !.at = at] \in ToolCalls
BY DEF ToolCalls

LEMMA NotedTyped ==
  ASSUME NEW call \in ToolCalls
  PROVE  /\ [call EXCEPT !.outcome = "error"] \in ToolCalls
         /\ [call EXCEPT !.disclosed = "withheld"] \in ToolCalls
         /\ [call EXCEPT !.disclosed = "text"] \in ToolCalls
BY DEF ToolCalls

LEMMA FetchedTyped ==
  ASSUME NEW call \in ToolCalls
  PROVE  Fetched(call) \in ToolCalls
<1> DEFINE own == [call EXCEPT !.product = call.req.product]
<1>1. call.req \in Requests
  BY DEF ToolCalls
<1>2. call.req.product \in DOMAIN Products \cup {"unlisted", None}
  BY <1>1, RequestIs DEF RequestFacts
<1>3. own \in ToolCalls
  BY <1>2 DEF ToolCalls
<1> HIDE DEF own
<1>4. [own EXCEPT !.outcome = "error"] \in ToolCalls /\ [own EXCEPT !.disclosed = "withheld"] \in ToolCalls
      /\ [own EXCEPT !.at = "document"] \in ToolCalls
  BY <1>3, NotedTyped, MovesTyped
<1>5. Answers([own EXCEPT !.outcome = "error"], "error", FALSE) \in ToolCalls
      /\ Answers([own EXCEPT !.disclosed = "withheld"], "ok", FALSE) \in ToolCalls
  BY <1>4, AnswersTyped
<1>6. Fetched(call) \in {Answers([own EXCEPT !.outcome = "error"], "error", FALSE),
                        Answers([own EXCEPT !.disclosed = "withheld"], "ok", FALSE),
                        [own EXCEPT !.at = "document"]}
  BY DEF Fetched, own
<1>7. QED
  BY <1>4, <1>5, <1>6

LEMMA GuardReadsTyped ==
  ASSUME TypeOK, NEW c \in Callers, GuardReads(c)
  PROVE  TypeOK'
<1> DEFINE call == calls[c]
<1>1. call \in ToolCalls /\ Quiet
  BY CallAt DEF GuardReads
<1>2. Throws(call) \in AnyCall /\ Answers(call, "ok", FALSE) \in AnyCall
      /\ [call EXCEPT !.at = "approve"] \in AnyCall /\ [call EXCEPT !.at = "list"] \in AnyCall
  BY <1>1, ThrowsTyped, AnswersTyped, MovesTyped DEF AnyCall
<1>3. Goes(c, Throws(call)) \/ Goes(c, Answers(call, "ok", FALSE))
      \/ Goes(c, [call EXCEPT !.at = "approve"]) \/ Goes(c, [call EXCEPT !.at = "list"])
  BY DEF GuardReads
<1>4. QED
  BY <1>1, <1>2, <1>3, QuietTyped

LEMMA ListsTyped ==
  ASSUME TypeOK, NEW c \in Callers, Lists(c)
  PROVE  TypeOK'
<1> DEFINE call == calls[c]
           own == [call EXCEPT !.product = call.req.product]
<1>1. call \in ToolCalls /\ Quiet
  BY CallAt DEF Lists
<1>2. call.req.product \in DOMAIN Products \cup {"unlisted", None}
  BY <1>1, RequestIs DEF RequestFacts, ToolCalls
<1>3. own \in ToolCalls
  BY <1>1, <1>2 DEF ToolCalls
<1>4. Throws(own) \in AnyCall /\ Answers(call, "ok", FALSE) \in AnyCall /\ Fetched(call) \in AnyCall
  BY <1>1, <1>3, ThrowsTyped, AnswersTyped, FetchedTyped DEF AnyCall
<1>5. Goes(c, Throws(own)) \/ Goes(c, Answers(call, "ok", FALSE)) \/ Goes(c, Fetched(call))
  BY DEF Lists
<1>6. QED
  BY <1>1, <1>4, <1>5, QuietTyped

LEMMA ReadsDocumentTyped ==
  ASSUME TypeOK, NEW c \in Callers, ReadsDocument(c)
  PROVE  TypeOK'
<1> DEFINE call == calls[c]
<1>1. call \in ToolCalls /\ Quiet
  BY CallAt DEF ReadsDocument
<1>2. [call EXCEPT !.disclosed = "withheld"] \in ToolCalls /\ [call EXCEPT !.disclosed = "text"] \in ToolCalls
  BY <1>1, NotedTyped
<1>3. Throws([call EXCEPT !.disclosed = "withheld"]) \in AnyCall
      /\ Answers([call EXCEPT !.disclosed = "text"], "ok", TRUE) \in AnyCall
  BY <1>2, ThrowsTyped, AnswersTyped DEF AnyCall
<1>4. Goes(c, Throws([call EXCEPT !.disclosed = "withheld"]))
      \/ Goes(c, Answers([call EXCEPT !.disclosed = "text"], "ok", TRUE))
  BY DEF ReadsDocument
<1>5. QED
  BY <1>1, <1>3, <1>4, QuietTyped

LEMMA IdleIs == Idle \in AnyCall /\ Idle.at = "idle"
BY DEF AnyCall, Idle

LEMMA CreatesIssueTyped ==
  ASSUME TypeOK, NEW c \in Callers, CreatesIssue(c)
  PROVE  TypeOK'
<1> DEFINE call == calls[c]
<1>1. call \in ToolCalls
  BY CallAt DEF CreatesIssue
<1>2. issues \in [Matters -> {None, "another firm", Company}] /\ Fresh \subseteq Matters
  BY FacadeAssumption DEF TypeOK
<1>3. \A m \in Fresh : Answers([call EXCEPT !.matter = m], "ok", FALSE) \in AnyCall
  <2> TAKE m \in Fresh
  <2>1. [call EXCEPT !.matter = m] \in ToolCalls
    BY <1>1, <1>2 DEF ToolCalls
  <2>2. QED
    BY <2>1, AnswersTyped DEF AnyCall
<1>4. issues' \in [Matters -> {None, "another firm", Company}]
  BY <1>2 DEF CreatesIssue
<1>5. Goes(c, Idle) \/ \E m \in Fresh : Goes(c, Answers([call EXCEPT !.matter = m], "ok", FALSE))
  BY DEF CreatesIssue
<1>6. calls' \in [Callers -> AnyCall]
  BY <1>3, <1>5, IdleIs, GoesTyped
<1>7. UNCHANGED <<external, anchors, approvals, ledger, poller, answers, made>>
  BY DEF CreatesIssue
<1>8. QED
  BY <1>4, <1>6, <1>7, TypeParts DEF TypeOK, anchors, AnyCall

ApprovalRecords == [status : {"none", "pending"} \cup Decided,
                    matter : Matters \cup {None}, source : {None, "facade", "egress"}]

LEMMA OpenedTyped ==
  ASSUME TypeOK, NEW a \in Approvals, NEW m \in Matters \cup {None}, NEW source \in {"facade", "egress"},
         Opened(a, m, source)
  PROVE  approvals' \in [Approvals -> ApprovalRecords]
<1>1. approvals \in [Approvals -> ApprovalRecords]
  BY DEF TypeOK, ApprovalRecords
<1>2. [status |-> "pending", matter |-> m, source |-> source] \in ApprovalRecords
  BY DEF ApprovalRecords
<1>3. QED
  BY <1>1, <1>2 DEF Opened

LEMMA CreatesApprovalTyped ==
  ASSUME TypeOK, NEW c \in Callers, CreatesApproval(c)
  PROVE  TypeOK'
<1> DEFINE call == calls[c]
           next(a) == Answers([call EXCEPT !.approval = a, !.outcome = "pending"], "pending_approval", FALSE)
<1>1. call \in ToolCalls
  BY CallAt DEF CreatesApproval
<1>2. \A a \in Approvals : next(a) \in AnyCall
  <2> TAKE a \in Approvals
  <2>1. [call EXCEPT !.approval = a, !.outcome = "pending"] \in ToolCalls
    BY <1>1 DEF ToolCalls
  <2>2. QED
    BY <2>1, AnswersTyped DEF AnyCall
<1>3. Goes(c, Idle) \/ \E a \in Approvals : Goes(c, next(a))
  BY DEF CreatesApproval, Free
<1>4. calls' \in [Callers -> AnyCall]
  BY <1>2, <1>3, IdleIs, GoesTyped
<1>5. UNCHANGED approvals \/ \E a \in Approvals : Opened(a, call.matter, "facade")
  BY DEF CreatesApproval, Free
<1>6. call.matter \in Matters \cup {None}
  BY <1>1 DEF ToolCalls
<1>7. approvals' \in [Approvals -> ApprovalRecords]
  BY <1>5, <1>6, OpenedTyped DEF TypeOK, ApprovalRecords
<1>8. UNCHANGED <<external, anchors, issues, ledger, poller, answers, made>>
  BY DEF CreatesApproval
<1>9. QED
  BY <1>4, <1>7, <1>8, TypeParts DEF TypeOK, anchors, AnyCall, ApprovalRecords

\* An entry's origin is what Entry was given.
LEMMA EntryFrom ==
  ASSUME NEW receipt, NEW call, NEW agent, NEW status
  PROVE  /\ Entry(receipt, call, agent, status).body = receipt
         /\ Entry(receipt, call, agent, status).from.call = call
         /\ Entry(receipt, call, agent, status).from.agent = agent
         /\ Entry(receipt, call, agent, status).from.status = status
BY DEF Entry

LEMMA EntryTyped ==
  ASSUME TypeOK, made' \in Nat, made <= made', NEW receipt, NEW agent, NEW status,
         NEW id \in (1 .. made') \cup {None}, Stores(Entry(receipt, id, agent, status))
  PROVE  /\ ledger' \in Seq(Range(ledger'))
         /\ \A i \in DOMAIN ledger' : ledger'[i].from.call \in (1 .. made') \cup {None}
<1>1. Entry(receipt, id, agent, status).from.call \in (1 .. made') \cup {None}
  BY EntryFrom
<1>2. QED
  BY <1>1, StoresTyped

\* A step that leaves the counters alone may add an entry of a call there was.
LEMMA LedgerTyped ==
  ASSUME TypeOK, made' \in Nat, made <= made',
         UNCHANGED ledger \/ \E receipt, agent, status : \E id \in (1 .. made') \cup {None} :
                               Stores(Entry(receipt, id, agent, status))
  PROVE  /\ ledger' \in Seq(Range(ledger'))
         /\ \A i \in DOMAIN ledger' : ledger'[i].from.call \in (1 .. made') \cup {None}
<1>1. CASE UNCHANGED ledger
  <2>1. ledger \in Seq(Range(ledger))
    BY DEF TypeOK
  <2>2. QED
    BY <1>1, <2>1, StillCounted
<1>2. ASSUME NEW receipt, NEW agent, NEW status, NEW id \in (1 .. made') \cup {None},
             Stores(Entry(receipt, id, agent, status))
      PROVE  /\ ledger' \in Seq(Range(ledger'))
             /\ \A i \in DOMAIN ledger' : ledger'[i].from.call \in (1 .. made') \cup {None}
  BY <1>2, EntryTyped
<1>3. QED
  BY <1>1, <1>2

\* The calls that are under way have ids in range.
IdsOK == \A c \in Callers : calls[c].at # "idle" => calls[c].id \in 1 .. made

LEMMA RecordsTyped ==
  ASSUME TypeOK, IdsOK, NEW c \in Callers, Records(c)
  PROVE  TypeOK'
<1> DEFINE call == calls[c]
           answer == Serve(FacadeKey, "receipts:facade", Body(call), policy)
<1>0. UNCHANGED <<external, anchors, issues, approvals, poller, answers, made>>
  BY DEF Records
<1>1. call \in ToolCalls /\ call.id \in 1 .. made
  BY CallAt DEF Records, IdsOK
<1>2. AfterRecord(call, answer.status) \in AnyCall /\ AfterRecord(call, 500) \in AnyCall
  BY <1>1, MovesTyped, IdleIs DEF AfterRecord, AnyCall
<1>3. calls' \in [Callers -> AnyCall]
  <2>1. Goes(c, AfterRecord(call, answer.status)) \/ Goes(c, AfterRecord(call, 500))
    BY DEF Records
  <2>2. QED
    BY <1>2, <2>1, GoesTyped
<1>4. UNCHANGED ledger \/ Stores(Entry(answer.receipt, call.id, Facade, answer.status))
  BY DEF Records
<1>5. made' \in Nat /\ made <= made' /\ call.id \in (1 .. made') \cup {None}
  BY <1>0, <1>1, Counts
<1>6. ledger' \in Seq(Range(ledger')) /\ \A i \in DOMAIN ledger' : ledger'[i].from.call \in (1 .. made') \cup {None}
  BY <1>4, <1>5, LedgerTyped
<1>7. QED
  BY <1>0, <1>3, <1>6, TypeParts DEF TypeOK, anchors

LEMMA RepliesTyped ==
  ASSUME TypeOK, NEW c \in Callers, Replies(c)
  PROVE  TypeOK'
<1> DEFINE call == calls[c]
<1>0. UNCHANGED <<external, anchors, issues, approvals, ledger, poller, made>> /\ Goes(c, Idle)
  BY DEF Replies
<1>1. call \in ToolCalls
  BY CallAt DEF Replies
<1>2. call.told \in Tellings \cup {None}
  BY <1>1 DEF ToolCalls
<1>3. answers \subseteq Tellings
  BY DEF TypeOK
<1>4. answers' \subseteq Tellings
  BY <1>2, <1>3 DEF Replies
<1>5. calls' \in [Callers -> AnyCall]
  BY <1>0, IdleIs, GoesTyped
<1>6. QED
  BY <1>0, <1>4, <1>5, TypeParts DEF TypeOK, anchors

LEMMA AnchorReservesTyped ==
  ASSUME TypeOK, NEW c \in Callers, AnchorReserves(c)
  PROVE  TypeOK'
<1>0. UNCHANGED <<external, anchors, issues, approvals, poller, answers>> /\ made < MaxWork /\ made' = made + 1
  BY DEF AnchorReserves
<1>1. made' \in 0 .. MaxWork /\ made' = made + 1 /\ made + 1 \in Nat /\ made <= made' /\ made + 1 \in 1 .. made'
  BY <1>0, Counts
<1> DEFINE next(agent) ==
             [at |-> IF tsa THEN "stamp" ELSE "comment", id |-> made + 1,
              agent |-> AuthenticatedAgent([agent |-> agent, company |-> Company], "receipts:anchor")]
<1>2. PICK agent \in Agents : AnchorStores(next(agent), "reserved", 0) /\ Goes(c, next(agent))
  BY DEF AnchorReserves
<1>3. AuthenticatedAgent([agent |-> agent, company |-> Company], "receipts:anchor") \in Agents \cup {None}
  BY DEF AuthenticatedAgent
<1>4. next(agent) \in AnyCall /\ next(agent).id = made + 1
  BY <1>1, <1>3 DEF AnchorCalls, AnyCall
<1> HIDE DEF next
<1>5. calls' \in [Callers -> AnyCall]
  BY <1>2, <1>4, GoesTyped
<1>6. ledger' \in Seq(Range(ledger')) /\ \A i \in DOMAIN ledger' : ledger'[i].from.call \in (1 .. made') \cup {None}
  BY <1>1, <1>2, <1>4, LedgerTyped DEF AnchorStores
<1>7. tokens' \cup posted' \subseteq 1 .. made'
  BY <1>0, <1>1, StillCounted DEF anchors
<1>8. QED
  BY <1>0, <1>1, <1>5, <1>6, <1>7, TypeParts DEF TypeOK

LEMMA StampsTyped ==
  ASSUME TypeOK, IdsOK, NEW c \in Callers, Stamps(c)
  PROVE  TypeOK'
<1> DEFINE call == calls[c]
<1>0. UNCHANGED <<external, posted, issues, approvals, poller, answers, made>>
  BY DEF Stamps
<1>1. call \in AnchorCalls /\ call.id \in 1 .. made
  BY CallAt DEF Stamps, IdsOK
<1>2. [call EXCEPT !.at = "comment"] \in AnyCall
  BY <1>1 DEF AnchorCalls, AnyCall
<1>3. Goes(c, [call EXCEPT !.at = "comment"]) \/ Goes(c, Idle)
  BY DEF Stamps
<1>4. calls' \in [Callers -> AnyCall]
  BY <1>2, <1>3, IdleIs, GoesTyped
<1>5. UNCHANGED ledger \/ AnchorStores(call, "error", 502)
  BY DEF Stamps
<1>6. made' \in Nat /\ made <= made' /\ call.id \in (1 .. made') \cup {None}
  BY <1>0, <1>1, Counts
<1>7. ledger' \in Seq(Range(ledger')) /\ \A i \in DOMAIN ledger' : ledger'[i].from.call \in (1 .. made') \cup {None}
  <2>1. CASE UNCHANGED ledger
    BY <2>1, <1>6, LedgerTyped
  <2>2. CASE Stores(Entry(AnchorReceipt("error", call.agent), call.id, call.agent, 502))
    <3>1. Entry(AnchorReceipt("error", call.agent), call.id, call.agent, 502).from.call = call.id
      BY EntryFrom
    <3>2. QED
      BY <2>2, <3>1, <1>6, StoresTyped
  <2>3. QED
    BY <2>1, <2>2, <1>5 DEF AnchorStores
<1>8. tokens' \subseteq tokens \cup {call.id}
  BY DEF Stamps
<1>9. tokens' \cup posted' \subseteq 1 .. made'
  BY <1>0, <1>1, <1>8, StillCounted, Counts
<1>10. QED
  BY <1>0, <1>4, <1>7, <1>9, TypeParts DEF TypeOK

LEMMA CommentsAnchorTyped ==
  ASSUME TypeOK, IdsOK, NEW c \in Callers, CommentsAnchor(c)
  PROVE  TypeOK'
<1> DEFINE call == calls[c]
<1>0. UNCHANGED <<external, tokens, issues, approvals, ledger, poller, answers, made>>
  BY DEF CommentsAnchor
<1>1. call \in AnchorCalls /\ call.id \in 1 .. made
  BY CallAt DEF CommentsAnchor, IdsOK
<1>2. [call EXCEPT !.at = "anchored"] \in AnyCall
  BY <1>1 DEF AnchorCalls, AnyCall
<1>3. Goes(c, [call EXCEPT !.at = "anchored"]) \/ Goes(c, Idle)
  BY DEF CommentsAnchor
<1>4. calls' \in [Callers -> AnyCall]
  BY <1>2, <1>3, IdleIs, GoesTyped
<1>5. posted' \subseteq posted \cup {call.id}
  BY DEF CommentsAnchor
<1>6. tokens' \cup posted' \subseteq 1 .. made'
  BY <1>0, <1>1, <1>5, StillCounted, Counts
<1>7. QED
  BY <1>0, <1>4, <1>6, TypeParts DEF TypeOK

LEMMA AnchoredTyped ==
  ASSUME TypeOK, IdsOK, NEW c \in Callers, Anchored(c)
  PROVE  TypeOK'
<1> DEFINE call == calls[c]
<1>0. UNCHANGED <<external, anchors, issues, approvals, poller, made>> /\ Goes(c, Idle)
  BY DEF Anchored
<1>1. call \in AnchorCalls /\ call.id \in 1 .. made
  BY CallAt DEF Anchored, IdsOK
<1>2. calls' \in [Callers -> AnyCall]
  BY <1>0, IdleIs, GoesTyped
<1>3. UNCHANGED ledger \/ AnchorStores(call, "performed", 200)
  BY DEF Anchored
<1>4. made' \in Nat /\ made <= made' /\ call.id \in (1 .. made') \cup {None}
  BY <1>0, <1>1, Counts
<1>5. ledger' \in Seq(Range(ledger')) /\ \A i \in DOMAIN ledger' : ledger'[i].from.call \in (1 .. made') \cup {None}
  BY <1>3, <1>4, LedgerTyped DEF AnchorStores
<1>6. AnchorAnswer(call) \in Tellings
  BY <1>1 DEF AnchorAnswer, AnchorCalls, Tellings
<1>7. answers \subseteq Tellings
  BY DEF TypeOK
<1>8. answers' \subseteq Tellings
  BY <1>6, <1>7 DEF Anchored
<1>9. QED
  BY <1>0, <1>2, <1>5, <1>8, TypeParts DEF TypeOK, anchors

LEMMA ClientPostsTyped ==
  ASSUME TypeOK, ClientPosts
  PROVE  TypeOK'
<1>0. UNCHANGED <<external, anchors, issues, approvals, calls, poller, answers>> /\ made < MaxWork /\ made' = made + 1
  BY DEF ClientPosts
<1>1. made' \in 0 .. MaxWork /\ made' \in Nat /\ made <= made'
  BY <1>0, Counts
<1>2. \E receipt, agent, status : Stores(Entry(receipt, None, agent, status))
  BY DEF ClientPosts
<1>3. ledger' \in Seq(Range(ledger')) /\ \A i \in DOMAIN ledger' : ledger'[i].from.call \in (1 .. made') \cup {None}
  BY <1>1, <1>2, LedgerTyped
<1>4. tokens' \cup posted' \subseteq 1 .. made'
  BY <1>0, <1>1, StillCounted DEF anchors
<1>5. QED
  BY <1>0, <1>1, <1>3, <1>4, TypeParts DEF TypeOK, AnyCall

LEMMA EgressTyped ==
  ASSUME TypeOK, Egress
  PROVE  TypeOK'
<1>0. UNCHANGED <<external, anchors, issues, calls, poller, answers>> /\ made < MaxWork /\ made' = made + 1
  BY DEF Egress
<1>1. made' \in 0 .. MaxWork /\ made' \in Nat /\ made <= made'
  BY <1>0, Counts
<1>2. \E receipt, agent, status : Stores(Entry(receipt, None, agent, status))
  BY DEF Egress
<1>3. ledger' \in Seq(Range(ledger')) /\ \A i \in DOMAIN ledger' : ledger'[i].from.call \in (1 .. made') \cup {None}
  BY <1>1, <1>2, LedgerTyped
<1>4. tokens' \cup posted' \subseteq 1 .. made'
  BY <1>0, <1>1, StillCounted DEF anchors
<1>5. UNCHANGED approvals \/ \E a \in Approvals, m \in Matters : Opened(a, m, "egress")
  BY DEF Egress, Free
<1>6. approvals' \in [Approvals -> ApprovalRecords]
  BY <1>5, OpenedTyped DEF TypeOK, ApprovalRecords
<1>7. QED
  BY <1>0, <1>1, <1>3, <1>4, <1>6, TypeParts DEF TypeOK, AnyCall, ApprovalRecords

LEMMA DecideTyped ==
  ASSUME TypeOK, NEW a \in Approvals, Decide(a)
  PROVE  TypeOK'
<1>0. UNCHANGED <<external, anchors, issues, ledger, calls, poller, answers, made>>
  BY DEF Decide
<1>1. approvals \in [Approvals -> ApprovalRecords]
  BY DEF TypeOK, ApprovalRecords
<1>2. PICK status \in Decided : approvals' = [approvals EXCEPT ![a].status = status]
  BY DEF Decide
<1>3. [approvals[a] EXCEPT !.status = status] \in ApprovalRecords
  BY <1>1 DEF ApprovalRecords
<1>4. approvals' \in [Approvals -> ApprovalRecords]
  BY <1>1, <1>2, <1>3
<1>5. QED
  BY <1>0, <1>4, TypeParts DEF TypeOK, AnyCall, ApprovalRecords, anchors

LEMMA PollTyped ==
  ASSUME TypeOK, PollReads \/ PollBlocks
  PROVE  TypeOK'
<1>0. UNCHANGED <<external, anchors, issues, approvals, calls, answers, made>>
  BY DEF PollReads, PollBlocks
<1>1. made' \in Nat /\ made <= made'
  BY <1>0, Counts
<1>2. UNCHANGED ledger \/ \E receipt, agent, status : Stores(Entry(receipt, None, agent, status))
  BY DEF PollReads, PollBlocks, PollReceipt
<1>3. ledger' \in Seq(Range(ledger')) /\ \A i \in DOMAIN ledger' : ledger'[i].from.call \in (1 .. made') \cup {None}
  BY <1>1, <1>2, LedgerTyped
<1>4. poller' \in Approvals \cup {None}
  BY DEF PollReads, PollBlocks, TypeOK, Unresolved
<1>5. QED
  BY <1>0, <1>3, <1>4, TypeParts DEF TypeOK, AnyCall, anchors

\* A call and the one it becomes: where the handler waits next, and what changed.
Same(x, call) == x.id = call.id /\ x.req = call.req /\ x.approval = call.approval

LEMMA AnswersIs ==
  ASSUME NEW call \in ToolCalls, NEW word, NEW text
  PROVE  /\ Answers(call, word, text).at = "record" /\ Same(Answers(call, word, text), call)
         /\ Answers(call, word, text).matter = call.matter
         /\ Answers(call, word, text).outcome = call.outcome
         /\ Answers(call, word, text).product = call.product
         /\ Answers(call, word, text).disclosed = call.disclosed
         /\ Answers(call, word, text).told = Told(call, word, text)
BY DEF Answers, Recording, ToolCalls, Same

LEMMA ThrowsIs ==
  ASSUME NEW call \in ToolCalls
  PROVE  /\ Throws(call).at = "record" /\ Same(Throws(call), call)
         /\ Throws(call).disclosed = call.disclosed /\ Throws(call).told = None
BY DEF Throws, Recording, ToolCalls, Same

LEMMA MovedIs ==
  ASSUME NEW call \in ToolCalls, NEW at
  PROVE  /\ [call EXCEPT !.at = at].at = at /\ Same([call EXCEPT !.at = at], call)
         /\ [call EXCEPT !.at = at].matter = call.matter
         /\ [call EXCEPT !.at = at].outcome = call.outcome
         /\ [call EXCEPT !.at = at].product = call.product
         /\ [call EXCEPT !.at = at].disclosed = call.disclosed
         /\ [call EXCEPT !.at = at].told = call.told
BY DEF ToolCalls, Same

LEMMA NotedIs ==
  ASSUME NEW call \in ToolCalls, NEW text
  PROVE  /\ [call EXCEPT !.disclosed = text].disclosed = text
         /\ Same([call EXCEPT !.disclosed = text], call)
         /\ [call EXCEPT !.disclosed = text].matter = call.matter
         /\ [call EXCEPT !.disclosed = text].outcome = call.outcome
         /\ [call EXCEPT !.disclosed = text].product = call.product
         /\ [call EXCEPT !.disclosed = text].told = call.told
         /\ [call EXCEPT !.disclosed = text].at = call.at
BY DEF ToolCalls, Same

LEMMA ErredIs ==
  ASSUME NEW call \in ToolCalls
  PROVE  /\ [call EXCEPT !.outcome = "error"].outcome = "error"
         /\ Same([call EXCEPT !.outcome = "error"], call)
         /\ [call EXCEPT !.outcome = "error"].matter = call.matter
         /\ [call EXCEPT !.outcome = "error"].disclosed = call.disclosed
         /\ [call EXCEPT !.outcome = "error"].product = call.product
         /\ [call EXCEPT !.outcome = "error"].told = call.told
         /\ [call EXCEPT !.outcome = "error"].at = call.at
BY DEF ToolCalls, Same

LEMMA OwnIs ==
  ASSUME NEW call \in ToolCalls
  PROVE  /\ [call EXCEPT !.product = call.req.product] \in ToolCalls
         /\ [call EXCEPT !.product = call.req.product].product = call.req.product
         /\ Same([call EXCEPT !.product = call.req.product], call)
         /\ [call EXCEPT !.product = call.req.product].matter = call.matter
         /\ [call EXCEPT !.product = call.req.product].disclosed = call.disclosed
         /\ [call EXCEPT !.product = call.req.product].outcome = call.outcome
         /\ [call EXCEPT !.product = call.req.product].told = call.told
         /\ [call EXCEPT !.product = call.req.product].at = call.at
<1>1. call.req \in Requests
  BY DEF ToolCalls
<1>2. call.req.product \in DOMAIN Products \cup {"unlisted", None}
  BY <1>1, RequestIs DEF RequestFacts
<1>3. QED
  BY <1>2 DEF ToolCalls, Same

LEMMA ToldIs ==
  ASSUME NEW call, NEW word, NEW text
  PROVE  /\ Told(call, word, text).call = call.id /\ Told(call, word, text).tool = call.req.tool
         /\ Told(call, word, text).matter = call.matter /\ Told(call, word, text).approval = call.approval
         /\ Told(call, word, text).product = call.req.product /\ Told(call, word, text).word = word
         /\ Told(call, word, text).text = text
BY DEF Told

(* A call and the ledger.  The operators take the state they speak of as   *)
(* arguments, so that they say the same of a step's two states.            *)

\* The call has no outcome on the ledger yet; what the caller is told has its receipt.
NoOutcome(id, l) == \A i \in DOMAIN l : l[i].from.call = id => l[i].body.outcome = "reserved"
Receipted(told, l) ==
  \E i \in DOMAIN l :
    /\ l[i].from.call = told.call /\ l[i].body.outcome # "reserved"
    /\ l[i].body.tool = told.tool /\ l[i].body.outcome = OutcomeOf(told)
    /\ l[i].body.issue = told.matter /\ l[i].body.approval = told.approval
    /\ told.text => /\ l[i].body.kind = "firm_facade" /\ l[i].body.disclosed = "text"
                    /\ l[i].body.product = told.product

Ours(m, iss) == m \in Matters /\ iss[m] = Company

\* What the caller will be told agrees with the receipt about to be written.
Truthful(call, iss) ==
  LET told == call.told IN
  /\ told.call = call.id /\ told.tool = call.req.tool /\ told.matter = call.matter
  /\ told.approval = call.approval /\ OutcomeOf(told) = call.outcome
  /\ told.text => /\ told.product = call.product /\ call.disclosed = "text"
                  /\ Ours(call.matter, iss)

Asking == {"guard", "list", "document", "create", "approve"}
ToolOK(call, allow, iss, l) ==
  /\ call.at \in Asking =>
       /\ call.told = None /\ call.outcome = "performed"
       /\ call.approval = None /\ call.disclosed = None
  /\ call.at = "guard" => call.matter \in Matters /\ call.req.tool # "create_matter"
  /\ call.at \in {"list", "document", "approve"} => Ours(call.matter, iss)
  /\ call.at = "document" => allow /\ call.product = call.req.product
  /\ call.disclosed = "text" => allow
  /\ call.at \in Asking \cup {"record"} => NoOutcome(call.id, l)
  /\ (call.at \in {"record", "reply"} /\ call.told # None) => Truthful(call, iss)
  /\ (call.at = "reply" /\ call.told # None) => Receipted(call.told, l)

AnchorOK(call, stamps, toks, psts, l) ==
  /\ NoOutcome(call.id, l)
  /\ (call.at \in {"comment", "anchored"} /\ stamps) => call.id \in toks
  /\ call.at = "anchored" => call.id \in psts

CallOK(call, allow, iss, l, stamps, toks, psts) ==
  /\ call \in ToolCalls => ToolOK(call, allow, iss, l)
  /\ call \in AnchorCalls => AnchorOK(call, stamps, toks, psts, l)

AnswerOK(told, allow, iss, l, psts) ==
  /\ Receipted(told, l)
  /\ told.tool = "anchor" => told.call \in psts
  /\ told.text => allow /\ Ours(told.matter, iss)

EntryOK(e, allow) ==
  (e.from.call # None /\ e.body.kind = "firm_facade" /\ e.body.disclosed = "text") => allow

OneOutcome(l) ==
  \A i, j \in DOMAIN l :
    (/\ l[i].from.call = l[j].from.call /\ l[i].from.call # None
     /\ l[i].body.outcome # "reserved" /\ l[j].body.outcome # "reserved") => i = j

UniqueIds ==
  \A c, d \in Callers :
    (calls[c].at # "idle" /\ calls[d].at # "idle" /\ calls[c].id = calls[d].id) => c = d

CallsInv ==
  /\ UniqueIds /\ OneOutcome(ledger)
  /\ \A c \in Callers : CallOK(calls[c], allowText, issues, ledger, tsa, tokens, posted)
  /\ \A told \in answers : AnswerOK(told, allowText, issues, ledger, posted)
  /\ \A i \in DOMAIN ledger : EntryOK(ledger[i], allowText)
  /\ tsa => posted \subseteq tokens

-----------------------------------------------------------------------------
(* What adding an entry does to what is said of a ledger. *)

LEMMA ReceiptedStays ==
  ASSUME NEW S, NEW l \in Seq(S), NEW e, NEW told, Receipted(told, l)
  PROVE  Receipted(told, Append(l, e))
<1>1. \A i \in DOMAIN l : i \in DOMAIN Append(l, e) /\ Append(l, e)[i] = l[i]
  BY AppendIs
<1>2. QED
  BY <1>1 DEF Receipted

LEMMA NoOutcomeStays ==
  ASSUME NEW S, NEW l \in Seq(S), NEW e, NEW id, NoOutcome(id, l),
         e.from.call # id \/ e.body.outcome = "reserved"
  PROVE  NoOutcome(id, Append(l, e))
<1>1. /\ DOMAIN Append(l, e) = DOMAIN l \cup {Len(l) + 1}
      /\ \A i \in DOMAIN l : Append(l, e)[i] = l[i]
      /\ Append(l, e)[Len(l) + 1] = e
  BY AppendIs
<1>2. QED
  BY <1>1 DEF NoOutcome

LEMMA OneOutcomeStays ==
  ASSUME NEW S, NEW l \in Seq(S), NEW e, OneOutcome(l),
         e.from.call = None \/ e.body.outcome = "reserved" \/ NoOutcome(e.from.call, l)
  PROVE  OneOutcome(Append(l, e))
<1> DEFINE t == Append(l, e)
<1>1. /\ DOMAIN t = DOMAIN l \cup {Len(l) + 1}
      /\ \A i \in DOMAIN l : t[i] = l[i]
      /\ t[Len(l) + 1] = e
  BY AppendIs
<1> HIDE DEF t
<1>2. OneOutcome(t)
  BY <1>1 DEF OneOutcome, NoOutcome
<1>3. QED
  BY <1>2 DEF t

\* A call of its own id is untouched by another's entry and by what else a step grows.
Grown(iss, iss2, toks, toks2, psts, psts2) ==
  /\ \A m \in Matters : iss[m] = Company => iss2[m] = Company
  /\ toks \subseteq toks2 /\ psts \subseteq psts2

LEMMA ToolStays ==
  ASSUME NEW S, NEW l \in Seq(S), NEW e, NEW call, NEW allow, NEW iss, NEW iss2,
         \A m \in Matters : iss[m] = Company => iss2[m] = Company,
         ToolOK(call, allow, iss, l), e.from.call # call.id
  PROVE  ToolOK(call, allow, iss2, Append(l, e))
<1>1. \A told : Receipted(told, l) => Receipted(told, Append(l, e))
  BY ReceiptedStays
<1>2. NoOutcome(call.id, l) => NoOutcome(call.id, Append(l, e))
  BY NoOutcomeStays
<1>3. \A m : Ours(m, iss) => Ours(m, iss2)
  BY DEF Ours
<1>4. QED
  BY <1>1, <1>2, <1>3 DEF ToolOK, Truthful

LEMMA ToolGrows ==
  ASSUME NEW l, NEW call, NEW allow, NEW iss, NEW iss2,
         \A m \in Matters : iss[m] = Company => iss2[m] = Company,
         ToolOK(call, allow, iss, l)
  PROVE  ToolOK(call, allow, iss2, l)
<1>3. \A m : Ours(m, iss) => Ours(m, iss2)
  BY DEF Ours
<1>4. QED
  BY <1>3 DEF ToolOK, Truthful

LEMMA CallStays ==
  ASSUME NEW S, NEW l \in Seq(S), NEW l2, NEW call, NEW allow, NEW iss, NEW iss2, NEW stamps,
         NEW toks, NEW toks2, NEW psts, NEW psts2,
         Grown(iss, iss2, toks, toks2, psts, psts2),
         CallOK(call, allow, iss, l, stamps, toks, psts),
         l2 = l \/ \E e : l2 = Append(l, e) /\ e.from.call # call.id
  PROVE  CallOK(call, allow, iss2, l2, stamps, toks2, psts2)
<1>1. call \in ToolCalls => ToolOK(call, allow, iss2, l2)
  <2>1. ASSUME call \in ToolCalls PROVE ToolOK(call, allow, iss, l)
    BY <2>1 DEF CallOK
  <2>2. CASE l2 = l
    BY <2>1, <2>2, ToolGrows DEF Grown
  <2>3. ASSUME NEW e, l2 = Append(l, e), e.from.call # call.id, call \in ToolCalls
        PROVE  ToolOK(call, allow, iss2, l2)
    BY <2>1, <2>3, ToolStays DEF Grown
  <2>4. QED
    BY <2>2, <2>3
<1>2. call \in AnchorCalls => AnchorOK(call, stamps, toks2, psts2, l2)
  <2>1. ASSUME call \in AnchorCalls PROVE AnchorOK(call, stamps, toks, psts, l)
    BY <2>1 DEF CallOK
  <2>2. NoOutcome(call.id, l) => NoOutcome(call.id, l2)
    BY NoOutcomeStays
  <2>3. QED
    BY <2>1, <2>2 DEF AnchorOK, Grown
<1>3. QED
  BY <1>1, <1>2 DEF CallOK

LEMMA AnswerStays ==
  ASSUME NEW S, NEW l \in Seq(S), NEW l2, NEW told, NEW allow, NEW iss, NEW iss2,
         NEW toks, NEW toks2, NEW psts, NEW psts2,
         Grown(iss, iss2, toks, toks2, psts, psts2),
         AnswerOK(told, allow, iss, l, psts),
         l2 = l \/ \E e : l2 = Append(l, e)
  PROVE  AnswerOK(told, allow, iss2, l2, psts2)
<1>1. Receipted(told, l2)
  BY ReceiptedStays DEF AnswerOK
<1>2. QED
  BY <1>1 DEF AnswerOK, Grown, Ours

-----------------------------------------------------------------------------
(* What a step may do, and that it keeps the invariant.  The entry of a    *)
(* step, if any, is of the call with the given id, or of none.             *)

Adds(id) ==
  \/ UNCHANGED ledger
  \/ \E e : /\ Stores(e) /\ e.from.call = id /\ EntryOK(e, allowText)
            /\ id = None \/ e.body.outcome = "reserved" \/ NoOutcome(id, ledger)

Answered == \A told \in answers' \ answers : AnswerOK(told, allowText', issues', ledger', posted')

Keeps ==
  /\ UNCHANGED <<allowText, tsa>> /\ made <= made' /\ made' \in Nat
  /\ Grown(issues, issues', tokens, tokens', posted, posted')
  /\ tsa => posted' \subseteq tokens'

\* The call of c goes on from call to x under its id.
Onward(x, call, id) ==
  /\ x \in AnyCall /\ (x.at # "idle" => x.id = id)
  /\ \/ call.at # "idle" /\ id = call.id
     \/ call.at = "idle" /\ id = made + 1 /\ made' = made + 1

CallStep(c, x, id) ==
  /\ Goes(c, x) /\ Onward(x, calls[c], id)
  /\ CallOK(x, allowText', issues', ledger', tsa', tokens', posted')
  /\ Adds(id) /\ Answered /\ Keeps

OtherStep == UNCHANGED calls /\ Adds(None) /\ Answered /\ Keeps

\* The ledger, the answers and the anchors.
LEMMA LedgerKept ==
  ASSUME TypeOK, CallsInv, NEW id, Adds(id), Answered, Keeps
  PROVE  /\ OneOutcome(ledger')
         /\ \A told \in answers' : AnswerOK(told, allowText', issues', ledger', posted')
         /\ \A i \in DOMAIN ledger' : EntryOK(ledger'[i], allowText')
         /\ tsa' => posted' \subseteq tokens'
<1>0. allowText' = allowText /\ tsa' = tsa /\ Grown(issues, issues', tokens, tokens', posted, posted')
  BY DEF Keeps
<1>1. ledger \in Seq(Range(ledger))
  BY DEF TypeOK
<1>2. ledger' = ledger \/ \E e : /\ ledger' = Append(ledger, e) /\ e.from.call = id /\ EntryOK(e, allowText)
                                 /\ id = None \/ e.body.outcome = "reserved" \/ NoOutcome(id, ledger)
  BY DEF Adds, Stores
<1>3. OneOutcome(ledger')
  <2>1. OneOutcome(ledger)
    BY DEF CallsInv
  <2>2. QED
    BY <1>1, <1>2, <2>1, OneOutcomeStays
<1>4. ASSUME NEW told \in answers' PROVE AnswerOK(told, allowText', issues', ledger', posted')
  <2>1. CASE told \in answers
    <3>1. AnswerOK(told, allowText, issues, ledger, posted)
      BY <2>1 DEF CallsInv
    <3>2. QED
      BY <1>0, <1>1, <1>2, <3>1, AnswerStays
  <2>2. CASE told \notin answers
    BY <1>4, <2>2 DEF Answered
  <2>3. QED
    BY <2>1, <2>2
<1>5. \A i \in DOMAIN ledger' : EntryOK(ledger'[i], allowText')
  <2>1. \A i \in DOMAIN ledger : EntryOK(ledger[i], allowText)
    BY DEF CallsInv
  <2>2. CASE ledger' = ledger
    BY <2>1, <2>2, <1>0
  <2>3. ASSUME NEW e, ledger' = Append(ledger, e), EntryOK(e, allowText)
        PROVE  \A i \in DOMAIN ledger' : EntryOK(ledger'[i], allowText')
    <3>1. /\ DOMAIN ledger' = DOMAIN ledger \cup {Len(ledger) + 1}
          /\ \A i \in DOMAIN ledger : ledger'[i] = ledger[i]
          /\ ledger'[Len(ledger) + 1] = e
      BY <1>1, <2>3, AppendIs
    <3>2. QED
      BY <1>0, <2>1, <2>3, <3>1
  <2>4. QED
    BY <1>2, <2>2, <2>3
<1>6. tsa' => posted' \subseteq tokens'
  BY DEF Keeps
<1>7. QED
  BY <1>3, <1>4, <1>5, <1>6

\* A call that a step does not move.
LEMMA CallKept ==
  ASSUME TypeOK, CallsInv, NEW id, Adds(id), Keeps, NEW d \in Callers, calls'[d] = calls[d],
         calls[d].id # id \/ UNCHANGED ledger
  PROVE  CallOK(calls'[d], allowText', issues', ledger', tsa', tokens', posted')
<1>0. allowText' = allowText /\ tsa' = tsa /\ Grown(issues, issues', tokens, tokens', posted, posted')
  BY DEF Keeps
<1>1. ledger \in Seq(Range(ledger))
  BY DEF TypeOK
<1>2. ledger' = ledger \/ \E e : ledger' = Append(ledger, e) /\ e.from.call # calls[d].id
  BY DEF Adds, Stores
<1>3. CallOK(calls[d], allowText, issues, ledger, tsa, tokens, posted)
  BY DEF CallsInv
<1>4. CallOK(calls[d], allowText, issues', ledger', tsa, tokens', posted')
  BY <1>0, <1>1, <1>2, <1>3, CallStays
<1>5. QED
  BY <1>0, <1>4

LEMMA IdleOK ==
  ASSUME NEW call, call.at = "idle", NEW allow, NEW iss, NEW l, NEW stamps, NEW toks, NEW psts
  PROVE  CallOK(call, allow, iss, l, stamps, toks, psts)
BY DEF CallOK, ToolCalls, AnchorCalls

LEMMA CallStepKeeps ==
  ASSUME TypeOK, IdsOK, CallsInv, NEW c \in Callers, NEW x, NEW id, CallStep(c, x, id)
  PROVE  IdsOK' /\ CallsInv'
<1>1. /\ calls' = [calls EXCEPT ![c] = x] /\ Onward(x, calls[c], id) /\ Keeps /\ Adds(id) /\ Answered
      /\ CallOK(x, allowText', issues', ledger', tsa', tokens', posted')
  BY DEF CallStep, Goes
<1>2. calls'[c] = x /\ \A d \in Callers : d # c => calls'[d] = calls[d]
  BY <1>1 DEF TypeOK
<1>3. made \in Nat /\ made' \in Nat /\ made <= made'
  BY <1>1, Counts DEF Keeps
<1>4. \A d \in Callers : calls[d].at # "idle" => calls[d].id \in 1 .. made
  BY DEF IdsOK
<1>5. id \in 1 .. made'
  BY <1>1, <1>3, <1>4 DEF Onward
<1>6. \A d \in Callers : calls[d].at # "idle" => calls[d].id \in 1 .. made'
  BY <1>3, <1>4
<1>7. IdsOK'
  BY <1>1, <1>2, <1>5, <1>6 DEF IdsOK, Onward
<1>8. \A d \in Callers : (d # c /\ calls[d].at # "idle") => calls[d].id # id
  BY <1>1, <1>3, <1>4 DEF Onward, CallsInv, UniqueIds
<1>9. UniqueIds'
  <2>1. UniqueIds
    BY DEF CallsInv
  <2>2. QED
    BY <1>1, <1>2, <1>8, <2>1 DEF UniqueIds, Onward
<1>10. ASSUME NEW d \in Callers
       PROVE  CallOK(calls'[d], allowText', issues', ledger', tsa', tokens', posted')
  <2>1. CASE d = c
    BY <2>1, <1>1, <1>2
  <2>2. CASE d # c /\ calls[d].at = "idle"
    BY <2>2, <1>2, IdleOK
  <2>3. CASE d # c /\ calls[d].at # "idle"
    BY <2>3, <1>1, <1>2, <1>8, CallKept
  <2>4. QED
    BY <2>1, <2>2, <2>3
<1>11. QED
  BY <1>1, <1>7, <1>9, <1>10, LedgerKept DEF CallsInv

LEMMA OtherStepKeeps ==
  ASSUME TypeOK, IdsOK, CallsInv, OtherStep
  PROVE  IdsOK' /\ CallsInv'
<1>1. UNCHANGED calls /\ Adds(None) /\ Answered /\ Keeps
  BY DEF OtherStep
<1>2. made \in Nat /\ made' \in Nat /\ made <= made'
  BY <1>1, Counts DEF Keeps
<1>3. IdsOK'
  BY <1>1, <1>2 DEF IdsOK
<1>4. UniqueIds'
  BY <1>1 DEF UniqueIds, CallsInv
<1>5. ASSUME NEW d \in Callers
      PROVE  CallOK(calls'[d], allowText', issues', ledger', tsa', tokens', posted')
  <2>1. CASE calls[d].at = "idle"
    BY <2>1, <1>1, IdleOK
  <2>2. CASE calls[d].at # "idle"
    <3>1. calls[d].id # None
      BY <2>2, FacadeAssumption, Counts DEF IdsOK
    <3>2. QED
      BY <3>1, <1>1, CallKept
  <2>3. QED
    BY <2>1, <2>2
<1>6. QED
  BY <1>1, <1>3, <1>4, <1>5, LedgerKept DEF CallsInv

LEMMA ToolCallOK ==
  ASSUME NEW x \in ToolCalls, NEW allow, NEW iss, NEW l, NEW stamps, NEW toks, NEW psts,
         ToolOK(x, allow, iss, l)
  PROVE  CallOK(x, allow, iss, l, stamps, toks, psts)
<1>1. x \notin AnchorCalls
  BY DEF ToolCalls, AnchorCalls
<1>2. QED
  BY <1>1 DEF CallOK

LEMMA AnchorCallOK ==
  ASSUME NEW x \in AnchorCalls, NEW allow, NEW iss, NEW l, NEW stamps, NEW toks, NEW psts,
         AnchorOK(x, stamps, toks, psts, l)
  PROVE  CallOK(x, allow, iss, l, stamps, toks, psts)
<1>1. x \notin ToolCalls
  BY DEF ToolCalls, AnchorCalls
<1>2. QED
  BY <1>1 DEF CallOK

\* A call without an outcome, which names no text but under an open policy.
Clean(call, allow, l) == NoOutcome(call.id, l) /\ (call.disclosed = "text" => allow)

LEMMA AnsweringOK ==
  ASSUME NEW call \in ToolCalls, NEW allow, NEW iss, NEW l, NEW word, NEW text, Clean(call, allow, l),
         \/ word = "ok" /\ call.outcome = "performed"
         \/ word = "error" /\ call.outcome = "error"
         \/ word = "pending_approval" /\ call.outcome = "pending",
         text => /\ call.req.product = call.product /\ call.disclosed = "text"
                 /\ Ours(call.matter, iss)
  PROVE  ToolOK(Answers(call, word, text), allow, iss, l)
<1> DEFINE x == Answers(call, word, text)
<1>1. /\ x.at = "record" /\ x.id = call.id /\ x.req = call.req /\ x.approval = call.approval
      /\ x.matter = call.matter /\ x.outcome = call.outcome /\ x.product = call.product
      /\ x.disclosed = call.disclosed /\ x.told = Told(call, word, text)
  BY AnswersIs DEF Same
<1>2. OutcomeOf(Told(call, word, text)) = call.outcome
  BY ToldIs DEF OutcomeOf
<1>3. Truthful(x, iss)
  BY <1>1, <1>2, ToldIs DEF Truthful
<1> HIDE DEF x
<1>4. ToolOK(x, allow, iss, l)
  BY <1>1, <1>3 DEF ToolOK, Clean, Asking
<1>5. QED
  BY <1>4 DEF x

LEMMA ThrowingOK ==
  ASSUME NEW call \in ToolCalls, NEW allow, NEW iss, NEW l, Clean(call, allow, l)
  PROVE  ToolOK(Throws(call), allow, iss, l)
<1>1. /\ Throws(call).at = "record" /\ Throws(call).id = call.id
      /\ Throws(call).disclosed = call.disclosed /\ Throws(call).told = None
  BY ThrowsIs DEF Same
<1>2. QED
  BY <1>1 DEF ToolOK, Clean, Asking

\* What the invariant says of one call.
LEMMA CallIs ==
  ASSUME TypeOK, CallsInv, NEW c \in Callers
  PROVE  /\ calls[c] \in ToolCalls => ToolOK(calls[c], allowText, issues, ledger)
         /\ calls[c] \in AnchorCalls => AnchorOK(calls[c], tsa, tokens, posted, ledger)
BY DEF CallsInv, CallOK

\* A new id has no entry yet.
LEMMA FreshId ==
  ASSUME TypeOK
  PROVE  NoOutcome(made + 1, ledger)
<1>1. \A i \in DOMAIN ledger : ledger[i].from.call \in (1 .. made) \cup {None}
  BY DEF TypeOK
<1>2. made \in Nat /\ None \notin Nat
  BY Counts, FacadeAssumption
<1>3. made + 1 \notin (1 .. made) \cup {None}
  BY <1>2
<1>4. QED
  BY <1>1, <1>3 DEF NoOutcome

\* A step that changes calls alone.
LEMMA QuietStep ==
  ASSUME TypeOK, CallsInv, NEW c \in Callers, NEW x \in ToolCalls, Goes(c, x), Quiet,
         calls[c].at # "idle", x.id = calls[c].id, ToolOK(x, allowText, issues, ledger)
  PROVE  CallStep(c, x, calls[c].id)
<1>1. UNCHANGED <<allowText, tsa, issues, ledger, tokens, posted, answers, made>>
  BY DEF Quiet, external, anchors
<1>2. CallOK(x, allowText', issues', ledger', tsa', tokens', posted')
  BY <1>1, ToolCallOK
<1>3. Onward(x, calls[c], calls[c].id)
  BY DEF Onward, AnyCall
<1>4. Adds(calls[c].id) /\ Answered
  BY <1>1 DEF Adds, Answered
<1>5. Keeps
  BY <1>1, Counts DEF Keeps, Grown, CallsInv
<1>6. QED
  BY <1>2, <1>3, <1>4, <1>5 DEF CallStep

LEMMA AnswersStep ==
  ASSUME TypeOK, CallsInv, NEW c \in Callers, Quiet, calls[c].at # "idle",
         NEW call \in ToolCalls, call.id = calls[c].id, Clean(call, allowText, ledger),
         NEW word \in {"ok", "error", "pending_approval"}, NEW text \in BOOLEAN,
         \/ word = "ok" /\ call.outcome = "performed"
         \/ word = "error" /\ call.outcome = "error"
         \/ word = "pending_approval" /\ call.outcome = "pending",
         text => /\ call.req.product = call.product /\ call.disclosed = "text"
                 /\ Ours(call.matter, issues),
         Goes(c, Answers(call, word, text))
  PROVE  \E x, id : CallStep(c, x, id)
<1>1. ToolOK(Answers(call, word, text), allowText, issues, ledger)
  BY AnsweringOK
<1>2. Answers(call, word, text) \in ToolCalls
  BY AnswersTyped
<1>3. Answers(call, word, text).id = calls[c].id
  BY AnswersIs DEF Same
<1>4. QED
  BY <1>1, <1>2, <1>3, QuietStep

LEMMA ThrowsStep ==
  ASSUME TypeOK, CallsInv, NEW c \in Callers, Quiet, calls[c].at # "idle",
         NEW call \in ToolCalls, call.id = calls[c].id, Clean(call, allowText, ledger),
         Goes(c, Throws(call))
  PROVE  \E x, id : CallStep(c, x, id)
<1>1. ToolOK(Throws(call), allowText, issues, ledger)
  BY ThrowingOK
<1>2. Throws(call) \in ToolCalls /\ Throws(call).id = calls[c].id
  BY ThrowsTyped, ThrowsIs DEF Same
<1>3. QED
  BY <1>1, <1>2, QuietStep

LEMMA GuardReadsStep ==
  ASSUME TypeOK, CallsInv, NEW c \in Callers, GuardReads(c)
  PROVE  \E x, id : CallStep(c, x, id)
<1> DEFINE call == calls[c]
<1>1. call \in ToolCalls /\ Quiet /\ call.at = "guard"
  BY CallAt DEF GuardReads
<1>2. ToolOK(call, allowText, issues, ledger)
  BY <1>1, CallIs
<1>3. /\ call.told = None /\ call.outcome = "performed" /\ call.approval = None /\ call.disclosed = None
      /\ call.matter \in Matters /\ NoOutcome(call.id, ledger)
  BY <1>1, <1>2 DEF ToolOK, Asking
<1>4. Clean(call, allowText, ledger)
  BY <1>3, <1>2 DEF Clean, ToolOK
<1>5. CASE Goes(c, Throws(call))
  BY <1>1, <1>4, <1>5, ThrowsStep
<1>6. CASE Goes(c, Answers(call, "ok", FALSE))
  BY <1>1, <1>3, <1>4, <1>6, AnswersStep
<1>7. ASSUME NEW at \in {"approve", "list"}, Goes(c, [call EXCEPT !.at = at]), issues[call.matter] = Company
      PROVE  \E x, id : CallStep(c, x, id)
  <2> DEFINE x == [call EXCEPT !.at = at]
  <2>1. x \in ToolCalls
    BY <1>1, MovesTyped
  <2>2. /\ x.at = at /\ x.id = call.id /\ x.approval = call.approval
        /\ x.matter = call.matter /\ x.outcome = call.outcome /\ x.disclosed = call.disclosed
        /\ x.told = call.told
    BY <1>1, MovedIs DEF Same
  <2> HIDE DEF x
  <2>3. ToolOK(x, allowText, issues, ledger)
    BY <1>3, <1>4, <1>7, <2>2 DEF ToolOK, Asking, Ours, Clean
  <2>4. QED
    BY <1>1, <1>7, <2>1, <2>2, <2>3, QuietStep DEF x
<1>8. CASE issues[call.matter] # Company
  <2>1. Goes(c, Throws(call))
    BY <1>8 DEF GuardReads
  <2>2. QED
    BY <2>1, <1>5
<1>9. CASE issues[call.matter] = Company
  <2>1. \/ Goes(c, Throws(call)) \/ Goes(c, Answers(call, "ok", FALSE))
        \/ \E at \in {"approve", "list"} : Goes(c, [call EXCEPT !.at = at])
    BY <1>9 DEF GuardReads
  <2>2. QED
    BY <2>1, <1>5, <1>6, <1>7, <1>9
<1>10. QED
  BY <1>8, <1>9

LEMMA ListsStep ==
  ASSUME TypeOK, CallsInv, NEW c \in Callers, Lists(c)
  PROVE  \E x, id : CallStep(c, x, id)
<1> DEFINE call == calls[c]
           own == [call EXCEPT !.product = call.req.product]
           erred == [own EXCEPT !.outcome = "error"]
           kept == [own EXCEPT !.disclosed = "withheld"]
           reading == [own EXCEPT !.at = "document"]
<1>1. call \in ToolCalls /\ Quiet /\ call.at = "list"
  BY CallAt DEF Lists
<1>2. ToolOK(call, allowText, issues, ledger)
  BY <1>1, CallIs
<1>3. /\ call.told = None /\ call.outcome = "performed" /\ call.approval = None /\ call.disclosed = None
      /\ Ours(call.matter, issues) /\ NoOutcome(call.id, ledger) /\ Clean(call, allowText, ledger)
  BY <1>1, <1>2 DEF ToolOK, Asking, Clean
<1>4. /\ own \in ToolCalls /\ own.product = call.req.product /\ own.id = call.id /\ own.req = call.req
      /\ own.approval = call.approval /\ own.matter = call.matter /\ own.disclosed = call.disclosed
      /\ own.outcome = call.outcome /\ own.told = call.told /\ own.at = call.at
  BY <1>1, OwnIs DEF Same
<1> HIDE DEF own
<1>5. Clean(own, allowText, ledger)
  BY <1>3, <1>4 DEF Clean
<1>6. erred \in ToolCalls /\ erred.outcome = "error" /\ erred.id = call.id /\ erred.disclosed = call.disclosed
  BY <1>4, NotedTyped, ErredIs DEF Same
<1>7. kept \in ToolCalls /\ kept.outcome = "performed" /\ kept.id = call.id /\ kept.disclosed = "withheld"
  BY <1>3, <1>4, NotedTyped, NotedIs DEF Same
<1>8. /\ reading \in ToolCalls /\ reading.at = "document" /\ reading.id = call.id /\ reading.approval = None
      /\ reading.matter = call.matter /\ reading.outcome = "performed" /\ reading.disclosed = None
      /\ reading.told = None /\ reading.product = reading.req.product
  <2>1. reading \in ToolCalls
    BY <1>4, MovesTyped
  <2>2. /\ reading.at = "document" /\ reading.id = own.id /\ reading.req = own.req
        /\ reading.approval = own.approval /\ reading.matter = own.matter /\ reading.outcome = own.outcome
        /\ reading.product = own.product /\ reading.disclosed = own.disclosed /\ reading.told = own.told
    BY <1>4, MovedIs DEF Same
  <2> HIDE DEF reading
  <2>3. QED
    BY <1>3, <1>4, <2>1, <2>2
<1> HIDE DEF erred, kept, reading
<1>9. Clean(erred, allowText, ledger) /\ Clean(kept, allowText, ledger)
  BY <1>3, <1>6, <1>7 DEF Clean
<1>10. CASE Goes(c, Throws(own))
  BY <1>1, <1>4, <1>5, <1>10, ThrowsStep
<1>11. CASE Goes(c, Answers(call, "ok", FALSE))
  BY <1>1, <1>3, <1>11, AnswersStep
<1>12. CASE Goes(c, Answers(erred, "error", FALSE))
  BY <1>1, <1>6, <1>9, <1>12, AnswersStep
<1>13. CASE Goes(c, Answers(kept, "ok", FALSE))
  BY <1>1, <1>7, <1>9, <1>13, AnswersStep
<1>14. CASE Goes(c, reading) /\ allowText
  <2>1. ToolOK(reading, allowText, issues, ledger)
    BY <1>3, <1>8, <1>14 DEF ToolOK, Asking
  <2>2. QED
    BY <1>1, <1>8, <1>14, <2>1, QuietStep
<1>15. \/ Goes(c, Throws(own)) \/ Goes(c, Answers(call, "ok", FALSE)) \/ Goes(c, Fetched(call))
  BY DEF Lists, own
<1>16. \/ Fetched(call) = Answers(erred, "error", FALSE) \/ Fetched(call) = Answers(kept, "ok", FALSE)
       \/ Fetched(call) = reading /\ GivesText(call.req)
  BY DEF Fetched, erred, kept, reading, own
<1>17. QED
  BY <1>10, <1>11, <1>12, <1>13, <1>14, <1>15, <1>16 DEF GivesText

LEMMA ReadsDocumentStep ==
  ASSUME TypeOK, CallsInv, NEW c \in Callers, ReadsDocument(c)
  PROVE  \E x, id : CallStep(c, x, id)
<1> DEFINE call == calls[c]
           kept == [call EXCEPT !.disclosed = "withheld"]
           open == [call EXCEPT !.disclosed = "text"]
<1>1. call \in ToolCalls /\ Quiet /\ call.at = "document"
  BY CallAt DEF ReadsDocument
<1>2. ToolOK(call, allowText, issues, ledger)
  BY <1>1, CallIs
<1>3. /\ call.outcome = "performed" /\ Ours(call.matter, issues) /\ NoOutcome(call.id, ledger)
      /\ allowText /\ call.product = call.req.product
  BY <1>1, <1>2 DEF ToolOK, Asking
<1>4. kept \in ToolCalls /\ kept.id = call.id /\ kept.disclosed = "withheld"
  BY <1>1, NotedTyped, NotedIs DEF Same
<1>5. /\ open \in ToolCalls /\ open.id = call.id /\ open.disclosed = "text" /\ open.matter = call.matter
      /\ open.product = call.product /\ open.req = call.req /\ open.outcome = call.outcome
  BY <1>1, NotedTyped, NotedIs DEF Same
<1>6. Goes(c, Throws(kept)) \/ Goes(c, Answers(open, "ok", TRUE))
  BY DEF ReadsDocument
<1> HIDE DEF kept, open
<1>7. Clean(kept, allowText, ledger) /\ Clean(open, allowText, ledger)
  BY <1>3, <1>4, <1>5 DEF Clean
<1>8. CASE Goes(c, Throws(kept))
  BY <1>1, <1>4, <1>7, <1>8, ThrowsStep
<1>9. CASE Goes(c, Answers(open, "ok", TRUE))
  BY <1>1, <1>3, <1>5, <1>7, <1>9, AnswersStep
<1>10. QED
  BY <1>6, <1>8, <1>9

\* A step that writes no entry, answers nobody and leaves the anchors alone.
LEMMA SilentStep ==
  ASSUME TypeOK, CallsInv, NEW c \in Callers, NEW x, NEW id, Goes(c, x), Onward(x, calls[c], id),
         CallOK(x, allowText, issues', ledger, tsa, tokens, posted),
         UNCHANGED <<external, anchors, ledger, answers>>, made' \in Nat, made <= made',
         \A m \in Matters : issues[m] = Company => issues'[m] = Company
  PROVE  CallStep(c, x, id)
<1>1. UNCHANGED <<allowText, tsa, ledger, tokens, posted, answers>>
  BY DEF external, anchors
<1>2. Adds(id) /\ Answered
  BY <1>1 DEF Adds, Answered
<1>3. Keeps
  BY <1>1 DEF Keeps, Grown, CallsInv
<1>4. CallOK(x, allowText', issues', ledger', tsa', tokens', posted')
  BY <1>1
<1>5. QED
  BY <1>2, <1>3, <1>4 DEF CallStep

LEMMA StartIs ==
  ASSUME NEW req \in Requests, NEW id \in Nat
  PROVE  /\ Start(id, req).at = "guard" /\ Start(id, req).id = id /\ Start(id, req).req = req
         /\ Start(id, req).matter = req.matter /\ Start(id, req).outcome = "performed"
         /\ Start(id, req).product = None /\ Start(id, req).approval = None
         /\ Start(id, req).disclosed = None /\ Start(id, req).told = None
BY DEF Start

LEMMA AnswersId ==
  ASSUME NEW call \in ToolCalls, NEW word \in {"ok", "pending_approval", "error"}, NEW text \in BOOLEAN
  PROVE  Answers(call, word, text).id = call.id
BY AnswersIs DEF Same

LEMMA CallStarts ==
  ASSUME TypeOK, CallsInv, NEW c \in Callers, Call(c)
  PROVE  \E x, id : CallStep(c, x, id)
<1>0. calls[c] = Idle /\ made' = made + 1 /\ UNCHANGED <<external, anchors, issues, ledger, answers>>
  BY DEF Call
<1>1. calls[c].at = "idle" /\ made' \in Nat /\ made + 1 \in Nat /\ made <= made' /\ NoOutcome(made + 1, ledger)
  BY <1>0, IdleIs, Counts, FreshId
<1> DEFINE id == made + 1
           new(req) == Start(id, req)
           making(req) == [new(req) EXCEPT !.at = "create"]
           blank(req) == [new(req) EXCEPT !.outcome = "error", !.matter = None]
<1>2. PICK req \in Requests :
        Goes(c, CASE req.tool = "create_matter" /\ req.matter = None -> making(req)
                 [] req.tool = "create_matter" /\ req.matter # None -> Answers(blank(req), "error", FALSE)
                 [] OTHER -> new(req))
  BY DEF Call
<1>3. ASSUME NEW x \in ToolCalls, Goes(c, x), x.id = id, ToolOK(x, allowText, issues, ledger)
      PROVE  CallStep(c, x, id)
  <2>1. Onward(x, calls[c], id)
    BY <1>0, <1>1, <1>3 DEF Onward, AnyCall
  <2>2. CallOK(x, allowText, issues', ledger, tsa, tokens, posted)
    BY <1>0, <1>3, ToolCallOK
  <2>3. QED
    BY <1>0, <1>1, <1>3, <2>1, <2>2, SilentStep
<1>4. allowText \in BOOLEAN
  BY DEF TypeOK
<1>5. /\ new(req).at = "guard" /\ new(req).id = id /\ new(req).req = req /\ new(req).matter = req.matter
      /\ new(req).outcome = "performed" /\ new(req).approval = None /\ new(req).disclosed = None
      /\ new(req).told = None
  BY <1>1, StartIs
<1>6. None # "text"
  BY FacadeAssumption
<1>7. CASE req.tool = "create_matter" /\ req.matter = None
  <2>1. making(req) \in ToolCalls
    BY <1>1, <1>7, CreateTyped
  <2>2. /\ making(req).at = "create" /\ making(req).id = id /\ making(req).outcome = "performed"
        /\ making(req).approval = None /\ making(req).disclosed = None /\ making(req).told = None
    BY DEF Start
  <2>3. Goes(c, making(req))
    BY <1>2, <1>7
  <2> HIDE DEF making
  <2>4. ToolOK(making(req), allowText, issues, ledger)
    BY <1>1, <1>6, <2>2 DEF ToolOK, Asking
  <2>5. QED
    BY <1>3, <2>1, <2>2, <2>3, <2>4
<1>8. CASE req.tool = "create_matter" /\ req.matter # None
  <2>1. blank(req) \in ToolCalls
    BY <1>1, RequestIs DEF Start, ToolCalls, RequestFacts
  <2>2. blank(req).id = id /\ blank(req).outcome = "error" /\ blank(req).disclosed = None
    BY DEF Start
  <2>3. Goes(c, Answers(blank(req), "error", FALSE))
    BY <1>2, <1>8
  <2> HIDE DEF blank
  <2>4. Clean(blank(req), allowText, ledger)
    BY <1>1, <1>6, <2>2 DEF Clean
  <2>5. ToolOK(Answers(blank(req), "error", FALSE), allowText, issues, ledger)
    BY <2>1, <2>2, <2>4, AnsweringOK
  <2>6. Answers(blank(req), "error", FALSE) \in ToolCalls /\ Answers(blank(req), "error", FALSE).id = id
    <3>1. Answers(blank(req), "error", FALSE) \in ToolCalls
      BY <2>1, AnswersTyped
    <3>2. Answers(blank(req), "error", FALSE).id = id
      BY <2>1, <2>2, AnswersId
    <3>3. QED
      BY <3>1, <3>2
  <2>7. QED
    BY <1>3, <2>3, <2>5, <2>6
<1>9. CASE req.tool # "create_matter"
  <2>1. new(req) \in ToolCalls
    BY <1>1, <1>9, StartTyped
  <2>2. Goes(c, new(req))
    BY <1>2, <1>9
  <2>3. req.matter \in Matters
    BY <1>9, RequestIs DEF RequestFacts
  <2> HIDE DEF new
  <2>4. ToolOK(new(req), allowText, issues, ledger)
    BY <1>1, <1>5, <1>6, <1>9, <2>3 DEF ToolOK, Asking
  <2>5. QED
    BY <1>3, <1>5, <2>1, <2>2, <2>4
<1>10. QED
  BY <1>7, <1>8, <1>9

LEMMA CreatesIssueStep ==
  ASSUME TypeOK, CallsInv, NEW c \in Callers, CreatesIssue(c)
  PROVE  \E x, id : CallStep(c, x, id)
<1> DEFINE call == calls[c]
           done(m) == [call EXCEPT !.matter = m]
<1>0. UNCHANGED <<external, anchors, ledger, answers, made>> /\ call.at = "create"
  BY DEF CreatesIssue
<1>1. call \in ToolCalls /\ made' \in Nat /\ made <= made'
  BY <1>0, CallAt, Counts
<1>2. /\ call.outcome = "performed" /\ call.disclosed = None /\ NoOutcome(call.id, ledger)
      /\ call.disclosed = "text" => allowText
  BY <1>0, <1>1, CallIs DEF ToolOK, Asking
<1>3. \A m \in Matters : issues[m] = Company => issues'[m] = Company
  BY FacadeAssumption DEF CreatesIssue, TypeOK
<1>4. ASSUME Goes(c, Idle) PROVE \E x, id : CallStep(c, x, id)
  <2>1. Onward(Idle, call, call.id)
    BY <1>0, IdleIs DEF Onward
  <2>2. CallOK(Idle, allowText, issues', ledger, tsa, tokens, posted)
    BY IdleIs, IdleOK
  <2>3. QED
    BY <1>0, <1>1, <1>3, <1>4, <2>1, <2>2, SilentStep
<1>5. ASSUME NEW m \in Fresh, Goes(c, Answers(done(m), "ok", FALSE)) PROVE \E x, id : CallStep(c, x, id)
  <2> DEFINE x == Answers(done(m), "ok", FALSE)
  <2>1. /\ done(m) \in ToolCalls /\ done(m).id = call.id /\ done(m).outcome = "performed"
        /\ done(m).disclosed = call.disclosed
    BY <1>1, <1>2, FacadeAssumption DEF ToolCalls
  <2> HIDE DEF done
  <2>2. Clean(done(m), allowText, ledger)
    BY <1>2, <2>1 DEF Clean
  <2>3. ToolOK(x, allowText, issues', ledger)
    BY <2>1, <2>2, AnsweringOK
  <2>4. x \in ToolCalls /\ x.id = call.id
    <3>1. x \in ToolCalls
      BY <2>1, AnswersTyped
    <3>2. x.id = call.id
      BY <2>1, AnswersId
    <3>3. QED
      BY <3>1, <3>2
  <2> HIDE DEF x
  <2>5. Onward(x, call, call.id)
    BY <1>0, <2>4 DEF Onward, AnyCall
  <2>6. CallOK(x, allowText, issues', ledger, tsa, tokens, posted)
    BY <2>3, <2>4, ToolCallOK
  <2>7. QED
    BY <1>0, <1>1, <1>3, <1>5, <2>5, <2>6, SilentStep DEF x
<1>6. QED
  BY <1>4, <1>5 DEF CreatesIssue

LEMMA CreatesApprovalStep ==
  ASSUME TypeOK, CallsInv, NEW c \in Callers, CreatesApproval(c)
  PROVE  \E x, id : CallStep(c, x, id)
<1> DEFINE call == calls[c]
           done(a) == [call EXCEPT !.approval = a, !.outcome = "pending"]
<1>0. UNCHANGED <<external, anchors, ledger, answers, made, issues>> /\ call.at = "approve"
  BY DEF CreatesApproval
<1>1. call \in ToolCalls /\ made' \in Nat /\ made <= made'
  BY <1>0, CallAt, Counts
<1>2. call.disclosed = None /\ NoOutcome(call.id, ledger) /\ (call.disclosed = "text" => allowText)
  BY <1>0, <1>1, CallIs DEF ToolOK, Asking
<1>4. ASSUME Goes(c, Idle) PROVE \E x, id : CallStep(c, x, id)
  <2>1. Onward(Idle, call, call.id)
    BY <1>0, IdleIs DEF Onward
  <2>2. CallOK(Idle, allowText, issues', ledger, tsa, tokens, posted)
    BY IdleIs, IdleOK
  <2>3. QED
    BY <1>0, <1>1, <1>4, <2>1, <2>2, SilentStep
<1>5. ASSUME NEW a \in Approvals, Goes(c, Answers(done(a), "pending_approval", FALSE))
      PROVE  \E x, id : CallStep(c, x, id)
  <2> DEFINE x == Answers(done(a), "pending_approval", FALSE)
  <2>1. /\ done(a) \in ToolCalls /\ done(a).id = call.id /\ done(a).outcome = "pending"
        /\ done(a).disclosed = call.disclosed
    BY <1>1, <1>2 DEF ToolCalls
  <2> HIDE DEF done
  <2>2. Clean(done(a), allowText, ledger)
    BY <1>2, <2>1 DEF Clean
  <2>3. ToolOK(x, allowText, issues', ledger)
    BY <2>1, <2>2, AnsweringOK
  <2>4. x \in ToolCalls /\ x.id = call.id
    <3>1. x \in ToolCalls
      BY <2>1, AnswersTyped
    <3>2. x.id = call.id
      BY <2>1, AnswersId
    <3>3. QED
      BY <3>1, <3>2
  <2> HIDE DEF x
  <2>5. Onward(x, call, call.id)
    BY <1>0, <2>4 DEF Onward, AnyCall
  <2>6. CallOK(x, allowText, issues', ledger, tsa, tokens, posted)
    BY <2>3, <2>4, ToolCallOK
  <2>7. QED
    BY <1>0, <1>1, <1>5, <2>5, <2>6, SilentStep DEF x
<1>6. QED
  BY <1>4, <1>5 DEF CreatesApproval, Free

LEMMA RepliesStep ==
  ASSUME TypeOK, CallsInv, NEW c \in Callers, Replies(c)
  PROVE  \E x, id : CallStep(c, x, id)
<1> DEFINE call == calls[c]
<1>0. /\ call.at = "reply" /\ Goes(c, Idle) /\ UNCHANGED <<external, anchors, issues, ledger, made>>
      /\ answers' = answers \/ (call.told # None /\ answers' = answers \cup {call.told})
  BY DEF Replies
<1>1. call \in ToolCalls /\ UNCHANGED <<allowText, tsa, issues, ledger, tokens, posted, made>>
  BY <1>0, CallAt DEF external, anchors
<1>2. ToolOK(call, allowText, issues, ledger)
  BY <1>1, CallIs
<1>3. ASSUME call.told # None PROVE AnswerOK(call.told, allowText, issues, ledger, posted)
  <2>1. Receipted(call.told, ledger) /\ Truthful(call, issues) /\ (call.disclosed = "text" => allowText)
    BY <1>0, <1>2, <1>3 DEF ToolOK
  <2>2. call.req.tool \in FacadeTools
    BY <1>1, RequestIs DEF ToolCalls, RequestFacts
  <2>3. call.told.tool # "anchor"
    BY <2>1, <2>2 DEF Truthful, FacadeTools
  <2>4. QED
    BY <2>1, <2>3 DEF Truthful, AnswerOK
<1>4. Answered
  BY <1>0, <1>1, <1>3 DEF Answered
<1>5. Onward(Idle, call, call.id)
  BY <1>0, IdleIs DEF Onward
<1>6. CallOK(Idle, allowText', issues', ledger', tsa', tokens', posted')
  BY IdleIs, IdleOK
<1>7. Adds(call.id)
  BY <1>1 DEF Adds
<1>8. Keeps
  BY <1>1, Counts DEF Keeps, Grown, CallsInv
<1>9. QED
  BY <1>0, <1>4, <1>5, <1>6, <1>7, <1>8 DEF CallStep

-----------------------------------------------------------------------------
(* Anchors *)

AnchorEntry(call, outcome, status) ==
  Entry(AnchorReceipt(outcome, call.agent), call.id, call.agent, status)

LEMMA AnchorEntryIs ==
  ASSUME NEW call, NEW outcome, NEW status
  PROVE  /\ AnchorEntry(call, outcome, status).from.call = call.id
         /\ AnchorEntry(call, outcome, status).from.status = status
         /\ AnchorEntry(call, outcome, status).body.kind = "anchor"
         /\ AnchorEntry(call, outcome, status).body.tool = "anchor"
         /\ AnchorEntry(call, outcome, status).body.outcome = outcome
         /\ AnchorEntry(call, outcome, status).body.issue = None
         /\ AnchorEntry(call, outcome, status).body.approval = None
BY DEF AnchorEntry, Entry, AnchorReceipt, Receipt

LEMMA AnchorAdds ==
  ASSUME NEW call, NEW outcome, NEW status, AnchorStores(call, outcome, status),
         outcome = "reserved" \/ NoOutcome(call.id, ledger)
  PROVE  Adds(call.id)
<1> DEFINE e == AnchorEntry(call, outcome, status)
<1>1. e.from.call = call.id /\ e.body.kind = "anchor" /\ e.body.outcome = outcome
  BY AnchorEntryIs
<1>2. Stores(e)
  BY DEF AnchorStores, AnchorEntry
<1> HIDE DEF e
<1>3. EntryOK(e, allowText)
  BY <1>1 DEF EntryOK
<1>4. QED
  BY <1>1, <1>2, <1>3 DEF Adds

\* An anchor ends, with or without an entry, and nobody is answered.
LEMMA AnchorEnds ==
  ASSUME TypeOK, CallsInv, NEW c \in Callers, calls[c].at # "idle", Goes(c, Idle),
         Adds(calls[c].id), Keeps, Answered
  PROVE  CallStep(c, Idle, calls[c].id)
<1>1. Onward(Idle, calls[c], calls[c].id)
  BY IdleIs DEF Onward
<1>2. CallOK(Idle, allowText', issues', ledger', tsa', tokens', posted')
  BY IdleIs, IdleOK
<1>3. QED
  BY <1>1, <1>2 DEF CallStep

LEMMA AnchorReservesStep ==
  ASSUME TypeOK, CallsInv, NEW c \in Callers, AnchorReserves(c)
  PROVE  \E x, id : CallStep(c, x, id)
<1>0. /\ calls[c] = Idle /\ made' = made + 1 /\ UNCHANGED <<external, anchors, issues, answers>>
  BY DEF AnchorReserves
<1>1. /\ calls[c].at = "idle" /\ made' \in Nat /\ made + 1 \in Nat /\ made <= made'
      /\ NoOutcome(made + 1, ledger) /\ UNCHANGED <<allowText, tsa, issues, tokens, posted, answers>>
  BY <1>0, IdleIs, Counts, FreshId DEF external, anchors
<1> DEFINE next(agent) ==
             [at |-> IF tsa THEN "stamp" ELSE "comment", id |-> made + 1,
              agent |-> AuthenticatedAgent([agent |-> agent, company |-> Company], "receipts:anchor")]
<1>2. PICK agent \in Agents : AnchorStores(next(agent), "reserved", 0) /\ Goes(c, next(agent))
  BY DEF AnchorReserves
<1> DEFINE x == next(agent)
<1>3. AuthenticatedAgent([agent |-> agent, company |-> Company], "receipts:anchor") \in Agents \cup {None}
  BY DEF AuthenticatedAgent
<1>4. x \in AnchorCalls /\ x.id = made + 1 /\ (tsa => x.at = "stamp") /\ x.at \in {"stamp", "comment"}
  BY <1>1, <1>3 DEF AnchorCalls
<1> HIDE DEF x, next
<1>5. AnchorStores(x, "reserved", 0) /\ Goes(c, x)
  BY <1>2 DEF x
<1>6. Adds(made + 1)
  BY <1>4, <1>5, AnchorAdds
<1>7. NoOutcome(made + 1, ledger')
  <2>1. AnchorEntry(x, "reserved", 0).body.outcome = "reserved"
    BY AnchorEntryIs
  <2>2. ledger' = Append(ledger, AnchorEntry(x, "reserved", 0)) /\ ledger \in Seq(Range(ledger))
    BY <1>5 DEF AnchorStores, Stores, AnchorEntry, TypeOK
  <2>3. QED
    BY <1>1, <2>1, <2>2, NoOutcomeStays
<1>8. AnchorOK(x, tsa', tokens', posted', ledger')
  BY <1>1, <1>4, <1>7 DEF AnchorOK
<1>9. CallOK(x, allowText', issues', ledger', tsa', tokens', posted')
  BY <1>4, <1>8, AnchorCallOK
<1>10. Onward(x, calls[c], made + 1)
  BY <1>0, <1>1, <1>4 DEF Onward, AnyCall
<1>11. Keeps /\ Answered
  BY <1>1 DEF Keeps, Answered, Grown, CallsInv
<1>12. QED
  BY <1>5, <1>6, <1>9, <1>10, <1>11 DEF CallStep

LEMMA StampsStep ==
  ASSUME TypeOK, CallsInv, NEW c \in Callers, Stamps(c)
  PROVE  \E x, id : CallStep(c, x, id)
<1> DEFINE call == calls[c]
           x == [call EXCEPT !.at = "comment"]
<1>0. call.at = "stamp" /\ UNCHANGED <<external, posted, issues, answers, made>>
      /\ tokens' \in {tokens, tokens \cup {call.id}}
  BY DEF Stamps
<1>1. call \in AnchorCalls /\ UNCHANGED <<allowText, tsa, issues, posted, answers, made>>
  BY <1>0, CallAt DEF external
<1>2. NoOutcome(call.id, ledger)
  BY <1>1, CallIs DEF AnchorOK
<1>3. Keeps /\ Answered
  BY <1>0, <1>1, Counts DEF Keeps, Answered, Grown, CallsInv
<1>4. CASE tokens' = tokens \cup {call.id} /\ Goes(c, x) /\ UNCHANGED ledger
  <2>1. x \in AnchorCalls /\ x.at = "comment" /\ x.id = call.id
    BY <1>1 DEF AnchorCalls
  <2> HIDE DEF x
  <2>2. AnchorOK(x, tsa', tokens', posted', ledger')
    BY <1>2, <1>4, <2>1 DEF AnchorOK
  <2>3. CallOK(x, allowText', issues', ledger', tsa', tokens', posted')
    BY <2>1, <2>2, AnchorCallOK
  <2>4. Onward(x, call, call.id) /\ Adds(call.id)
    BY <1>0, <1>4, <2>1 DEF Onward, AnyCall, Adds
  <2>5. QED
    BY <1>3, <1>4, <2>3, <2>4 DEF CallStep
<1>5. ASSUME Goes(c, Idle), AnchorStores(call, "error", 502) \/ UNCHANGED ledger
      PROVE  \E y, id : CallStep(c, y, id)
  <2>1. Adds(call.id)
    BY <1>2, <1>5, AnchorAdds DEF Adds
  <2>2. QED
    BY <1>0, <1>3, <1>5, <2>1, AnchorEnds
<1>6. QED
  BY <1>4, <1>5 DEF Stamps

LEMMA CommentsAnchorStep ==
  ASSUME TypeOK, CallsInv, NEW c \in Callers, CommentsAnchor(c)
  PROVE  \E x, id : CallStep(c, x, id)
<1> DEFINE call == calls[c]
           x == [call EXCEPT !.at = "anchored"]
<1>0. call.at = "comment" /\ UNCHANGED <<external, tokens, issues, ledger, answers, made>>
      /\ posted' \in {posted, posted \cup {call.id}}
  BY DEF CommentsAnchor
<1>1. call \in AnchorCalls /\ UNCHANGED <<allowText, tsa, issues, tokens, ledger, answers, made>>
  BY <1>0, CallAt DEF external
<1>2. NoOutcome(call.id, ledger) /\ (tsa => call.id \in tokens)
  BY <1>0, <1>1, CallIs DEF AnchorOK
<1>3. Keeps /\ Answered
  BY <1>0, <1>1, <1>2, Counts DEF Keeps, Answered, Grown, CallsInv
<1>4. Adds(call.id)
  BY <1>1 DEF Adds
<1>5. CASE posted' = posted \cup {call.id} /\ Goes(c, x)
  <2>1. x \in AnchorCalls /\ x.at = "anchored" /\ x.id = call.id
    BY <1>1 DEF AnchorCalls
  <2> HIDE DEF x
  <2>2. AnchorOK(x, tsa', tokens', posted', ledger')
    BY <1>1, <1>2, <1>5, <2>1 DEF AnchorOK
  <2>3. CallOK(x, allowText', issues', ledger', tsa', tokens', posted')
    BY <2>1, <2>2, AnchorCallOK
  <2>4. Onward(x, call, call.id)
    BY <1>0, <2>1 DEF Onward, AnyCall
  <2>5. QED
    BY <1>3, <1>4, <1>5, <2>3, <2>4 DEF CallStep
<1>6. ASSUME Goes(c, Idle) PROVE \E y, id : CallStep(c, y, id)
  BY <1>0, <1>3, <1>4, <1>6, AnchorEnds
<1>7. QED
  BY <1>5, <1>6 DEF CommentsAnchor

LEMMA AnchoredStep ==
  ASSUME TypeOK, CallsInv, NEW c \in Callers, Anchored(c)
  PROVE  \E x, id : CallStep(c, x, id)
<1> DEFINE call == calls[c]
           told == AnchorAnswer(call)
<1>0. call.at = "anchored" /\ Goes(c, Idle) /\ UNCHANGED <<external, anchors, issues, made>>
  BY DEF Anchored
<1>1. call \in AnchorCalls /\ UNCHANGED <<allowText, tsa, issues, tokens, posted, made>>
  BY <1>0, CallAt DEF external, anchors
<1>2. NoOutcome(call.id, ledger) /\ call.id \in posted
  BY <1>0, <1>1, CallIs DEF AnchorOK
<1>3. Keeps
  BY <1>1, Counts DEF Keeps, Grown, CallsInv
<1>4. CASE AnchorStores(call, "performed", 200) /\ answers' \in {answers, answers \cup {told}}
  <2> DEFINE e == AnchorEntry(call, "performed", 200)
  <2>1. ledger' = Append(ledger, e) /\ ledger \in Seq(Range(ledger))
    BY <1>4 DEF AnchorStores, Stores, AnchorEntry, TypeOK
  <2>2. /\ e.from.call = call.id /\ e.body.tool = "anchor" /\ e.body.outcome = "performed"
        /\ e.body.issue = None /\ e.body.approval = None
    BY AnchorEntryIs
  <2> HIDE DEF e
  <2>3. /\ told.call = call.id /\ told.tool = "anchor" /\ told.matter = None /\ told.approval = None
        /\ ~told.text /\ OutcomeOf(told) = "performed"
    BY DEF AnchorAnswer, OutcomeOf
  <2>4. Len(ledger) + 1 \in DOMAIN ledger' /\ ledger'[Len(ledger) + 1] = e
    BY <2>1, AppendIs
  <2>5. Receipted(told, ledger')
    BY <2>2, <2>3, <2>4 DEF Receipted
  <2>6. AnswerOK(told, allowText', issues', ledger', posted')
    BY <1>1, <1>2, <2>3, <2>5 DEF AnswerOK
  <2>7. Answered
    BY <1>4, <2>6 DEF Answered
  <2>8. Adds(call.id)
    BY <1>2, <1>4, AnchorAdds
  <2>9. QED
    BY <1>0, <1>3, <2>7, <2>8, AnchorEnds
<1>5. CASE UNCHANGED <<ledger, answers>>
  <2>1. Answered /\ Adds(call.id)
    BY <1>5 DEF Answered, Adds
  <2>2. QED
    BY <1>0, <1>3, <2>1, AnchorEnds
<1>6. QED
  BY <1>4, <1>5 DEF Anchored

-----------------------------------------------------------------------------
(* What the gate makes of a facade's receipt *)

\* A request is refused at the door, with at most an authorization receipt, or handled.
Refused(answer) ==
  /\ answer.status \in {401, 403, 400}
  /\ answer.receipt # None =>
       /\ answer.receipt.kind = "authorization" /\ answer.receipt.approval = None
       /\ answer.receipt.outcome = "blocked"

LEMMA AdmissionIs ==
  ASSUME NEW identity, NEW path
  PROVE  \/ Passes(Admission(identity, path, policy))
         \/ Refused(Admission(identity, path, policy))
<1>1. \A status \in {401, 403, 400} : Refused(Unreceipted(status)) /\ Unreceipted(status).status = status
  BY DEF Refused, Unreceipted, Answer
<1>2. \A tool, agent : Refused(Answer(403, Receipt("authorization", tool, "blocked", agent)))
  BY DEF Refused, Answer, Receipt
<1>3. Passes(Pass)
  BY DEF Passes, Pass, Answer
<1>4. QED
  BY <1>1, <1>2, <1>3 DEF Admission

LEMMA ServeIs ==
  ASSUME NEW identity, NEW path, NEW body
  PROVE  \/ Refused(Serve(identity, path, body, policy))
         \/ /\ Passes(Admission(identity, path, policy))
            /\ Serve(identity, path, body, policy)
                 = Handle(path, body, AuthenticatedAgent(identity, path), policy)
BY AdmissionIs DEF Serve

LEMMA HandleFacade ==
  ASSUME NEW body, NEW agent
  PROVE  Handle("receipts:facade", body, agent, policy) = PostFacade(body, agent)
BY DEF Handle, Readings

LEMMA PostFacadeIs ==
  ASSUME NEW body, NEW agent
  PROVE  LET answer == PostFacade(body, agent) IN
         \/ answer.status = 200 /\ answer.receipt = FacadeReceipt(body, agent) /\ FacadeAccepted(body, agent)
         \/ /\ answer.status \in {403, 400} /\ answer.receipt.kind = "firm_facade"
            /\ answer.receipt.issue = None /\ answer.receipt.approval = None
            /\ answer.receipt.disclosed = None /\ answer.receipt.outcome = "error"
BY DEF PostFacade, Answer, Receipt

LEMMA FacadeReceiptIs ==
  ASSUME NEW body, NEW agent
  PROVE  LET r == FacadeReceipt(body, agent) IN
         /\ r.kind = "firm_facade" /\ r.tool = body.tool /\ r.outcome = body.outcome
         /\ r.issue = FacadeIssue(body) /\ r.approval = body.approval /\ r.product = body.product
         /\ r.disclosed = body.disclosed /\ r.agent = Sender(agent, body.agent)
BY DEF FacadeReceipt, Receipt

LEMMA BodyIs ==
  ASSUME NEW call
  PROVE  /\ Body(call).tool = call.req.tool /\ Body(call).outcome = call.outcome
         /\ FacadeIssue(Body(call)) = call.matter /\ Body(call).approval = call.approval
         /\ Body(call).product = call.product /\ Body(call).disclosed = call.disclosed
         /\ Body(call).agent = None
BY DEF Body, FacadeIssue

LEMMA RecordsStep ==
  ASSUME TypeOK, CallsInv, NEW c \in Callers, Records(c)
  PROVE  \E x, id : CallStep(c, x, id)
<1> DEFINE call == calls[c]
           answer == Serve(FacadeKey, "receipts:facade", Body(call), policy)
           e == Entry(answer.receipt, call.id, Facade, answer.status)
<1>0. call.at = "record" /\ UNCHANGED <<external, anchors, issues, answers, made>>
  BY DEF Records
<1>1. call \in ToolCalls /\ UNCHANGED <<allowText, tsa, issues, tokens, posted, made, answers>>
  BY <1>0, CallAt DEF external, anchors
<1>2. ToolOK(call, allowText, issues, ledger)
  BY <1>1, CallIs
<1>3. /\ NoOutcome(call.id, ledger) /\ (call.disclosed = "text" => allowText)
      /\ (call.told # None => Truthful(call, issues))
  BY <1>0, <1>2 DEF ToolOK
<1>4. Keeps /\ Answered
  BY <1>1, Counts DEF Keeps, Answered, Grown, CallsInv
<1>5. CASE UNCHANGED ledger /\ Goes(c, AfterRecord(call, 500))
  <2>1. Adds(call.id) /\ Goes(c, Idle)
    BY <1>5 DEF Adds, AfterRecord
  <2>2. QED
    BY <1>0, <1>4, <2>1, AnchorEnds
<1>6. CASE /\ answer.receipt # None /\ Stores(e) /\ Goes(c, AfterRecord(call, answer.status))
  <2>1. e.body = answer.receipt /\ e.from.call = call.id
    BY EntryFrom
  <2>2. PICK agent : Refused(answer) \/ answer = PostFacade(Body(call), agent)
    BY ServeIs, HandleFacade
  <2> HIDE DEF answer, e
  <2>3. \/ /\ answer.status = 200 /\ answer.receipt = FacadeReceipt(Body(call), agent)
        \/ /\ answer.status # 200
           /\ answer.receipt.kind = "firm_facade" => answer.receipt.disclosed = None
    BY <1>6, <2>2, PostFacadeIs DEF Refused
  <2>4. EntryOK(e, allowText)
    <3>1. CASE answer.receipt = FacadeReceipt(Body(call), agent)
      <4>1. e.body.disclosed = call.disclosed
        BY <2>1, <3>1, FacadeReceiptIs, BodyIs
      <4>2. QED
        BY <4>1, <1>3 DEF EntryOK
    <3>2. CASE answer.receipt.kind = "firm_facade" => answer.receipt.disclosed = None
      BY <2>1, <3>2, FacadeAssumption DEF EntryOK
    <3>3. QED
      BY <2>3, <3>1, <3>2
  <2>5. Adds(call.id)
    BY <1>3, <1>6, <2>1, <2>4 DEF Adds
  <2>6. CASE answer.status # 200
    <3>1. Goes(c, Idle)
      BY <1>6, <2>6 DEF AfterRecord
    <3>2. QED
      BY <1>0, <1>4, <2>5, <3>1, AnchorEnds
  <2>7. CASE answer.status = 200
    <3> DEFINE x == [call EXCEPT !.at = "reply"]
    <3>1. Goes(c, x)
      BY <1>6, <2>7 DEF AfterRecord
    <3>2. x \in ToolCalls
      BY <1>1, MovesTyped
    <3>3. /\ x.at = "reply" /\ x.id = call.id /\ x.req = call.req /\ x.approval = call.approval
          /\ x.matter = call.matter /\ x.outcome = call.outcome /\ x.product = call.product
          /\ x.disclosed = call.disclosed /\ x.told = call.told
      BY <1>1, MovedIs DEF Same
    <3> HIDE DEF x
    <3>4. ledger' = Append(ledger, e) /\ ledger \in Seq(Range(ledger))
      BY <1>6 DEF Stores, TypeOK
    <3>5. Len(ledger) + 1 \in DOMAIN ledger' /\ ledger'[Len(ledger) + 1] = e
      BY <3>4, AppendIs
    <3>6. /\ e.body.kind = "firm_facade" /\ e.body.tool = call.req.tool /\ e.body.outcome = call.outcome
          /\ e.body.issue = call.matter /\ e.body.approval = call.approval
          /\ e.body.product = call.product /\ e.body.disclosed = call.disclosed
      BY <2>1, <2>3, <2>7, FacadeReceiptIs, BodyIs
    <3>7. call.outcome # "reserved"
      BY <1>1 DEF ToolCalls
    <3>8. ASSUME call.told # None PROVE Receipted(call.told, ledger')
      <4>1. Truthful(call, issues)
        BY <1>3, <3>8
      <4>2. QED
        BY <2>1, <3>5, <3>6, <3>7, <4>1 DEF Receipted, Truthful
    <3>9. ToolOK(x, allowText, issues, ledger')
      BY <1>3, <3>3, <3>8 DEF ToolOK, Asking, Truthful
    <3>10. CallOK(x, allowText', issues', ledger', tsa', tokens', posted')
      <4>1. CallOK(x, allowText, issues, ledger', tsa', tokens', posted')
        BY <3>2, <3>9, ToolCallOK
      <4>2. QED
        BY <4>1, <1>1
    <3>11. Onward(x, call, call.id)
      BY <1>0, <3>2, <3>3 DEF Onward, AnyCall
    <3>12. QED
      BY <1>4, <2>5, <3>1, <3>10, <3>11 DEF CallStep
  <2>8. QED
    BY <2>6, <2>7
<1>7. QED
  BY <1>5, <1>6 DEF Records

-----------------------------------------------------------------------------
(* Steps of the gate's other clients, the board and the poller, whose      *)
(* entries are of no call.                                                 *)

LEMMA OtherAdds ==
  ASSUME NEW receipt, NEW agent, NEW status, Stores(Entry(receipt, None, agent, status))
  PROVE  Adds(None)
BY EntryFrom DEF Adds, EntryOK

LEMMA OthersStep ==
  ASSUME TypeOK, CallsInv,
         ClientPosts \/ Egress \/ (\E a \in Approvals : Decide(a)) \/ PollReads \/ PollBlocks
  PROVE  OtherStep
<1>1. UNCHANGED <<external, anchors, issues, calls, answers>> /\ (made' = made \/ made' = made + 1)
  BY DEF ClientPosts, Egress, Decide, PollReads, PollBlocks
<1>2. UNCHANGED ledger \/ \E receipt, agent, status : Stores(Entry(receipt, None, agent, status))
  BY DEF ClientPosts, Egress, Decide, PollReads, PollBlocks, PollReceipt
<1>3. Adds(None)
  BY <1>2, OtherAdds DEF Adds
<1>4. Answered
  BY <1>1 DEF Answered
<1>5. Keeps
  BY <1>1, Counts DEF Keeps, Grown, CallsInv, external, anchors
<1>6. QED
  BY <1>1, <1>3, <1>4, <1>5 DEF OtherStep

LEMMA HandlerStep ==
  ASSUME TypeOK, CallsInv, NEW c \in Callers, Handler(c)
  PROVE  \E x, id : CallStep(c, x, id)
BY CallStarts, GuardReadsStep, ListsStep, ReadsDocumentStep, CreatesIssueStep, CreatesApprovalStep,
   RecordsStep, RepliesStep, AnchorReservesStep, StampsStep, CommentsAnchorStep, AnchoredStep DEF Handler

-----------------------------------------------------------------------------
(* The inductive invariant *)

TypeInv == TypeOK /\ IdsOK

LEMMA NoEntries ==
  ASSUME NEW S
  PROVE  <<>> \in Seq(S) /\ DOMAIN <<>> = {}
<1>1. <<>> \in Seq(S) /\ Len(<<>>) = 0
  OBVIOUS
<1>2. DOMAIN <<>> = 1 .. Len(<<>>)
  BY <1>1
<1>3. QED
  BY <1>1, <1>2

LEMMA EmptyLedger ==
  ASSUME Init
  PROVE  ledger \in Seq(Range(ledger)) /\ DOMAIN ledger = {}
<1>1. ledger = <<>>
  BY DEF Init
<1>2. QED
  BY <1>1, NoEntries

LEMMA TypeInit ==
  ASSUME Init
  PROVE  TypeInv
<1>1. allowText \in BOOLEAN /\ tsa \in BOOLEAN
  BY DEF Init, LoadsText
<1>2. policy.grants \in [Agents -> SUBSET Targets]
  <2>1. PICK doc \in Policies : policy = LoadAuthorization(doc)
    BY DEF Init
  <2>2. LoadsAuthorization(doc)
    BY FacadeAssumption
  <2>3. \A agent \in DOMAIN doc.grants : Range(doc.grants[agent]) \subseteq Targets
    BY <2>2 DEF LoadsAuthorization, ParsesAuthorization
  <2>4. Granted(doc.grants) \in [Agents -> SUBSET Targets]
    BY <2>3 DEF Granted
  <2>5. QED
    BY <2>1, <2>4 DEF LoadAuthorization
<1>3. issues \in [Matters -> {None, "another firm", Company}]
  BY DEF Init
<1>4. approvals \in [Approvals -> ApprovalRecords]
  BY DEF Init, ApprovalRecords
<1>5. ledger \in Seq(Range(ledger)) /\ DOMAIN ledger = {}
  BY EmptyLedger
<1>6. calls \in [Callers -> AnyCall] /\ \A c \in Callers : calls[c].at = "idle"
  BY IdleIs DEF Init
<1>7. made \in 0 .. MaxWork
  <2>1. MaxWork \in Nat
    BY FacadeAssumption
  <2>2. made = 0
    BY DEF Init
  <2>3. QED
    BY <2>1, <2>2
<1>8. TypeOK
  BY <1>1, <1>2, <1>3, <1>4, <1>5, <1>6, <1>7 DEF Init, TypeOK, AnyCall, ApprovalRecords
<1>9. QED
  BY <1>6, <1>8 DEF TypeInv, IdsOK

LEMMA CallsInit ==
  ASSUME Init
  PROVE  CallsInv
<1>1. DOMAIN ledger = {} /\ answers = {} /\ posted = {}
  BY EmptyLedger DEF Init
<1>2. \A c \in Callers : calls[c].at = "idle"
  BY IdleIs DEF Init
<1>3. \A c \in Callers : CallOK(calls[c], allowText, issues, ledger, tsa, tokens, posted)
  BY <1>2, IdleOK
<1>4. QED
  BY <1>1, <1>2, <1>3 DEF CallsInv, UniqueIds, OneOutcome

LEMMA TypeStep ==
  ASSUME TypeInv, [Next]_vars
  PROVE  TypeOK'
<1>0. TypeOK /\ IdsOK
  BY DEF TypeInv
<1>1. ASSUME NEW c \in Callers, Handler(c)
      PROVE  TypeOK'
  BY <1>0, <1>1, CallTyped, GuardReadsTyped, ListsTyped, ReadsDocumentTyped, CreatesIssueTyped,
     CreatesApprovalTyped, RecordsTyped, RepliesTyped, AnchorReservesTyped, StampsTyped,
     CommentsAnchorTyped, AnchoredTyped DEF Handler
<1>2. CASE UNCHANGED vars
  BY <1>0, <1>2 DEF TypeOK, vars
<1>3. QED
  BY <1>0, <1>1, <1>2, ClientPostsTyped, EgressTyped, DecideTyped, PollTyped DEF Next

LEMMA CallsStepInv ==
  ASSUME TypeInv, CallsInv, [Next]_vars
  PROVE  IdsOK' /\ CallsInv'
<1>0. TypeOK /\ IdsOK
  BY DEF TypeInv
<1>1. ASSUME NEW c \in Callers, Handler(c)
      PROVE  IdsOK' /\ CallsInv'
  BY <1>0, <1>1, HandlerStep, CallStepKeeps
<1>2. CASE ClientPosts \/ Egress \/ (\E a \in Approvals : Decide(a)) \/ PollReads \/ PollBlocks
  BY <1>0, <1>2, OthersStep, OtherStepKeeps
<1>3. CASE UNCHANGED vars
  <2>1. UNCHANGED <<allowText, tsa, issues, ledger, calls, tokens, posted, answers, made>>
    BY <1>3 DEF vars
  <2>2. IdsOK'
    BY <1>0, <2>1 DEF IdsOK
  <2>3. CallsInv'
    BY <2>1 DEF CallsInv, UniqueIds
  <2>4. QED
    BY <2>2, <2>3
<1>4. QED
  BY <1>1, <1>2, <1>3 DEF Next

\* The invariant the facade's theorems rest on.
LEMMA FacadeInvariant == Spec => [](TypeInv /\ CallsInv)
<1>1. Init => TypeInv /\ CallsInv
  BY TypeInit, CallsInit
<1>2. TypeInv /\ CallsInv /\ [Next]_vars => (TypeInv /\ CallsInv)'
  BY TypeStep, CallsStepInv DEF TypeInv
<1>3. QED
  BY <1>1, <1>2, PTL DEF Spec

\* Every variable keeps its type.
THEOREM TypeCorrect == Spec => []TypeOK
<1>1. TypeInv /\ CallsInv => TypeOK
  BY DEF TypeInv
<1>2. QED
  BY <1>1, FacadeInvariant, PTL

-----------------------------------------------------------------------------
(* The two promises about what a caller was told *)

LEMMA ActivityIs ==
  ASSUME NEW l, NEW m
  PROVE  MR!Bundle(l, m).facadeActivity
           = {i \in DOMAIN l : l[i].body.issue = m /\ l[i].body.kind = "firm_facade"}
BY DEF MR!Bundle, MR!FacadeActivity

\* Whatever a caller was told stands on the ledger, no call has two outcomes, and
\* nothing is posted without the stamp that was asked for.
THEOREM AnswersReceipted == Spec => []AnsweredIsReceipted
<1>1. ASSUME TypeInv, CallsInv
      PROVE  AnsweredIsReceipted
  <2>1. ASSUME NEW told \in answers
        PROVE  \E i \in Of(told.call) :
                 /\ ledger[i].body.tool = told.tool /\ ledger[i].body.outcome = OutcomeOf(told)
                 /\ ledger[i].body.issue = told.matter /\ ledger[i].body.approval = told.approval
                 /\ told.tool = "anchor" => told.call \in posted
    <3>1. AnswerOK(told, allowText, issues, ledger, posted)
      BY <1>1 DEF CallsInv
    <3>2. QED
      BY <3>1 DEF AnswerOK, Receipted, Of
  <2>2. ASSUME NEW call \in 1 .. made
        PROVE  Cardinality(Of(call)) <= 1
    <3>1. call # None
      BY FacadeAssumption, Counts, <1>1 DEF TypeInv
    <3>2. \A i, j \in Of(call) : i = j
      BY <1>1, <3>1 DEF CallsInv, OneOutcome, Of
    <3>3. CASE Of(call) = {}
      BY <3>3, FS_EmptySet
    <3>4. CASE Of(call) # {}
      <4>1. PICK i \in Of(call) : Of(call) = {i}
        BY <3>2, <3>4
      <4>2. Cardinality({i}) = 1
        BY FS_Singleton
      <4>3. QED
        BY <4>1, <4>2
    <3>5. QED
      BY <3>3, <3>4
  <2>3. QED
    BY <1>1, <2>1, <2>2 DEF AnsweredIsReceipted, CallsInv
<1>2. TypeInv /\ CallsInv => AnsweredIsReceipted
  BY <1>1
<1>3. QED
  BY <1>2, FacadeInvariant, PTL

\* Text that left the firm is on the report of its matter, it left under an open policy,
\* and no receipt of the facade claims a disclosure under a closed one.
THEOREM DisclosuresReported == Spec => []DisclosedIsOnReport
<1>1. ASSUME TypeInv, CallsInv
      PROVE  DisclosedIsOnReport
  <2>1. ASSUME NEW told \in answers, told.text
        PROVE  /\ allowText /\ issues[told.matter] = Company
               /\ \E i \in MR!Bundle(ledger, told.matter).facadeActivity :
                    /\ ledger[i].from.call = told.call
                    /\ ledger[i].body.disclosed = "text" /\ ledger[i].body.product = told.product
    <3>1. AnswerOK(told, allowText, issues, ledger, posted)
      BY <1>1 DEF CallsInv
    <3>2. QED
      BY <2>1, <3>1, ActivityIs DEF AnswerOK, Receipted, Ours
  <2>2. ASSUME NEW m \in Matters, NEW i \in MR!Bundle(ledger, m).facadeActivity,
               ledger[i].body.disclosed = "text" /\ ledger[i].from.call # None
        PROVE  allowText
    <3>1. i \in DOMAIN ledger /\ ledger[i].body.kind = "firm_facade"
      BY ActivityIs
    <3>2. QED
      BY <1>1, <2>2, <3>1 DEF CallsInv, EntryOK
  <2>3. QED
    BY <2>1, <2>2 DEF DisclosedIsOnReport
<1>2. TypeInv /\ CallsInv => DisclosedIsOnReport
  BY <1>1
<1>3. QED
  BY <1>2, FacadeInvariant, PTL

-----------------------------------------------------------------------------
(* The receipts of the gate's routes *)

\* An entry of the ledger was there, or is the one a step stored.
LEMMA StoredEntries ==
  ASSUME TypeOK, NEW e, Stores(e), NEW i \in DOMAIN ledger'
  PROVE  (i \in DOMAIN ledger /\ ledger'[i] = ledger[i]) \/ ledger'[i] = e
<1>1. ledger' = Append(ledger, e) /\ ledger \in Seq(Range(ledger))
  BY DEF Stores, TypeOK
<1>2. QED
  BY <1>1, AppendIs

LEMMA HandleIs ==
  ASSUME NEW path, NEW body, NEW agent
  PROVE  LET answer == Handle(path, body, agent, policy) IN
         \/ path \in Readings /\ answer = GetRoute(path, body)
         \/ path \notin Readings /\ \/ answer = PostFacade(body, agent)
                                    \/ answer = PostDeadline(body, agent)
                                    \/ path = "quality:citation" /\ answer = PostCitation(body, agent)
                                    \/ answer = PostAuthority(body, agent)
                                    \/ answer = PostClassification(body, agent)
                                    \/ \E tool : answer = EgressPrelude(tool, body, agent, policy)
<1> DEFINE chosen == CHOOSE tool \in EgressTools : path = EgressTarget(tool)
           answer == Handle(path, body, agent, policy)
<1>1. answer = CASE path \in Readings                     -> GetRoute(path, body)
                 [] path = "receipts:facade"              -> PostFacade(body, agent)
                 [] path = "receipts:deadline"            -> PostDeadline(body, agent)
                 [] path = "quality:citation"             -> PostCitation(body, agent)
                 [] path = "quality:authority"            -> PostAuthority(body, agent)
                 [] path = "matters:classification:write" -> PostClassification(body, agent)
                 [] OTHER -> EgressPrelude(chosen, body, agent, policy)
  BY DEF Handle
<1> HIDE DEF chosen, answer
<1>2. CASE path \in Readings
  <2>1. path \notin {"receipts:facade", "receipts:deadline", "quality:citation",
                     "quality:authority", "matters:classification:write"}
    BY <1>2 DEF Readings
  <2>2. answer = GetRoute(path, body)
    BY <1>1, <1>2, <2>1
  <2>3. QED
    BY <1>2, <2>2 DEF answer
<1>3. CASE path \notin Readings
  <2>1. \/ answer = PostFacade(body, agent)
        \/ answer = PostDeadline(body, agent)
        \/ path = "quality:citation" /\ answer = PostCitation(body, agent)
        \/ answer = PostAuthority(body, agent)
        \/ answer = PostClassification(body, agent)
        \/ answer = EgressPrelude(chosen, body, agent, policy)
    BY <1>1, <1>3
  <2>2. QED
    BY <1>3, <2>1 DEF answer
<1>4. QED
  BY <1>2, <1>3

LEMMA GetRouteIs ==
  ASSUME NEW path, NEW body
  PROVE  GetRoute(path, body).receipt = None
BY DEF GetRoute, Unreceipted, Answer

LEMMA PreludeIs ==
  ASSUME NEW tool, NEW body, NEW agent
  PROVE  LET answer == EgressPrelude(tool, body, agent, policy) IN
         answer.receipt # None =>
           answer.receipt.kind \in {"egress", "authorization"} /\ answer.receipt.approval = None
BY DEF EgressPrelude, Answer, Receipt, Pass

LEMMA DeadlineIs ==
  ASSUME NEW body, NEW agent
  PROVE  LET answer == PostDeadline(body, agent) IN
         /\ answer.receipt.kind = "deadline" /\ answer.receipt.approval = None
         /\ answer.receipt.issue # None => answer.status = 200 /\ answer.receipt.agent = agent
BY DEF PostDeadline, Answer, Receipt

LEMMA CitationIs ==
  ASSUME NEW body, NEW agent, body.verdict \in {"ok", "fails", "throws"}
  PROVE  LET answer == PostCitation(body, agent) IN
         /\ answer.receipt.kind = "quality" /\ answer.receipt.tool = "citation_verification"
         /\ answer.receipt.approval = None
         /\ answer.receipt.issue # None =>
              /\ answer.status \in {200, 422} /\ ~Mismatch(agent, body.agent)
              /\ answer.receipt.agent = Sender(agent, body.agent)
BY DEF PostCitation, Answer, Receipt

LEMMA AuthorityIs ==
  ASSUME NEW body, NEW agent
  PROVE  LET answer == PostAuthority(body, agent) IN
         /\ answer.receipt.kind = "quality" /\ answer.receipt.tool = "authority_provenance"
         /\ answer.receipt.approval = None /\ answer.receipt.issue = None
         /\ answer.receipt.outcome = "performed" => answer.status = 200 /\ answer.receipt.agent = agent
BY DEF PostAuthority, Answer, Receipt

LEMMA ClassificationIs ==
  ASSUME NEW body, NEW agent
  PROVE  LET answer == PostClassification(body, agent) IN
         /\ answer.receipt.kind = "quality" /\ answer.receipt.tool = "matter_classification"
         /\ answer.receipt.approval = None
BY DEF PostClassification, Answer, Receipt

\* No route but the egress ones names an approval, except that a facade's request does.
LEMMA RouteAttestsNothing ==
  ASSUME NEW path, NEW body, NEW agent,
         path = "quality:citation" => body.verdict \in {"ok", "fails", "throws"}
  PROVE  LET answer == Handle(path, body, agent, policy) IN
         answer.receipt # None => \/ answer.receipt.kind = "firm_facade"
                                  \/ answer.receipt.approval = None
<1> DEFINE answer == Handle(path, body, agent, policy)
<1>1. CASE answer = GetRoute(path, body)
  BY <1>1, GetRouteIs
<1>2. CASE answer = PostFacade(body, agent)
  BY <1>2, PostFacadeIs, FacadeReceiptIs
<1>3. CASE answer = PostDeadline(body, agent)
  BY <1>3, DeadlineIs
<1>4. CASE path = "quality:citation" /\ answer = PostCitation(body, agent)
  BY <1>4, CitationIs
<1>5. CASE answer = PostAuthority(body, agent)
  BY <1>5, AuthorityIs
<1>6. CASE answer = PostClassification(body, agent)
  BY <1>6, ClassificationIs
<1>7. ASSUME NEW tool, answer = EgressPrelude(tool, body, agent, policy)
      PROVE  answer.receipt # None => answer.receipt.approval = None
  BY <1>7, PreludeIs
<1>8. QED
  BY <1>1, <1>2, <1>3, <1>4, <1>5, <1>6, <1>7, HandleIs

LEMMA ServeAttestsNothing ==
  ASSUME NEW identity, NEW path, NEW body,
         path = "quality:citation" => body.verdict \in {"ok", "fails", "throws"}
  PROVE  LET answer == Serve(identity, path, body, policy) IN
         answer.receipt # None => ~MR!Attests(answer.receipt)
<1> DEFINE answer == Serve(identity, path, body, policy)
<1>1. CASE Refused(answer)
  BY <1>1 DEF Refused, MR!Attests
<1>2. CASE answer = Handle(path, body, AuthenticatedAgent(identity, path), policy)
  <2>1. answer.receipt # None => answer.receipt.kind = "firm_facade" \/ answer.receipt.approval = None
    BY <1>2, RouteAttestsNothing
  <2>2. QED
    BY <2>1 DEF MR!Attests
<1>3. QED
  BY <1>1, <1>2, ServeIs

-----------------------------------------------------------------------------
(* A request for an approval is no attestation.  An approval's source is   *)
(* settled when it is opened and its decision is final, so an entry that   *)
(* attests keeps what it had when it was written.                          *)

AttestOK(e, apps) ==
  MR!Attests(e.body) =>
    LET a == e.body.approval IN
    \/ e.from.status = 200 /\ e.body.kind = "egress"
    \/ a \in Approvals => \/ apps[a].source = "egress" /\ apps[a].status # "none"
                          \/ apps[a].status = "rejected"

AttestInv ==
  /\ \A i \in DOMAIN ledger : AttestOK(ledger[i], approvals)
  /\ poller # None => poller \in Approvals /\ approvals[poller].status = "rejected"

\* What a step may do to an approval: open it, or decide it.
Moves(a, apps, apps2) ==
  \/ apps2[a] = apps[a]
  \/ apps[a].status = "none"
  \/ /\ apps[a].status = "pending" /\ apps2[a].source = apps[a].source
     /\ apps2[a].status # "none"

LEMMA OpenedMoves ==
  ASSUME TypeOK, NEW a \in Free, NEW m, NEW source, Opened(a, m, source)
  PROVE  \A b \in Approvals : Moves(b, approvals, approvals')
<1>1. approvals \in [Approvals -> ApprovalRecords] /\ a \in Approvals /\ approvals[a].status = "none"
  BY DEF TypeOK, ApprovalRecords, Free
<1>2. QED
  BY <1>1 DEF Opened, Moves

LEMMA DecideMoves ==
  ASSUME TypeOK, NEW a \in Approvals, Decide(a)
  PROVE  \A b \in Approvals : Moves(b, approvals, approvals')
<1>1. approvals \in [Approvals -> ApprovalRecords] /\ approvals[a].status = "pending"
  BY DEF TypeOK, ApprovalRecords, Decide
<1>2. PICK status \in Decided : approvals' = [approvals EXCEPT ![a].status = status]
  BY DEF Decide
<1>3. approvals'[a] = [approvals[a] EXCEPT !.status = status]
  BY <1>1, <1>2
<1>4. approvals[a] \in ApprovalRecords
  BY <1>1
<1>5. approvals'[a].source = approvals[a].source /\ approvals'[a].status = status
  BY <1>3, <1>4 DEF ApprovalRecords
<1>6. status # "none"
  BY DEF Decided
<1>7. \A b \in Approvals \ {a} : approvals'[b] = approvals[b]
  BY <1>1, <1>2
<1>8. QED
  BY <1>1, <1>5, <1>6, <1>7 DEF Moves

LEMMA ApprovalsMove ==
  ASSUME TypeOK, [Next]_vars
  PROVE  \A a \in Approvals : Moves(a, approvals, approvals')
<1>1. CASE UNCHANGED approvals
  BY <1>1 DEF Moves
<1>2. CASE \E a \in Free : \E m, source : Opened(a, m, source)
  BY <1>2, OpenedMoves
<1>3. CASE \E a \in Approvals : Decide(a)
  BY <1>3, DecideMoves
<1>4. ASSUME NEW c \in Callers, Handler(c)
      PROVE  UNCHANGED approvals \/ \E a \in Free : \E m, source : Opened(a, m, source)
  BY <1>4 DEF Handler, Call, GuardReads, Lists, ReadsDocument, CreatesIssue, CreatesApproval,
     Records, Replies, AnchorReserves, Stamps, CommentsAnchor, Anchored, Quiet
<1>5. ASSUME ClientPosts \/ Egress \/ PollReads \/ PollBlocks \/ UNCHANGED vars
      PROVE  UNCHANGED approvals \/ \E a \in Free : \E m, source : Opened(a, m, source)
  BY <1>5 DEF ClientPosts, Egress, PollReads, PollBlocks, vars
<1>6. QED
  BY <1>1, <1>2, <1>3, <1>4, <1>5 DEF Next

LEMMA AttestStays ==
  ASSUME NEW e, NEW apps, NEW apps2, AttestOK(e, apps), \A a \in Approvals : Moves(a, apps, apps2)
  PROVE  AttestOK(e, apps2)
<1>1. SUFFICES ASSUME MR!Attests(e.body), e.body.approval \in Approvals,
                      ~(e.from.status = 200 /\ e.body.kind = "egress")
               PROVE  \/ /\ apps2[e.body.approval].source = "egress"
                         /\ apps2[e.body.approval].status # "none"
                      \/ apps2[e.body.approval].status = "rejected"
  BY DEF AttestOK
<1>2. \/ apps[e.body.approval].source = "egress" /\ apps[e.body.approval].status # "none"
      \/ apps[e.body.approval].status = "rejected"
  BY <1>1 DEF AttestOK
<1>3. QED
  BY <1>1, <1>2 DEF Moves

\* What a step writes attests nothing that was not decided.
AttestAdds ==
  \A i \in DOMAIN ledger' :
    (i \in DOMAIN ledger /\ ledger'[i] = ledger[i]) \/ AttestOK(ledger'[i], approvals')

LEMMA AttestStores ==
  ASSUME TypeOK, NEW e, Stores(e), AttestOK(e, approvals')
  PROVE  AttestAdds
BY StoredEntries DEF AttestAdds

LEMMA SilentAttests ==
  ASSUME UNCHANGED ledger
  PROVE  AttestAdds
BY DEF AttestAdds

LEMMA AnchorAttests ==
  ASSUME TypeOK, NEW call, NEW outcome, NEW status, AnchorStores(call, outcome, status)
  PROVE  AttestAdds
<1> DEFINE e == AnchorEntry(call, outcome, status)
<1>1. Stores(e) /\ e.body.approval = None
  BY AnchorEntryIs DEF AnchorStores, AnchorEntry
<1>2. AttestOK(e, approvals')
  BY <1>1 DEF AttestOK, MR!Attests
<1>3. QED
  BY <1>1, <1>2, AttestStores

LEMMA HandlerAttests ==
  ASSUME TypeOK, NEW c \in Callers, Handler(c)
  PROVE  AttestAdds
<1>1. CASE Records(c)
  <2> DEFINE answer == Serve(FacadeKey, "receipts:facade", Body(calls[c]), policy)
             e == Entry(answer.receipt, calls[c].id, Facade, answer.status)
  <2>1. UNCHANGED ledger \/ (answer.receipt # None /\ Stores(e))
    BY <1>1 DEF Records
  <2>2. ASSUME answer.receipt # None PROVE AttestOK(e, approvals')
    <3>1. ~MR!Attests(answer.receipt)
      BY <2>2, ServeAttestsNothing
    <3>2. e.body = answer.receipt
      BY EntryFrom
    <3>3. QED
      BY <3>1, <3>2 DEF AttestOK
  <2>3. QED
    BY <2>1, <2>2, AttestStores, SilentAttests
<1>2. ASSUME AnchorReserves(c) \/ Stamps(c) \/ Anchored(c)
      PROVE  AttestAdds
  <2>1. UNCHANGED ledger \/ \E call, outcome, status : AnchorStores(call, outcome, status)
    BY <1>2 DEF AnchorReserves, Stamps, Anchored
  <2>2. QED
    BY <2>1, AnchorAttests, SilentAttests
<1>3. ASSUME Call(c) \/ GuardReads(c) \/ Lists(c) \/ ReadsDocument(c) \/ CreatesIssue(c)
               \/ CreatesApproval(c) \/ Replies(c) \/ CommentsAnchor(c)
      PROVE  AttestAdds
  <2>1. UNCHANGED ledger
    BY <1>3 DEF Call, GuardReads, Lists, ReadsDocument, CreatesIssue, CreatesApproval, Replies,
       CommentsAnchor, Quiet
  <2>2. QED
    BY <2>1, SilentAttests
<1>4. QED
  BY <1>1, <1>2, <1>3 DEF Handler

LEMMA ClientAttests ==
  ASSUME TypeOK, ClientPosts
  PROVE  AttestAdds
<1>1. PICK post \in Posts :
        LET answer == Serve(post.identity, post.path, post.body, policy) IN
        /\ answer.receipt # None
        /\ Stores(Entry(answer.receipt, None, post.identity.agent, answer.status))
  BY DEF ClientPosts
<1> DEFINE answer == Serve(post.identity, post.path, post.body, policy)
           e == Entry(answer.receipt, None, post.identity.agent, answer.status)
<1>2. post.path = "quality:citation" => post.body.verdict \in {"ok", "fails", "throws"}
  BY FacadeAssumption
<1>3. ~MR!Attests(answer.receipt)
  BY <1>1, <1>2, ServeAttestsNothing
<1>4. e.body = answer.receipt
  BY EntryFrom
<1>5. AttestOK(e, approvals')
  BY <1>3, <1>4 DEF AttestOK
<1>6. QED
  BY <1>1, <1>5, AttestStores

LEMMA EgressReceiptIs ==
  ASSUME NEW m, NEW outcome, NEW approval
  PROVE  LET r == EgressReceipt(m, outcome, approval) IN
         r.kind = "egress" /\ r.approval = approval
BY DEF EgressReceipt, Receipt

LEMMA EgressAttests ==
  ASSUME TypeOK, Egress
  PROVE  AttestAdds
<1>1. CASE \E m, outcome, claimed : Stores(Entry(EgressReceipt(m, outcome, claimed), None, Facade, 200))
  <2>1. PICK m, outcome, claimed : Stores(Entry(EgressReceipt(m, outcome, claimed), None, Facade, 200))
    BY <1>1
  <2> DEFINE e == Entry(EgressReceipt(m, outcome, claimed), None, Facade, 200)
  <2>2. e.body.kind = "egress" /\ e.from.status = 200
    BY EntryFrom, EgressReceiptIs
  <2>3. AttestOK(e, approvals')
    BY <2>2 DEF AttestOK
  <2>4. QED
    BY <2>1, <2>3, AttestStores
<1>2. CASE \E m, a : /\ a \in Approvals /\ Opened(a, m, "egress")
                     /\ Stores(Entry(EgressReceipt(m, "pending", a), None, Facade, 202))
  <2>1. PICK m, a : /\ a \in Approvals /\ Opened(a, m, "egress")
                    /\ Stores(Entry(EgressReceipt(m, "pending", a), None, Facade, 202))
    BY <1>2
  <2> DEFINE e == Entry(EgressReceipt(m, "pending", a), None, Facade, 202)
  <2>2. e.body.approval = a
    BY EntryFrom, EgressReceiptIs
  <2>3. approvals'[a] = [status |-> "pending", matter |-> m, source |-> "egress"]
    BY <2>1 DEF Opened, TypeOK
  <2>4. AttestOK(e, approvals')
    BY <2>2, <2>3 DEF AttestOK
  <2>5. QED
    BY <2>1, <2>4, AttestStores
<1>3. QED
  BY <1>1, <1>2 DEF Egress, Free

LEMMA PollReceiptIs ==
  ASSUME NEW a, NEW outcome
  PROVE  PollReceipt(a, outcome).body.approval = a /\ PollReceipt(a, outcome).body.kind = "egress"
BY DEF PollReceipt, Entry, Receipt

LEMMA PollAttests ==
  ASSUME TypeOK, AttestInv, PollReads \/ PollBlocks
  PROVE  AttestAdds /\ (poller' # None => poller' \in Approvals /\ approvals'[poller'].status = "rejected")
<1>1. UNCHANGED approvals
  BY DEF PollReads, PollBlocks
<1>2. ASSUME NEW a \in Approvals, approvals[a].status = "rejected", NEW outcome,
             Stores(PollReceipt(a, outcome))
      PROVE  AttestAdds
  <2>1. AttestOK(PollReceipt(a, outcome), approvals')
    BY <1>1, <1>2, PollReceiptIs DEF AttestOK
  <2>2. QED
    BY <1>2, <2>1, AttestStores
<1>3. CASE PollReads
  <2>1. PICK a \in Unresolved :
          /\ approvals[a].status = "rejected"
          /\ \/ Stores(PollReceipt(a, "reserved")) /\ poller' = a
             \/ Stores(PollReceipt(a, "blocked")) /\ UNCHANGED poller
    BY <1>3 DEF PollReads
  <2>2. a \in Approvals
    BY DEF Unresolved
  <2>3. AttestAdds
    BY <1>2, <2>1, <2>2
  <2>4. QED
    BY <1>1, <2>1, <2>2, <2>3 DEF AttestInv
<1>4. CASE PollBlocks
  <2>1. poller # None /\ poller' = None
        /\ (UNCHANGED ledger \/ Stores(PollReceipt(poller, "blocked")))
    BY <1>4 DEF PollBlocks
  <2>2. AttestAdds
    BY <1>2, <2>1, SilentAttests DEF AttestInv
  <2>3. QED
    BY <2>1, <2>2
<1>5. QED
  BY <1>3, <1>4

LEMMA AttestStep ==
  ASSUME TypeOK, AttestInv, [Next]_vars
  PROVE  AttestInv'
<1>1. AttestAdds /\ (poller' # None => poller' \in Approvals /\ approvals'[poller'].status = "rejected")
  <2>1. CASE PollReads \/ PollBlocks
    BY <2>1, PollAttests
  <2>2. ASSUME UNCHANGED poller
        PROVE  poller' # None => poller' \in Approvals /\ approvals'[poller'].status = "rejected"
    BY <2>2, ApprovalsMove DEF AttestInv, Moves
  <2>3. ASSUME NEW c \in Callers, Handler(c) PROVE UNCHANGED poller
    BY <2>3 DEF Handler, Call, GuardReads, Lists, ReadsDocument, CreatesIssue, CreatesApproval,
       Records, Replies, AnchorReserves, Stamps, CommentsAnchor, Anchored, Quiet
  <2>4. ASSUME ClientPosts \/ Egress \/ (\E a \in Approvals : Decide(a)) \/ UNCHANGED vars
        PROVE  UNCHANGED poller
    BY <2>4 DEF ClientPosts, Egress, Decide, vars
  <2>5. ASSUME (\E a \in Approvals : Decide(a)) \/ UNCHANGED vars PROVE AttestAdds
    BY <2>5, SilentAttests DEF Decide, vars
  <2>6. QED
    BY <2>1, <2>2, <2>3, <2>4, <2>5, HandlerAttests, ClientAttests, EgressAttests DEF Next
<1>2. \A i \in DOMAIN ledger : AttestOK(ledger[i], approvals')
  BY ApprovalsMove, AttestStays DEF AttestInv
<1>3. \A i \in DOMAIN ledger' : AttestOK(ledger'[i], approvals')
  BY <1>1, <1>2 DEF AttestAdds
<1>4. QED
  BY <1>1, <1>3 DEF AttestInv

LEMMA AttestationIs ==
  ASSUME NEW l, NEW m
  PROVE  MR!Bundle(l, m).attestations = {i \in DOMAIN l : l[i].body.issue = m /\ MR!Attests(l[i].body)}
BY DEF MR!Bundle

\* An approval the facade asked for, and the board has not decided on, is no attestation
\* of a receipt the facade or the poller wrote.
THEOREM RequestsAttestNothing == Spec => []RequestIsNoAttestation
<1>1. Init => AttestInv
  BY EmptyLedger DEF AttestInv, Init
<1>2. TypeOK /\ AttestInv /\ [Next]_vars => AttestInv'
  BY AttestStep
<1>3. AttestInv => RequestIsNoAttestation
  BY AttestationIs DEF AttestInv, AttestOK, RequestIsNoAttestation
<1>4. QED
  BY <1>1, <1>2, <1>3, TypeCorrect, PTL DEF Spec

-----------------------------------------------------------------------------
(* The sections that vouch list what was accepted, under the name of who   *)
(* presented the key.  Only receipts that name a matter are listed, but    *)
(* for the registrations, and a refused request names none.                *)

Vouches(r) ==
  \/ r.issue # None /\ (MR!FacadeActivity(r) \/ MR!ComputedDeadline(r) \/ MR!CitationVerified(r))
  \/ MR!AuthorityRegistration(r)

VouchOK(e) ==
  Vouches(e.body) => e.from.status \in {200, 422} /\ e.body.agent = e.from.agent

VouchInv == \A i \in DOMAIN ledger : VouchOK(ledger[i])

LEMMA VouchKinds ==
  ASSUME NEW r, r.kind \notin {"firm_facade", "deadline", "quality"}
  PROVE  ~Vouches(r)
BY DEF Vouches, MR!FacadeActivity, MR!ComputedDeadline, MR!CitationVerified, MR!AuthorityRegistration

\* With authentication on, who comes past the door has a key of the firm's.
LEMMA AdmittedHasKey ==
  ASSUME RequireAuth, NEW identity, NEW path, Passes(Admission(identity, path, policy))
  PROVE  \/ path \in Readings
         \/ /\ identity # None /\ identity.agent # Malformed
            /\ AuthenticatedAgent(identity, path) = identity.agent
<1>1. CASE path \in {"health", "ready"}
  BY <1>1 DEF Readings
<1>2. CASE path \notin {"health", "ready"}
  <2>1. RouteKind(path) # "public"
    BY <1>2 DEF RouteKind
  <2>2. \A status \in {401, 403, 400} : ~Passes(Unreceipted(status))
    BY DEF Passes, Unreceipted, Answer
  <2>3. identity # None /\ identity.agent # Malformed
    BY <2>1, <2>2 DEF Admission, Valid
  <2>4. AuthenticatedAgent(identity, path) = identity.agent
    BY <2>1 DEF AuthenticatedAgent
  <2>5. QED
    BY <2>3, <2>4
<1>3. QED
  BY <1>1, <1>2

\* What a route writes for an authenticated agent vouches under that agent's name.
LEMMA RouteVouches ==
  ASSUME NEW path, NEW body, NEW agent, agent # None,
         path = "quality:citation" => body.verdict \in {"ok", "fails", "throws"}
  PROVE  LET answer == Handle(path, body, agent, policy) IN
         (answer.receipt # None /\ Vouches(answer.receipt)) =>
           answer.status \in {200, 422} /\ answer.receipt.agent = agent
<1> DEFINE answer == Handle(path, body, agent, policy)
           r == answer.receipt
           Fine == (r # None /\ Vouches(r)) => answer.status \in {200, 422} /\ r.agent = agent
<1>0. \A claimed : Sender(agent, claimed) = agent
  BY DEF Sender
<1>1. CASE answer = GetRoute(path, body)
  <2>1. Fine
    BY <1>1, GetRouteIs
  <2>2. QED
    BY <2>1
<1>2. CASE answer = PostFacade(body, agent)
  <2>1. \/ answer.status = 200 /\ r = FacadeReceipt(body, agent)
        \/ r.kind = "firm_facade" /\ r.issue = None
    BY <1>2, PostFacadeIs
  <2>2. FacadeReceipt(body, agent).agent = agent
    BY <1>0, FacadeReceiptIs
  <2>3. r.kind = "firm_facade" /\ r.issue = None => ~Vouches(r)
    BY DEF Vouches, MR!FacadeActivity, MR!ComputedDeadline, MR!CitationVerified, MR!AuthorityRegistration
  <2>4. Fine
    BY <2>1, <2>2, <2>3
  <2>5. QED
    BY <2>4
<1>3. CASE answer = PostDeadline(body, agent)
  <2>1. r.kind = "deadline" /\ (r.issue # None => answer.status = 200 /\ r.agent = agent)
    BY <1>3, DeadlineIs
  <2>2. Fine
    BY <2>1 DEF Vouches, MR!AuthorityRegistration
  <2>3. QED
    BY <2>2
<1>4. CASE path = "quality:citation" /\ answer = PostCitation(body, agent)
  <2>1. r.kind = "quality" /\ r.tool = "citation_verification"
        /\ (r.issue # None => answer.status \in {200, 422} /\ r.agent = agent)
    BY <1>0, <1>4, CitationIs
  <2>2. Fine
    BY <2>1 DEF Vouches, MR!AuthorityRegistration
  <2>3. QED
    BY <2>2
<1>5. CASE answer = PostAuthority(body, agent)
  <2>1. /\ r.kind = "quality" /\ r.tool = "authority_provenance"
        /\ (r.outcome = "performed" => answer.status = 200 /\ r.agent = agent)
    BY <1>5, AuthorityIs
  <2>2. Fine
    BY <2>1 DEF Vouches, MR!FacadeActivity, MR!ComputedDeadline, MR!CitationVerified, MR!AuthorityRegistration
  <2>3. QED
    BY <2>2
<1>6. CASE answer = PostClassification(body, agent)
  <2>1. r.kind = "quality" /\ r.tool = "matter_classification"
    BY <1>6, ClassificationIs
  <2>2. Fine
    BY <2>1 DEF Vouches, MR!FacadeActivity, MR!ComputedDeadline, MR!CitationVerified, MR!AuthorityRegistration
  <2>3. QED
    BY <2>2
<1>7. ASSUME NEW tool, answer = EgressPrelude(tool, body, agent, policy)
      PROVE  Fine
  <2>1. r # None => r.kind \in {"egress", "authorization"}
    BY <1>7, PreludeIs
  <2>2. QED
    BY <2>1, VouchKinds
<1>8. QED
  BY <1>1, <1>2, <1>3, <1>4, <1>5, <1>6, <1>7, HandleIs

LEMMA ServeVouches ==
  ASSUME RequireAuth, NEW identity, NEW path, NEW body,
         identity = None \/ identity.agent \in Agents \cup {Malformed},
         path = "quality:citation" => body.verdict \in {"ok", "fails", "throws"}
  PROVE  LET answer == Serve(identity, path, body, policy) IN
         (answer.receipt # None /\ Vouches(answer.receipt)) =>
           answer.status \in {200, 422} /\ answer.receipt.agent = identity.agent
<1> DEFINE agent == AuthenticatedAgent(identity, path)
           answer == Serve(identity, path, body, policy)
           Fine == (answer.receipt # None /\ Vouches(answer.receipt)) =>
                     answer.status \in {200, 422} /\ answer.receipt.agent = identity.agent
<1>1. CASE Refused(answer)
  <2>1. Fine
    BY <1>1, VouchKinds DEF Refused
  <2>2. QED
    BY <2>1
<1>2. CASE Passes(Admission(identity, path, policy)) /\ answer = Handle(path, body, agent, policy)
  <2>1. CASE path \in Readings
    <3>1. answer = GetRoute(path, body)
      BY <1>2, <2>1, HandleIs
    <3>2. Fine
      BY <3>1, GetRouteIs
    <3>3. QED
      BY <3>2
  <2>2. CASE path \notin Readings
    <3>1. agent = identity.agent /\ agent # None
      BY <1>2, <2>2, AdmittedHasKey, FacadeAssumption
    <3>2. Fine
      BY <1>2, <3>1, RouteVouches
    <3>3. QED
      BY <3>2
  <2>3. QED
    BY <2>1, <2>2
<1>3. QED
  BY <1>1, <1>2, ServeIs

VouchAdds ==
  \A i \in DOMAIN ledger' :
    (i \in DOMAIN ledger /\ ledger'[i] = ledger[i]) \/ VouchOK(ledger'[i])

LEMMA VouchStores ==
  ASSUME TypeOK, NEW e, Stores(e), VouchOK(e)
  PROVE  VouchAdds
BY StoredEntries DEF VouchAdds

LEMMA SilentVouches ==
  ASSUME UNCHANGED ledger
  PROVE  VouchAdds
BY DEF VouchAdds

LEMMA ServedVouches ==
  ASSUME RequireAuth, TypeOK, NEW identity, NEW path, NEW body, NEW call, NEW agent,
         identity = None \/ identity.agent \in Agents \cup {Malformed}, agent = identity.agent,
         path = "quality:citation" => body.verdict \in {"ok", "fails", "throws"},
         LET answer == Serve(identity, path, body, policy) IN
         answer.receipt # None /\ Stores(Entry(answer.receipt, call, agent, answer.status))
  PROVE  VouchAdds
<1> DEFINE answer == Serve(identity, path, body, policy)
           e == Entry(answer.receipt, call, agent, answer.status)
<1>1. e.body = answer.receipt /\ e.from.status = answer.status /\ e.from.agent = agent
  BY EntryFrom
<1>2. Vouches(answer.receipt) => answer.status \in {200, 422} /\ answer.receipt.agent = agent
  BY ServeVouches
<1>3. VouchOK(e)
  BY <1>1, <1>2 DEF VouchOK
<1>4. QED
  BY <1>3, VouchStores

LEMMA AnchorVouches ==
  ASSUME TypeOK, NEW call, NEW outcome, NEW status, AnchorStores(call, outcome, status)
  PROVE  VouchAdds
<1> DEFINE e == AnchorEntry(call, outcome, status)
<1>1. Stores(e) /\ e.body.kind = "anchor"
  BY AnchorEntryIs DEF AnchorStores, AnchorEntry
<1>2. VouchOK(e)
  BY <1>1, VouchKinds DEF VouchOK
<1>3. QED
  BY <1>1, <1>2, VouchStores

LEMMA HandlerVouches ==
  ASSUME RequireAuth, TypeOK, NEW c \in Callers, Handler(c)
  PROVE  VouchAdds
<1>1. CASE Records(c)
  <2> DEFINE answer == Serve(FacadeKey, "receipts:facade", Body(calls[c]), policy)
             e == Entry(answer.receipt, calls[c].id, Facade, answer.status)
  <2>1. UNCHANGED ledger \/ (answer.receipt # None /\ Stores(e))
    BY <1>1 DEF Records
  <2>2. FacadeKey.agent = Facade /\ Facade \in Agents
    BY FacadeAssumption DEF FacadeKey
  <2>3. QED
    BY <2>1, <2>2, ServedVouches, SilentVouches
<1>2. ASSUME AnchorReserves(c) \/ Stamps(c) \/ Anchored(c)
      PROVE  VouchAdds
  <2>1. UNCHANGED ledger \/ \E call, outcome, status : AnchorStores(call, outcome, status)
    BY <1>2 DEF AnchorReserves, Stamps, Anchored
  <2>2. QED
    BY <2>1, AnchorVouches, SilentVouches
<1>3. ASSUME Call(c) \/ GuardReads(c) \/ Lists(c) \/ ReadsDocument(c) \/ CreatesIssue(c)
               \/ CreatesApproval(c) \/ Replies(c) \/ CommentsAnchor(c)
      PROVE  VouchAdds
  <2>1. UNCHANGED ledger
    BY <1>3 DEF Call, GuardReads, Lists, ReadsDocument, CreatesIssue, CreatesApproval, Replies,
       CommentsAnchor, Quiet
  <2>2. QED
    BY <2>1, SilentVouches
<1>4. QED
  BY <1>1, <1>2, <1>3 DEF Handler

LEMMA ClientVouches ==
  ASSUME RequireAuth, TypeOK, ClientPosts
  PROVE  VouchAdds
<1>1. PICK post \in Posts :
        LET answer == Serve(post.identity, post.path, post.body, policy) IN
        /\ answer.receipt # None
        /\ Stores(Entry(answer.receipt, None, post.identity.agent, answer.status))
  BY DEF ClientPosts
<1>2. /\ post.identity = None \/ post.identity.agent \in Agents \cup {Malformed}
      /\ post.path = "quality:citation" => post.body.verdict \in {"ok", "fails", "throws"}
  BY FacadeAssumption
<1>3. QED
  BY <1>1, <1>2, ServedVouches

LEMMA OthersVouch ==
  ASSUME TypeOK, Egress \/ (\E a \in Approvals : Decide(a)) \/ PollReads \/ PollBlocks \/ UNCHANGED vars
  PROVE  VouchAdds
<1>1. ASSUME NEW m, NEW outcome, NEW a, NEW status,
             Stores(Entry(EgressReceipt(m, outcome, a), None, Facade, status))
      PROVE  VouchAdds
  <2> DEFINE e == Entry(EgressReceipt(m, outcome, a), None, Facade, status)
  <2>1. e.body.kind = "egress"
    BY EntryFrom, EgressReceiptIs
  <2>2. VouchOK(e)
    BY <2>1, VouchKinds DEF VouchOK
  <2>3. QED
    BY <1>1, <2>2, VouchStores
<1>2. ASSUME NEW a, NEW outcome, Stores(PollReceipt(a, outcome))
      PROVE  VouchAdds
  <2>1. VouchOK(PollReceipt(a, outcome))
    BY PollReceiptIs, VouchKinds DEF VouchOK
  <2>2. QED
    BY <1>2, <2>1, VouchStores
<1>3. CASE Egress
  <2>1. \E m, outcome, a, status : Stores(Entry(EgressReceipt(m, outcome, a), None, Facade, status))
    BY <1>3 DEF Egress
  <2>2. QED
    BY <1>1, <2>1
<1>4. CASE PollReads \/ PollBlocks
  <2>1. UNCHANGED ledger \/ \E a, outcome : Stores(PollReceipt(a, outcome))
    BY <1>4 DEF PollReads, PollBlocks
  <2>2. QED
    BY <1>2, <2>1, SilentVouches
<1>5. CASE (\E a \in Approvals : Decide(a)) \/ UNCHANGED vars
  BY <1>5, SilentVouches DEF Decide, vars
<1>6. QED
  BY <1>3, <1>4, <1>5

LEMMA VouchStep ==
  ASSUME RequireAuth, TypeOK, VouchInv, [Next]_vars
  PROVE  VouchInv'
<1>1. VouchAdds
  BY HandlerVouches, ClientVouches, OthersVouch DEF Next
<1>2. QED
  BY <1>1 DEF VouchAdds, VouchInv

LEMMA SectionsAre ==
  ASSUME NEW l, NEW m \in Matters
  PROVE  LET report == MR!Bundle(l, m) IN
         \A i \in report.facadeActivity \cup report.deadlines \cup report.citations
                    \cup report.registrations :
           i \in DOMAIN l /\ Vouches(l[i].body)
<1>1. m # None
  BY FacadeAssumption
<1>2. QED
  BY <1>1 DEF MR!Bundle, Vouches

\* With authentication on, facade activity, deadlines, citation checks and registrations are
\* requests the gate accepted, under the name of the agent whose key was presented.
THEOREM SectionsAccepted ==
  ASSUME RequireAuth
  PROVE  Spec => []SectionsAreAccepted
<1>1. Init => VouchInv
  BY EmptyLedger DEF VouchInv
<1>2. TypeOK /\ VouchInv /\ [Next]_vars => VouchInv'
  BY VouchStep
<1>3. VouchInv => SectionsAreAccepted
  BY SectionsAre DEF VouchInv, VouchOK, SectionsAreAccepted
<1>4. QED
  BY <1>1, <1>2, <1>3, TypeCorrect, PTL DEF Spec
===============================================================================

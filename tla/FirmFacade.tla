------------------------------ MODULE FirmFacade ------------------------------
(***************************************************************************)
(* The firm facade: an MCP server through which an outside assistant opens *)
(* matters, reads them and asks for approvals.  A tool call is a sequence  *)
(* of requests to Paperclip and one receipt posted to the gate, and any of *)
(* the requests may fail or lose its reply.  The gate (GateRoutes) takes   *)
(* the receipts, its poller closes rejected approvals, agents use its      *)
(* other routes and anchor the ledger, and the Matter Trust Report         *)
(* (MatterReport) is read from the ledger at any time.                     *)
(*                                                                         *)
(* An entry of the ledger keeps, beside its body, where it came from: the  *)
(* call, the authenticated sender and the status of the answer.  The code  *)
(* stores none of the three; no guard reads them.                          *)
(***************************************************************************)
EXTENDS GateRoutes, FiniteSetsExt

MR == INSTANCE MatterReport

CONSTANTS
  Callers,
  Matters, Foreign, Fresh, \* Foreign: of another company; Fresh: not created yet
  Products,                \* id -> the document keys a work product carries
  Approvals,
  Facade,                  \* the facade's agent
  Policies,                \* authorization documents the gate may run under
  Posts,                   \* requests of other agents: [identity, path, body]
  MaxWork                  \* bound of a run: calls, posts and egress requests

ASSUME FacadeAssumption ==
  /\ Foreign \subseteq Matters /\ Fresh \subseteq Matters \ Foreign
  /\ Facade \in Agents /\ MaxWork \in Nat
  /\ None \notin Matters \cup Approvals \cup Agents \cup {"text"} /\ None \notin Nat
  /\ \A doc \in Policies : LoadsAuthorization(doc)
  /\ \A post \in Posts :
       /\ post.identity = None \/ post.identity.agent \in Agents \cup {Malformed}
       /\ post.path = "quality:citation" => post.body.verdict \in {"ok", "fails", "throws"}

VARIABLES
  allowText,  \* firmFacade.allowWorkProductText, as the facade loaded it
  policy,     \* the gate's authorization
  tsa,        \* is a time stamping authority configured?
  issues,     \* matter -> its company in Paperclip, or None
  approvals,  \* id -> [status, matter, source]
  ledger,     \* sequence of [body, from]
  calls,      \* caller -> the tool call or anchor being handled
  tokens, posted, \* the anchors with a stored token, and with a comment in Paperclip
  poller,     \* the approval the poller is closing, or None
  answers,    \* what callers were told, ever
  made        \* how many calls, posts and egress requests there were

vars == <<allowText, policy, tsa, issues, approvals, ledger, calls, tokens, posted, poller,
          answers, made>>
external == <<allowText, policy, tsa>>
anchors == <<tokens, posted>>

-----------------------------------------------------------------------------
(* Requests and the text policy *)

Reads == [tool : {"get_matter_status", "list_work_products"}, matter : Matters,
          product : {None}, text : {FALSE}]
Fetches == [tool : {"fetch_work_product"}, matter : Matters,
            product : DOMAIN Products \cup {"unlisted"}, text : BOOLEAN]
Asks == [tool : {"request_approval"}, matter : Matters, product : {None}, text : {FALSE}]
\* matter is None when there is a title, Malformed when it is blank.
Creates == [tool : {"create_matter"}, matter : {None, Malformed}, product : {None}, text : {FALSE}]
Requests == Reads \cup Fetches \cup Asks \cup Creates

\* loadFirmFacadePolicy: only the literal true of a readable document opens it.
LoadsText(file) == file = "true"

\* externalId, else metadata.documentKey, else metadata.key.
DocKey(product) ==
  LET keys == Products[product] IN
  CASE keys.externalId # None  -> keys.externalId
    [] keys.documentKey # None -> keys.documentKey
    [] OTHER                   -> keys.key

GivesText(req) == req.text /\ allowText

-----------------------------------------------------------------------------
(* The steps of a call.  at: where the handler waits; outcome, product,    *)
(* approval, disclosed: its receipt; told: what the caller is answered     *)
(* once the receipt stands, None when the handler throws.                  *)

Idle == [at |-> "idle"]
Start(id, req) ==
  [at |-> "guard", id |-> id, req |-> req, matter |-> req.matter, outcome |-> "performed",
   product |-> None, approval |-> None, disclosed |-> None, told |-> None]

Told(call, word, text) == [call |-> call.id, tool |-> call.req.tool, matter |-> call.matter,
                           approval |-> call.approval, product |-> call.req.product,
                           word |-> word, text |-> text]

Recording(call) == [call EXCEPT !.at = "record"]
Throws(call) == Recording([call EXCEPT !.outcome = "error", !.told = None])
Answers(call, word, text) == Recording([call EXCEPT !.told = Told(call, word, text)])

Goes(c, call) == calls' = [calls EXCEPT ![c] = call]
Quiet == UNCHANGED <<external, anchors, issues, approvals, ledger, poller, answers, made>>

Call(c) ==
  /\ calls[c] = Idle /\ made < MaxWork
  /\ \E req \in Requests :
       LET call == Start(made + 1, req) IN
       Goes(c, CASE req.tool = "create_matter" /\ req.matter = None -> [call EXCEPT !.at = "create"]
                 [] req.tool = "create_matter" /\ req.matter # None ->
                      Answers([call EXCEPT !.outcome = "error", !.matter = None], "error", FALSE)
                 [] OTHER -> call)
  /\ made' = made + 1
  /\ UNCHANGED <<external, anchors, issues, approvals, ledger, poller, answers>>

(* guardCompanyScope: the matter must be the firm's before anything else.  *)
GuardReads(c) ==
  LET call == calls[c] IN
  /\ call.at = "guard" /\ Quiet
  /\ \/ Goes(c, Throws(call))
     \/ /\ issues[call.matter] # None
        /\ Goes(c, CASE issues[call.matter] # Company            -> Throws(call)
                     [] issues[call.matter] = Company ->
                          CASE call.req.tool = "get_matter_status" -> Answers(call, "ok", FALSE)
                            [] call.req.tool = "request_approval"  -> [call EXCEPT !.at = "approve"]
                            [] OTHER                               -> [call EXCEPT !.at = "list"])

\* What fetchWorkProduct makes of the list.
Fetched(call) ==
  LET own == [call EXCEPT !.product = call.req.product]
  IN CASE call.req.product = "unlisted" -> Answers([own EXCEPT !.outcome = "error"], "error", FALSE)
       [] call.req.product # "unlisted" /\ ~GivesText(call.req) ->
            Answers([own EXCEPT !.disclosed = "withheld"], "ok", FALSE)
       [] OTHER -> IF DocKey(call.req.product) = None
                   THEN Answers([own EXCEPT !.disclosed = "withheld"], "ok", FALSE)
                   ELSE [own EXCEPT !.at = "document"]

Lists(c) ==
  LET call == calls[c] IN
  /\ call.at = "list" /\ Quiet
  /\ \/ Goes(c, Throws([call EXCEPT !.product = call.req.product]))
     \/ Goes(c, IF call.req.tool = "list_work_products" THEN Answers(call, "ok", FALSE)
                ELSE Fetched(call))

ReadsDocument(c) ==
  LET call == calls[c] IN
  /\ call.at = "document" /\ Quiet
  /\ \/ Goes(c, Throws([call EXCEPT !.disclosed = "withheld"]))
     \/ Goes(c, Answers([call EXCEPT !.disclosed = "text"], "ok", TRUE))

(* createIssue and createApproval: a call that fails throws at once and    *)
(* leaves no receipt, whether or not Paperclip did what it was asked.      *)
CreatesIssue(c) ==
  LET call == calls[c] IN
  /\ call.at = "create"
  /\ UNCHANGED <<external, anchors, approvals, ledger, poller, answers, made>>
  /\ \/ UNCHANGED issues /\ Goes(c, Idle)
     \/ \E m \in Fresh :
          /\ issues[m] = None
          /\ issues' = [issues EXCEPT ![m] = Company]
          /\ \/ Goes(c, Idle)
             \/ Goes(c, Answers([call EXCEPT !.matter = m], "ok", FALSE))

Free == {a \in Approvals : approvals[a].status = "none"}
Opened(a, m, source) ==
  approvals' = [approvals EXCEPT ![a] = [status |-> "pending", matter |-> m, source |-> source]]

CreatesApproval(c) ==
  LET call == calls[c] IN
  /\ call.at = "approve"
  /\ UNCHANGED <<external, anchors, issues, ledger, poller, answers, made>>
  /\ \/ UNCHANGED approvals /\ Goes(c, Idle)
     \/ \E a \in Free :
          /\ Opened(a, call.matter, "facade")
          /\ \/ Goes(c, Idle)
             \/ Goes(c, Answers([call EXCEPT !.approval = a, !.outcome = "pending"],
                                "pending_approval", FALSE))

-----------------------------------------------------------------------------
(* The gate *)

Entry(receipt, call, agent, status) ==
  [body |-> receipt, from |-> [call |-> call, agent |-> agent, status |-> status]]

Stores(entry) == ledger' = Append(ledger, entry)

\* FacadeReceiptWriter.record: the body it posts.
Body(call) ==
  [json |-> TRUE, tool |-> call.req.tool, outcome |-> call.outcome, sha |-> "sha",
   matter |-> call.matter, product |-> call.product, approval |-> call.approval,
   agent |-> None, issue |-> None, meta |-> "object", disclosed |-> call.disclosed]

FacadeKey == [agent |-> Facade, company |-> Company]

\* Variant: a receipt that cannot be written is let go.
EndsAnyway(call, status) == [call EXCEPT !.at = "reply"]
\* Any answer but a 2xx makes record throw, and with it the handler.
AfterRecord(call, status) == IF status = 200 THEN [call EXCEPT !.at = "reply"] ELSE Idle

Records(c) ==
  LET call   == calls[c]
      answer == Serve(FacadeKey, "receipts:facade", Body(call), policy)
  IN
  /\ call.at = "record"
  /\ UNCHANGED <<external, anchors, issues, approvals, poller, answers, made>>
  /\ \/ /\ answer.receipt # None
        /\ Stores(Entry(answer.receipt, call.id, Facade, answer.status))
        /\ Goes(c, AfterRecord(call, answer.status))
     \/ UNCHANGED ledger /\ Goes(c, AfterRecord(call, 500)) \* not stored, or not reached

\* The reply of the gate arrives, or is lost; then the caller is answered.
Replies(c) ==
  LET call == calls[c] IN
  /\ call.at = "reply" /\ Goes(c, Idle)
  /\ \/ UNCHANGED answers
     \/ call.told # None /\ answers' = answers \cup {call.told}
  /\ UNCHANGED <<external, anchors, issues, approvals, ledger, poller, made>>

(* POST /receipts/anchor: the head of the ledger is reserved, stamped      *)
(* where an authority is configured, and commented to a matter.  The       *)
(* operation is named for the head, and its own reservation moves the      *)
(* head: no other anchor has it, so the handler's 409 never comes, and an  *)
(* anchor that ended without an outcome stands in nobody's way.            *)
AnchorReceipt(outcome, agent) == Receipt("anchor", "anchor", outcome, agent)
AnchorStores(call, outcome, status) ==
  Stores(Entry(AnchorReceipt(outcome, call.agent), call.id, call.agent, status))

AnchorReserves(c) ==
  /\ calls[c] = Idle /\ made < MaxWork
  /\ made' = made + 1
  /\ \E agent \in Agents :
       LET identity == [agent |-> agent, company |-> Company]
           call == [at |-> IF tsa THEN "stamp" ELSE "comment", id |-> made + 1,
                    agent |-> AuthenticatedAgent(identity, "receipts:anchor")]
       IN /\ Passes(Admission(identity, "receipts:anchor", policy))
          /\ AnchorStores(call, "reserved", 0) /\ Goes(c, call)
  /\ UNCHANGED <<external, anchors, issues, approvals, poller, answers>>

\* A stamp that fails, its token stored or not, ends the anchor with an error
\* receipt and no comment.
Stamps(c) ==
  LET call == calls[c] IN
  /\ call.at = "stamp"
  /\ \/ /\ tokens' = tokens \cup {call.id}
        /\ Goes(c, [call EXCEPT !.at = "comment"]) /\ UNCHANGED ledger
     \/ /\ tokens' \in {tokens, tokens \cup {call.id}}
        /\ AnchorStores(call, "error", 502) \/ UNCHANGED ledger
        /\ Goes(c, Idle)
  /\ UNCHANGED <<external, posted, issues, approvals, poller, answers, made>>

\* A comment that fails, whether or not it was posted, leaves no outcome.
CommentsAnchor(c) ==
  LET call == calls[c] IN
  /\ call.at = "comment"
  /\ \/ /\ posted' = posted \cup {call.id}
        /\ Goes(c, [call EXCEPT !.at = "anchored"]) \/ Goes(c, Idle)
     \/ UNCHANGED posted /\ Goes(c, Idle)
  /\ UNCHANGED <<external, tokens, issues, approvals, ledger, poller, answers, made>>

AnchorAnswer(call) ==
  [call |-> call.id, tool |-> "anchor", matter |-> None, approval |-> None, product |-> None,
   word |-> "ok", text |-> FALSE]

\* The append that fails answers 500.
Anchored(c) ==
  LET call == calls[c] IN
  /\ call.at = "anchored" /\ Goes(c, Idle)
  /\ \/ /\ AnchorStores(call, "performed", 200)
        /\ answers' \in {answers, answers \cup {AnchorAnswer(call)}}
     \/ UNCHANGED <<ledger, answers>>
  /\ UNCHANGED <<external, anchors, issues, approvals, poller, made>>

(* Other agents use the routes that only leave receipts. *)
ClientPosts ==
  /\ made < MaxWork
  /\ \E post \in Posts :
       LET answer == Serve(post.identity, post.path, post.body, policy) IN
       /\ answer.receipt # None
       /\ Stores(Entry(answer.receipt, None, post.identity.agent, answer.status))
  /\ made' = made + 1
  /\ UNCHANGED <<external, anchors, issues, approvals, calls, poller, answers>>

(* An egress request as the ledger sees it once EgressPrelude let it pass: *)
(* refused or allowed with whatever approval the request claims, or sent   *)
(* to the board, first for a new approval and then for its decision.  The  *)
(* reservations before it are EgressGate's.                                *)
Outcomes(claimed) ==
  {"blocked", "performed", "anonymized_performed", "error"} \cup
  (IF claimed # None /\ approvals[claimed].status = "pending" THEN {"pending"} ELSE {})

\* What the citation gate found rides on every receipt of the dispatch, what
\* the performer answered on a performed one.
FactsOf(outcome) ==
  CASE outcome \in {"performed", "anonymized_performed"} -> {"unbacked", "provenance", "floor", "delivery"}
    [] outcome \in {"pending", "error"} -> {"unbacked", "provenance"}
    [] outcome = "blocked"              -> {}

EgressReceipt(m, outcome, approval) ==
  [Receipt("egress", "upload_document", outcome, Facade) EXCEPT
     !.issue = m, !.approval = approval, !.facts = FactsOf(outcome)]

Egress ==
  /\ made < MaxWork
  /\ made' = made + 1
  /\ \E m \in Matters \ (Foreign \cup Fresh) :
       \/ /\ \E claimed \in (Approvals \ Free) \cup {None} : \E outcome \in Outcomes(claimed) :
               Stores(Entry(EgressReceipt(m, outcome, claimed), None, Facade, 200))
          /\ UNCHANGED approvals
       \/ \E a \in Free :
            /\ Opened(a, m, "egress")
            /\ Stores(Entry(EgressReceipt(m, "pending", a), None, Facade, 202))
  /\ UNCHANGED <<external, anchors, issues, calls, poller, answers>>

-----------------------------------------------------------------------------
(* The board and the poller *)

Decided == {"approved", "rejected"}
Decide(a) ==
  /\ approvals[a].status = "pending"
  /\ \E status \in Decided : approvals' = [approvals EXCEPT ![a].status = status]
  /\ UNCHANGED <<external, anchors, issues, ledger, calls, poller, answers, made>>

\* findUnresolvedApprovals: of either kind, and settled by any other outcome.
Pending(a) == {i \in DOMAIN ledger : ledger[i].body.approval = a /\ ledger[i].body.outcome = "pending"}
Unresolved ==
  {a \in Approvals : /\ Pending(a) # {}
                     /\ \A i \in DOMAIN ledger : ledger[i].body.approval = a =>
                          ledger[i].body.outcome \in {"pending", "reserved"}}

PollReceipt(a, outcome) ==
  LET first == ledger[Min(Pending(a))].body
  IN Entry([Receipt("egress", first.tool, outcome, None) EXCEPT
              !.issue = first.issue, !.approval = a], None, None, 0)

CommentReserved(a) ==
  \E i \in DOMAIN ledger : ledger[i].body.approval = a /\ ledger[i].body.outcome = "reserved"

(* The rejection is read.  On a matter the comment is reserved before it   *)
(* goes out; without one the approval is closed at once.                   *)
PollReads ==
  /\ poller = None
  /\ \E a \in Unresolved :
       /\ approvals[a].status = "rejected" /\ ~CommentReserved(a)
       /\ IF PollReceipt(a, "blocked").body.issue # None
          THEN Stores(PollReceipt(a, "reserved")) /\ poller' = a
          ELSE Stores(PollReceipt(a, "blocked")) /\ UNCHANGED poller
  /\ UNCHANGED <<external, anchors, issues, approvals, calls, answers, made>>

PollBlocks ==
  /\ poller # None /\ poller' = None
  /\ \/ UNCHANGED ledger                      \* the comment or the append fails
     \/ Stores(PollReceipt(poller, "blocked"))
  /\ UNCHANGED <<external, anchors, issues, approvals, calls, answers, made>>

-----------------------------------------------------------------------------
Init ==
  /\ \E file \in {"absent", "not true", "true"} : allowText = LoadsText(file)
  /\ \E doc \in Policies : policy = LoadAuthorization(doc)
  /\ tsa \in BOOLEAN /\ tokens = {} /\ posted = {}
  /\ issues = [m \in Matters |-> IF m \in Fresh THEN None
                                 ELSE IF m \in Foreign THEN "another firm" ELSE Company]
  /\ approvals = [a \in Approvals |-> [status |-> "none", matter |-> None, source |-> None]]
  /\ ledger = <<>>
  /\ calls = [c \in Callers |-> Idle]
  /\ poller = None /\ answers = {} /\ made = 0

Handler(c) ==
  \/ Call(c) \/ GuardReads(c) \/ Lists(c) \/ ReadsDocument(c)
  \/ CreatesIssue(c) \/ CreatesApproval(c) \/ Records(c) \/ Replies(c)
  \/ AnchorReserves(c) \/ Stamps(c) \/ CommentsAnchor(c) \/ Anchored(c)

Next ==
  \/ \E c \in Callers : Handler(c)
  \/ ClientPosts \/ Egress
  \/ \E a \in Approvals : Decide(a)
  \/ PollReads \/ PollBlocks

Spec == Init /\ [][Next]_vars

-----------------------------------------------------------------------------
Of(call) == {i \in DOMAIN ledger : /\ ledger[i].from.call = call
                                   /\ ledger[i].body.outcome # "reserved"}

OutcomeOf(told) ==
  CASE told.word = "ok" -> "performed" [] told.word = "pending_approval" -> "pending"
    [] told.word = "error" -> "error"

(* Whatever a caller was told stands on the ledger: exactly one receipt of *)
(* the call, with the tool, the matter, the approval and the outcome of    *)
(* the answer.  No call, answered or not, has two.  An anchor is commented *)
(* only with its stamp in store, where one is required: "a TSA failure     *)
(* leaves nothing posted".                                                 *)
AnsweredIsReceipted ==
  /\ \A told \in answers : \E i \in Of(told.call) :
       /\ ledger[i].body.tool = told.tool /\ ledger[i].body.outcome = OutcomeOf(told)
       /\ ledger[i].body.issue = told.matter /\ ledger[i].body.approval = told.approval
       /\ told.tool = "anchor" => told.call \in posted
  /\ \A call \in 1 .. made : Cardinality(Of(call)) <= 1
  /\ tsa => posted \subseteq tokens

(* Text that left the firm is on the report of its matter, by product, and *)
(* it left only while the policy was open and the matter was the firm's;   *)
(* no receipt of the facade claims a disclosure under a closed policy.     *)
DisclosedIsOnReport ==
  /\ \A told \in answers : told.text =>
       /\ allowText /\ issues[told.matter] = Company
       /\ \E i \in MR!Bundle(ledger, told.matter).facadeActivity :
            /\ ledger[i].from.call = told.call
            /\ ledger[i].body.disclosed = "text" /\ ledger[i].body.product = told.product
  /\ \A m \in Matters : \A i \in MR!Bundle(ledger, m).facadeActivity :
       (ledger[i].body.disclosed = "text" /\ ledger[i].from.call # None) => allowText

(* A request for an approval is no attestation: while the board has not    *)
(* decided on an approval the facade asked for, neither the facade nor the *)
(* poller puts it among the attestations; only an egress request that      *)
(* claims the approval does.                                               *)
RequestIsNoAttestation ==
  \A m \in Matters : \A i \in MR!Bundle(ledger, m).attestations :
    LET a == ledger[i].body.approval IN
    (a \in Approvals /\ approvals[a].source = "facade" /\ approvals[a].status = "pending")
      => ledger[i].from.status = 200 /\ ledger[i].body.kind = "egress"

(* The sections that vouch for something list only what the gate accepted, *)
(* under the name of the agent whose key was presented: a refused request  *)
(* leaves a receipt, but on no matter's deadlines, facade activity,        *)
(* citation checks or registrations.                                       *)
SectionsAreAccepted ==
  \A m \in Matters :
    LET report == MR!Bundle(ledger, m)
        vouched == report.facadeActivity \cup report.deadlines \cup report.citations
                     \cup report.registrations
    IN \A i \in vouched :
         /\ ledger[i].from.status \in {200, 422}
         /\ ledger[i].body.agent = ledger[i].from.agent

(* signoff.ts: "ATTESTATIONS - board-decided approvals only".              *)
AttestedWasDecided ==
  \A m \in Matters : \A i \in MR!Bundle(ledger, m).attestations :
    approvals[ledger[i].body.approval].status \in Decided
===============================================================================

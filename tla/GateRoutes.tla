------------------------------ MODULE GateRoutes ------------------------------
(***************************************************************************)
(* How the gate answers one HTTP request apart from deciding on an egress: *)
(* who sent it, which route it names, whether the sender may use it, and   *)
(* what the handler makes of the body.  Each step may refuse, and an       *)
(* answer is a status with the receipt that goes with it.  Handlers are    *)
(* functions of the request: the ledger they write to is FirmFacade's.     *)
(*                                                                         *)
(* A field of a body is absent (None), of the wrong type or form           *)
(* (Malformed), or a value.                                                *)
(***************************************************************************)
EXTENDS Naturals, Sequences, FiniteSets, Functions

CONSTANTS
  Agents, Company,
  None, Malformed,
  RequireAuth  \* GATE_REQUIRE_AUTH

FixedTargets ==
  {"receipts:verify", "receipts:bundle", "receipts:anchor", "quality:citation",
   "quality:authority", "receipts:facade", "receipts:deadline",
   "matters:classification:write", "matters:classification:read"}

EgressTools == {"send_email", "share_external", "upload_document", "query_external_model",
                "file_court_document", "sign_document", "send_payment",
                "delete_external_resource"}
EgressTarget(tool) == "egress:" \o tool
Targets == FixedTargets \cup {EgressTarget(tool) : tool \in EgressTools}

FacadeTools == {"create_matter", "get_matter_status", "list_work_products",
                "fetch_work_product", "request_approval"}
FacadeOutcomes == {"performed", "anonymized_performed", "pending", "blocked", "error"}

-----------------------------------------------------------------------------
(* Runtime authorization *)

Deny == [grants |-> [a \in Agents |-> {}], destinations |-> <<>>,
         aliases |-> [a \in Agents |-> {}]]

SafeDestination(d) ==
  CASE d.provider = "gdrive"   -> /\ DOMAIN d = {"provider", "folderId"}
                                  /\ d.folderId # Malformed
    [] d.provider = "onedrive" -> /\ DOMAIN d = {"provider", "driveId", "parentItemId"}
                                  /\ Malformed \notin {d.driveId, d.parentItemId}
    [] OTHER                   -> FALSE

(* parseGateAuthorization: exact keys, default deny, and no target, agent  *)
(* or destination that is unknown or named twice.                          *)
ParsesAuthorization(doc) ==
  /\ doc.version = 1 /\ doc.default = "deny" /\ doc.company # Malformed
  /\ \A agent \in DOMAIN doc.grants :
       /\ agent \in Agents /\ IsInjective(doc.grants[agent])
       /\ Range(doc.grants[agent]) \subseteq Targets
  /\ \A alias \in DOMAIN doc.destinations : SafeDestination(doc.destinations[alias])
  /\ \A agent \in DOMAIN doc.aliases :
       /\ agent \in Agents /\ IsInjective(doc.aliases[agent])
       /\ Range(doc.aliases[agent]) \subseteq DOMAIN doc.destinations

Granted(lists) ==
  [a \in Agents |-> IF a \in DOMAIN lists THEN Range(lists[a]) ELSE {}]

\* loadGateAuthorization: a policy of the firm's own, or the gate does not start.
LoadsAuthorization(doc) == ParsesAuthorization(doc) /\ doc.company = Company
LoadAuthorization(doc) ==
  [grants |-> Granted(doc.grants), destinations |-> doc.destinations,
   aliases |-> Granted(doc.aliases)]

IsGateRequestAuthorized(policy, agent, target) == target \in policy.grants[agent]

ResolveTrustedDestination(policy, agent, alias) ==
  IF alias \in policy.aliases[agent] THEN policy.destinations[alias] ELSE None

-----------------------------------------------------------------------------
(* Receipts and answers *)

Receipt(kind, tool, outcome, agent) ==
  [kind |-> kind, tool |-> tool, outcome |-> outcome, agent |-> agent, issue |-> None,
   approval |-> None, product |-> None, disclosed |-> None, facts |-> {}]

Answer(status, receipt) == [status |-> status, receipt |-> receipt]
Unreceipted(status) == Answer(status, None)

\* The next step may go on.
Pass == Answer(0, None)
Passes(answer) == answer.status = 0

-----------------------------------------------------------------------------
(* Who may use which route *)

Valid(id) == id # Malformed
Supplied(value) == value \notin {None, Malformed}

(* resolveGateRoute.  A path is a target, a probe, "malformed", the egress *)
(* of a tool nobody knows ("egress:?"), or something else.                 *)
RouteKind(path) ==
  CASE path \in {"health", "ready"}        -> "public"
    [] path \in Targets                    -> "protected"
    [] path \in {"malformed", "egress:?"}  -> "invalid"
    [] OTHER                               -> "unmapped"

(* The authenticator asks Paperclip who holds the key.  identity is None   *)
(* when there is no usable key, Paperclip refuses it or does not answer.   *)
Admission(identity, path, policy) ==
  IF RouteKind(path) = "public" \/ ~RequireAuth THEN Pass
  ELSE IF identity = None THEN Unreceipted(401)
  ELSE IF identity.company # Company THEN Unreceipted(403)
  ELSE IF ~Valid(identity.agent) THEN Unreceipted(401)
  ELSE CASE RouteKind(path) = "invalid"  -> Unreceipted(400)
         [] RouteKind(path) = "unmapped" ->
              Answer(403, Receipt("authorization", "unmapped_request", "blocked", identity.agent))
         [] OTHER ->
              IF IsGateRequestAuthorized(policy, identity.agent, path) THEN Pass
              ELSE Answer(403, Receipt("authorization", path, "blocked", identity.agent))

AuthenticatedAgent(identity, path) ==
  IF RouteKind(path) = "public" \/ ~RequireAuth THEN None ELSE identity.agent

-----------------------------------------------------------------------------
(* Handlers that only leave a receipt *)

Mismatch(agent, claimed) == agent # None /\ claimed \notin {None, agent}
Sender(agent, claimed) == IF agent # None THEN agent ELSE claimed

\* Variant: only an explicit issueId.
ExplicitIssue(body) == body.issue
\* issueId ?? matterId: a facade receipt belongs to the matter it is about.
FacadeIssue(body) == IF body.issue # None THEN body.issue ELSE body.matter

FacadeSentinel(body) ==
  IF ~body.json THEN "facade_parse_error"
  ELSE IF body.tool \notin FacadeTools THEN "facade_unknown_tool" ELSE body.tool

FacadeFields(body) ==
  /\ body.json /\ body.tool \in FacadeTools /\ body.outcome \in FacadeOutcomes
  /\ Supplied(body.sha)
  /\ \A id \in {body.matter, body.product, body.approval, body.agent, body.issue} : Valid(id)

FacadeAccepted(body, agent) ==
  FacadeFields(body) /\ ~Mismatch(agent, body.agent) /\ body.meta \in {None, "object"}

(* POST /receipts/facade.  The kind is never taken from the body.          *)
FacadeReceipt(body, agent) ==
  [Receipt("firm_facade", body.tool, body.outcome, Sender(agent, body.agent))
     EXCEPT !.issue = FacadeIssue(body), !.approval = body.approval,
            !.product = body.product, !.disclosed = body.disclosed]

PostFacade(body, agent) ==
  IF FacadeAccepted(body, agent) THEN Answer(200, FacadeReceipt(body, agent))
  ELSE Answer(IF FacadeFields(body) /\ Mismatch(agent, body.agent) THEN 403 ELSE 400,
              Receipt("firm_facade", FacadeSentinel(body), "error", agent))

DeadlineAccepted(body) ==
  body.json /\ Supplied(body.matter) /\ Supplied(body.sha) /\ body.meta = "facts"

\* Variant: a refused computation is filed under the matter too.
FileDeadline(body, agent) ==
  Answer(IF DeadlineAccepted(body) THEN 200 ELSE 400,
         [Receipt("deadline", "deadline_calculation", "error", agent) EXCEPT
            !.issue = IF body.json THEN body.matter ELSE None])

(* POST /receipts/deadline: exactly the six facts of a computation, filed  *)
(* under the matter.                                                       *)
PostDeadline(body, agent) ==
  IF DeadlineAccepted(body)
  THEN Answer(200, [Receipt("deadline", "deadline_calculation", "performed", agent)
                      EXCEPT !.issue = body.matter])
  ELSE Answer(400, Receipt("deadline", IF body.json THEN "deadline_bad_body"
                                       ELSE "deadline_parse_error", "error", agent))

-----------------------------------------------------------------------------
(* Handlers that register.  verdict is what the registry says of the       *)
(* content: "ok", "fails" (a blocked receipt of its own), or it "throws",  *)
(* over a ledger that does not verify or an append that fails.             *)

CitationAccepted(body) ==
  body.json /\ body.rows = "ok" /\ Valid(body.agent) /\ Valid(body.issue)

PostCitation(body, agent) ==
  LET receipt(outcome, sender) == Receipt("quality", "citation_verification", outcome, sender)
      registered(outcome) == [receipt(outcome, Sender(agent, body.agent)) EXCEPT !.issue = body.issue]
  IN CASE ~CitationAccepted(body)      -> Answer(400, receipt("error", agent))
       [] CitationAccepted(body) /\ Mismatch(agent, body.agent) -> Answer(403, receipt("error", agent))
       [] OTHER -> CASE body.verdict = "ok"     -> Answer(200, registered("performed"))
                     [] body.verdict = "fails"  -> Answer(422, registered("blocked"))
                     [] body.verdict = "throws" -> Answer(400, receipt("error", agent))

(* A retrieved authority belongs to the firm: it has no matter.            *)
PostAuthority(body, agent) ==
  LET ok == body.json /\ Supplied(body.sha) /\ body.citation = "recognized" /\ body.verdict = "ok"
  IN Answer(IF ok THEN 200 ELSE 400,
            Receipt("quality", "authority_provenance", IF ok THEN "performed" ELSE "error", agent))

PostClassification(body, agent) ==
  LET ok == body.json /\ Supplied(body.issue) /\ Supplied(body.tier) /\ body.verdict = "ok"
      receipt(outcome) == Receipt("quality", "matter_classification", outcome, agent)
  IN IF ok THEN Answer(200, [receipt("performed") EXCEPT !.issue = body.issue])
     ELSE Answer(400, receipt("error"))

-----------------------------------------------------------------------------
(* POST /egress/{tool}, as far as handleEgress looks at the request before *)
(* it decides: Pass leads to EgressDecision.                               *)

\* An upload of an authenticated agent names one of its destinations by alias.
DestinationRefused(tool, body, agent, policy) ==
  /\ agent # None /\ tool = "upload_document"
  /\ \/ body.selector
     \/ ResolveTrustedDestination(policy, agent, body.alias) = None

\* contentBase64 with a text to review, a MIME type and a size within the limit.
BinaryRefusal(tool, body) ==
  IF tool # "upload_document" \/ body.binary = None THEN 0
  ELSE IF body.binary = Malformed \/ body.content \/ ~body.text \/ body.mime = Malformed THEN 400
  ELSE IF body.binary = "large" THEN 413 ELSE 0

EgressPrelude(tool, body, agent, policy) ==
  LET error(status, sender) == Answer(status, Receipt("egress", tool, "error", sender))
      sender == Sender(agent, body.agent)
      filed(answer) == [answer EXCEPT !.receipt.issue = body.issue]
  IN IF body.size = "large" THEN error(413, agent)
     ELSE IF ~body.json \/ ~body.objects THEN error(400, agent)
     ELSE IF Mismatch(agent, body.agent) THEN error(403, agent)
     ELSE IF ~Valid(body.issue) \/ ~Valid(body.approval) THEN error(400, sender)
     ELSE IF ~Valid(sender) THEN error(400, agent)
     ELSE IF body.entities = "large" THEN error(400, sender)
     ELSE IF DestinationRefused(tool, body, agent, policy)
          THEN filed(Answer(403, Receipt("authorization", EgressTarget(tool), "blocked", agent)))
     ELSE IF BinaryRefusal(tool, body) # 0
          THEN filed(error(BinaryRefusal(tool, body), sender))
     ELSE Pass

-----------------------------------------------------------------------------
(* GET routes leave no receipt.  store: the chain verifies; paperclip: it  *)
(* answers the readiness check, or there is none to ask.                   *)
Readings == {"health", "ready", "receipts:verify", "receipts:bundle", "matters:classification:read"}
GetRoute(path, body) ==
  Unreceipted(CASE path \in {"receipts:bundle", "matters:classification:read"}
                     /\ ~Supplied(body.issue)                                     -> 400
                [] path = "ready" /\ ~(body.store /\ body.paperclip)              -> 503
                [] path = "health" /\ ~body.store                                 -> 503
                [] path = "receipts:bundle" /\ Supplied(body.issue) /\ ~body.store -> 503
                [] OTHER                                                          -> 200)

Handle(path, body, agent, policy) ==
  CASE path \in Readings                     -> GetRoute(path, body)
    [] path = "receipts:facade"              -> PostFacade(body, agent)
    [] path = "receipts:deadline"            -> PostDeadline(body, agent)
    [] path = "quality:citation"             -> PostCitation(body, agent)
    [] path = "quality:authority"            -> PostAuthority(body, agent)
    [] path = "matters:classification:write" -> PostClassification(body, agent)
    [] OTHER -> EgressPrelude(CHOOSE tool \in EgressTools : path = EgressTarget(tool),
                              body, agent, policy)

\* The whole request: admitted first, then handled.
Serve(identity, path, body, policy) ==
  LET admission == Admission(identity, path, policy) IN
  IF Passes(admission) THEN Handle(path, body, AuthenticatedAgent(identity, path), policy)
  ELSE admission
===============================================================================

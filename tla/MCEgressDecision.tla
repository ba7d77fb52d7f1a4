--------------------------- MODULE MCEgressDecision ---------------------------
(* Two matters, one document with a citation, and requests that each take    *)
(* another way through the decision; two settings.                           *)
EXTENDS EgressDecision

CONSTANTS m1, m2, brief, roe

DocumentCites == [d \in {brief} |-> {roe}]

Plain(tool, claimed) ==
  [tool |-> tool, matter |-> m1, context |-> {}, claimed |-> claimed,
   document |-> brief, maskable |-> TRUE, trusted |-> FALSE]

MCRequests ==
  {Plain("query_external_model", 0),
   [Plain("query_external_model", NoTier) EXCEPT !.context = {m2}, !.maskable = FALSE],
   [Plain("query_external_model", NoTier) EXCEPT !.matter = NoMatter],
   Plain("send_email", 0),
   [Plain("share_external", NoTier) EXCEPT !.document = NoDocument],
   [Plain("upload_document", 0) EXCEPT !.trusted = TRUE],
   [Plain("file_court_document", 1) EXCEPT !.matter = m2],
   [Plain("sign_document", NoTier) EXCEPT !.context = {m2}],
   Plain("send_payment", 0), Plain("unknown", 0)}

\* The gate as it ships, without a local model; and a firm that masks mail, has
\* confidential model calls approved, never pays, asks for retrieved authorities and
\* runs a local model.
MCSettings ==
  {[policy |-> [b \in Boundaries |-> CASE b = "THIRD_PARTY_EGRESS" -> "allow"
                                      [] b = "CONFIDENTIAL_TO_CLOUD" -> "anonymize"
                                      [] OTHER -> "human"],
    gated |-> {"COURT_FILING", "THIRD_PARTY_EGRESS"}, provenance |-> FALSE,
    defaultTier |-> 1, localModel |-> FALSE],
   [policy |-> [b \in Boundaries |-> CASE b = "THIRD_PARTY_EGRESS" -> "anonymize"
                                      [] b = "MONEY_MOVEMENT" -> "block"
                                      [] OTHER -> "human"],
    gated |-> {"COURT_FILING", "THIRD_PARTY_EGRESS"}, provenance |-> TRUE,
    defaultTier |-> 0, localModel |-> TRUE]}

===============================================================================

---------------------------- MODULE MCFirmFacade ----------------------------
(* Instances of FirmFacade: the firm's matter, another firm's, and one to  *)
(* be created; work products with a document, with another, and with none. *)
EXTENDS FirmFacade

CONSTANTS facade, clerk, m1, other, fresh, a1, a2

MCKeys(e, d, k) == [externalId |-> e, documentKey |-> d, key |-> k]
MCProducts == [brief |-> MCKeys(None, "doc", "old"), link |-> MCKeys(None, None, None)]

MCDoc(grants) ==
  [version |-> 1, default |-> "deny", company |-> Company, grants |-> grants,
   destinations |-> [drive |-> [provider |-> "gdrive", folderId |-> "folder"]],
   aliases |-> [a \in {clerk} |-> <<"drive">>]]
MCRoutes == <<"receipts:deadline", "receipts:facade", "quality:citation", "quality:authority",
              "matters:classification:write", "matters:classification:read", "receipts:bundle",
              "receipts:verify", "egress:upload_document">>
\* Grants with the facade, which here anchors too, and a document that forgets it.
MCPolicies == {MCDoc([a \in {facade, clerk} |->
                        IF a = facade THEN Append(MCRoutes, "receipts:anchor") ELSE MCRoutes]),
               MCDoc([a \in {clerk} |-> MCRoutes])}

MCClerk == [agent |-> clerk, company |-> Company]

MCFacade == [json |-> TRUE, tool |-> "request_approval", outcome |-> "pending", sha |-> "sha",
             matter |-> m1, product |-> None, approval |-> a1, agent |-> None, issue |-> None,
             meta |-> None, disclosed |-> None]
MCDeadline == [json |-> TRUE, matter |-> m1, sha |-> "sha", meta |-> "facts"]
MCCitation == [json |-> TRUE, rows |-> "ok", agent |-> None, issue |-> m1, verdict |-> "ok"]
MCAuthority == [json |-> TRUE, sha |-> "sha", citation |-> "recognized", verdict |-> "ok"]
MCClass == [json |-> TRUE, issue |-> m1, tier |-> "standard", verdict |-> "ok"]
MCUpload == [json |-> TRUE, objects |-> TRUE, size |-> "small", agent |-> None, issue |-> m1,
             approval |-> None, entities |-> "small", selector |-> FALSE, alias |-> "drive",
             binary |-> None, content |-> TRUE, text |-> TRUE, mime |-> None]

MCBodies ==
  [path : {"receipts:facade"},
   body : {MCFacade, [MCFacade EXCEPT !.matter = None], [MCFacade EXCEPT !.agent = facade],
           [MCFacade EXCEPT !.disclosed = "text"], [MCFacade EXCEPT !.tool = "approve"], [MCFacade EXCEPT !.product = Malformed]}]
  \cup [path : {"receipts:deadline"},
        body : {MCDeadline, [MCDeadline EXCEPT !.meta = "none"], [MCDeadline EXCEPT !.json = FALSE]}]
  \cup [path : {"quality:citation"},
        body : {MCCitation, [MCCitation EXCEPT !.verdict = "fails"],
                [MCCitation EXCEPT !.verdict = "throws"], [MCCitation EXCEPT !.agent = facade]}]
  \cup [path : {"quality:authority"}, body : {MCAuthority, [MCAuthority EXCEPT !.citation = "none"]}]
  \cup [path : {"matters:classification:write"},
        body : {MCClass, [MCClass EXCEPT !.verdict = "throws"]}]
  \cup [path : {"egress:upload_document"},
        body : {[MCUpload EXCEPT !.size = "large"], [MCUpload EXCEPT !.agent = facade],
                [MCUpload EXCEPT !.alias = "unknown"], [MCUpload EXCEPT !.selector = TRUE],
                [MCUpload EXCEPT !.binary = "large", !.content = FALSE, !.mime = "pdf"]}]
MCReads == [issue : {m1, Malformed}, store : BOOLEAN, paperclip : BOOLEAN]

MCPosts ==
  {[identity |-> MCClerk, path |-> r.path, body |-> r.body] : r \in MCBodies}
  \cup {[identity |-> MCClerk, path |-> p, body |-> None] : p \in {"elsewhere", "malformed", "receipts:anchor"}}
  \cup {[identity |-> i, path |-> "receipts:deadline", body |-> MCDeadline] :
         i \in {None, [agent |-> clerk, company |-> "another firm"],
               [agent |-> Malformed, company |-> Company]}}
  \cup {[identity |-> MCClerk, path |-> p, body |-> b] : p \in Readings, b \in MCReads}
===============================================================================

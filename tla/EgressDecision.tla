---------------------------- MODULE EgressDecision ----------------------------
(***************************************************************************)
(* What the gate decides about an egress request before EgressGate carries *)
(* it out: the confidentiality it is handled under, its boundary, the      *)
(* citation gate, and the way it leaves (clear, masked, to a local model). *)
(*                                                                         *)
(* The decision reads three registries (matter floors, verified documents, *)
(* retrieved authorities) that live in memory and are rebuilt from the     *)
(* ledger when the gate starts, through restarts, failing appends and      *)
(* ledgers that power losses tore.                                         *)
(*                                                                         *)
(* Tiers are 0 standard, 1 confidential, 2 privileged; -1 is none.         *)
(***************************************************************************)
EXTENDS Integers, FiniteSets

CONSTANTS
  Matters, Documents, Citations,
  Cites,             \* document -> the citations extracted from it
  NoMatter, NoDocument,
  Requests,          \* requests agents may send
  Settings,          \* what policy files and environments a firm starts the gate with
  MaxLedger,         \* bound: registrations on the ledger
  MaxEgress,         \* bound: requests handled
  MaxFaults          \* bound: appends that fail, and power losses

Tier == 0 .. 2
NoTier == -1

Tools == {"send_email", "share_external", "upload_document", "query_external_model",
          "file_court_document", "sign_document", "send_payment",
          "delete_external_resource", "unknown"}

Boundaries == {"THIRD_PARTY_EGRESS", "CONFIDENTIAL_TO_CLOUD", "COURT_FILING",
               "SIGNATURE", "MONEY_MOVEMENT", "IRREVERSIBLE_EXTERNAL_OP"}

Decisions == {"allow", "anonymize", "human", "block"}

\* meta and payload as far as a decision reads them.  maskable: a string prompt and
\* entities the anonymizer can vouch for; trusted: an authenticated upload to a
\* destination of the firm's own.
Request == [tool: Tools, matter: Matters \cup {NoMatter}, context: SUBSET Matters,
            claimed: Tier \cup {NoTier}, document: Documents \cup {NoDocument},
            maskable: BOOLEAN, trusted: BOOLEAN]

\* policy.yaml (a decision per boundary; the boundaries with the citation gate, and
\* whether it asks for retrieved authorities; the default tier of a model prompt), and
\* whether a local model is configured.
Setting == [policy: [Boundaries -> Decisions], gated: SUBSET Boundaries,
            provenance: BOOLEAN, defaultTier: {0, 1}, localModel: BOOLEAN]

ASSUME SettingsAssumption ==
  /\ Requests \subseteq Request
  /\ Settings \subseteq Setting /\ Settings # {}
  /\ Cites \in [Documents -> SUBSET Citations]
  /\ NoMatter \notin Matters /\ NoDocument \notin Documents
  /\ \A r \in Requests : r.trusted => r.tool = "upload_document"

ASSUME BoundAssumption ==
  MaxLedger \in Nat /\ MaxEgress \in Nat /\ MaxFaults \in Nat

VARIABLES
  settings, \* what the gate was last started with
  ledger,   \* the registrations receipted as performed
  torn,     \* does the ledger end in bytes that do not parse?
  registry, \* what the running gate remembers of them
  waiting,  \* requests in the human gate, with what was decided before it
  told,     \* registrations whose caller was told they succeeded
  egress,   \* what left, and how
  handled, faults

vars == <<settings, ledger, torn, registry, waiting, told, egress, handled, faults>>

(***************************************************************************)
(* Registrations.                                                          *)
(***************************************************************************)
Registration ==
  [of: {"tier"}, matter: Matters, tier: Tier] \cup [of: {"verified"}, document: Documents]
    \cup [of: {"retrieved"}, citation: Citations]

Largest(S) == CHOOSE x \in S \cup {NoTier} : \A y \in S : y <= x

\* The floor some registrations give a matter: raise-only, so their maximum.
FloorIn(registrations, matter) ==
  Largest({r.tier : r \in {q \in registrations : q.of = "tier" /\ q.matter = matter}})

VerifiedIn(registrations) ==
  {r.document : r \in {q \in registrations : q.of = "verified"}}

RetrievedIn(registrations) ==
  {r.citation : r \in {q \in registrations : q.of = "retrieved"}}

Registry == [up: BOOLEAN, corrupt: BOOLEAN, floors: [Matters -> Tier \cup {NoTier}],
             verified: SUBSET Documents, retrieved: SUBSET Citations, failed: BOOLEAN]

Empty(up, corrupt) ==
  [up |-> up, corrupt |-> corrupt, floors |-> [m \in Matters |-> NoTier],
   verified |-> {}, retrieved |-> {}, failed |-> FALSE]

\* The constructors: every registration on a ledger that verifies, nothing of one
\* that does not.
Rebuilt ==
  IF torn THEN Empty(TRUE, TRUE)
  ELSE [up |-> TRUE, corrupt |-> FALSE,
        floors |-> [m \in Matters |-> FloorIn(ledger, m)],
        verified |-> VerifiedIn(ledger), retrieved |-> RetrievedIn(ledger),
        failed |-> FALSE]

\* Variant: a later registration replaces the floor.
RememberedLast(r) ==
  CASE r.of = "tier"      -> [registry EXCEPT !.floors[r.matter] = r.tier]
    [] r.of = "verified"  -> [registry EXCEPT !.verified = @ \cup {r.document}]
    [] r.of = "retrieved" -> [registry EXCEPT !.retrieved = @ \cup {r.citation}]

Remembered(r) ==
  CASE r.of = "tier"      -> [registry EXCEPT !.floors[r.matter] = Largest({@, r.tier})]
    [] r.of = "verified"  -> [registry EXCEPT !.verified = @ \cup {r.document}]
    [] r.of = "retrieved" -> [registry EXCEPT !.retrieved = @ \cup {r.citation}]

\* Variant: remembered whether or not the append returned.
RegisterEagerly(r, result) ==
  /\ registry.up /\ ~registry.corrupt
  /\ Cardinality(ledger) < MaxLedger
  /\ result = "ok" \/ faults < MaxFaults
  /\ ledger' = IF result = "lost" THEN ledger ELSE ledger \cup {r}
  /\ registry' = Remembered(r)
  /\ told' = IF result = "ok" THEN told \cup {r} ELSE told
  /\ faults' = IF result = "ok" THEN faults ELSE faults + 1
  /\ UNCHANGED <<settings, torn, waiting, egress, handled>>

\* register() of the three registries: append, then remember.  An append that throws
\* may have left its line ("stored") or not ("lost"); the caller gets an error.
Register(r, result) ==
  /\ registry.up /\ ~registry.corrupt
  /\ Cardinality(ledger) < MaxLedger
  /\ IF result = "ok"
     THEN /\ ledger' = ledger \cup {r}
          /\ registry' = Remembered(r)
          /\ told' = told \cup {r}
          /\ UNCHANGED faults
     ELSE /\ faults < MaxFaults
          /\ faults' = faults + 1
          /\ ledger' = IF result = "stored" THEN ledger \cup {r} ELSE ledger
          /\ registry' = [registry EXCEPT !.failed = TRUE]
          /\ UNCHANGED told
  /\ UNCHANGED <<settings, torn, waiting, egress, handled>>

(***************************************************************************)
(* The decision.                                                           *)
(***************************************************************************)
FiledUnder(r) == IF r.matter = NoMatter THEN {} ELSE {r.matter}

MattersOf(r) == FiledUnder(r) \cup r.context

\* resolveEffectiveConfidentiality: no lower than any registered floor, no lower than
\* the claim; the default only where nothing is known and a model is asked.
EffectiveTier(r) ==
  LET known == Largest({registry.floors[m] : m \in MattersOf(r)} \cup {r.claimed}) IN
  IF known = NoTier /\ r.tool = "query_external_model" /\ settings.defaultTier = 1 THEN 1 ELSE known

Boundary(r, tier) ==
  CASE r.tool \in {"send_email", "share_external", "upload_document"} -> "THIRD_PARTY_EGRESS"
    [] r.tool = "query_external_model" -> IF tier >= 1 THEN "CONFIDENTIAL_TO_CLOUD" ELSE "none"
    [] r.tool = "file_court_document" -> "COURT_FILING"
    [] r.tool = "sign_document" -> "SIGNATURE"
    [] r.tool = "send_payment" -> "MONEY_MOVEMENT"
    [] r.tool = "delete_external_resource" -> "IRREVERSIBLE_EXTERNAL_OP"

Decide(r, boundary, setting) ==
  IF r.trusted \/ boundary = "none" THEN "allow" ELSE setting.policy[boundary]

\* extractDocumentText: these tools have a field for reviewable text.
HasDocument(r) ==
  /\ r.document # NoDocument
  /\ r.tool \in {"file_court_document", "upload_document", "send_email", "share_external"}

\* Variant: a document that was only retrieved counts as verified.
CitationGateLax(r, boundary) ==
  boundary \in settings.gated =>
    /\ HasDocument(r)
    /\ settings.provenance => Cites[r.document] \subseteq registry.retrieved

CitationGate(r, boundary) ==
  boundary \in settings.gated =>
    /\ HasDocument(r)
    /\ Cites[r.document] # {} => r.document \in registry.verified
    /\ settings.provenance => Cites[r.document] \subseteq registry.retrieved

\* Variant: useLocal is honoured for every tool.
WayOutLocal(r, tier) ==
  CASE tier = NoTier -> "blocked"
    [] tier = 0 -> "clear"
    [] tier >= 1 /\ settings.localModel -> "local"
    [] OTHER -> IF r.maskable THEN "masked" ELSE "blocked"

\* The anonymize branch (evaluateTierFloor without data terms, LOCAL_ROUTABLE_TOOLS):
\* the way a payload may leave, or "blocked".
WayOut(r, tier) ==
  CASE tier = NoTier -> "blocked"
    [] tier = 0 -> "clear"
    [] tier >= 1 /\ settings.localModel /\ r.tool = "query_external_model" -> "local"
    [] OTHER -> IF r.maskable THEN "masked" ELSE "blocked"

\* The floor its callers were told of, for the matters of a request.
Due(r) == Largest({FloorIn(told, m) : m \in MattersOf(r)})

Left(r, tier, due, way, by) ==
  [req |-> r, tier |-> tier, due |-> due, way |-> way, by |-> by, under |-> settings]

\* performAndReceipt refuses when the ledger does not verify.
Leaves(record) ==
  egress' = IF torn \/ record.way = "blocked" THEN egress ELSE egress \cup {record}

\* handleEgress up to its first await: everything but the human gate is decided and
\* carried out here.
Handle(r) ==
  LET tier     == EffectiveTier(r)
      boundary == Boundary(r, tier)
      decision == Decide(r, boundary, settings)
  IN
  /\ registry.up
  /\ handled < MaxEgress
  /\ handled' = handled + 1
  /\ IF r.tool = "unknown" THEN UNCHANGED <<egress, waiting>>
     ELSE IF ~CitationGate(r, boundary) \/ decision = "block" THEN UNCHANGED <<egress, waiting>>
     ELSE CASE decision = "allow" ->
                 /\ Leaves(Left(r, tier, Due(r), "clear", "policy"))
                 /\ UNCHANGED waiting
            [] decision = "anonymize" ->
                 /\ Leaves(Left(r, tier, Due(r), WayOut(r, tier), "policy"))
                 /\ UNCHANGED waiting
            [] decision = "human" ->
                 /\ waiting' = IF torn THEN waiting
                               ELSE waiting \cup {Left(r, tier, Due(r), "clear", "human")}
                 /\ UNCHANGED egress
  /\ UNCHANGED <<settings, ledger, torn, registry, told, faults>>

\* The human gate answers (EgressGate says when it may): perform, or not.
Answer(record) ==
  /\ record \in waiting
  /\ waiting' = waiting \ {record}
  /\ Leaves(record) \/ UNCHANGED egress
  /\ UNCHANGED <<settings, ledger, torn, registry, told, handled, faults>>

(***************************************************************************)
(* A process's life.                                                       *)
(***************************************************************************)
\* The firm may have edited the policy since; a running gate does not reload it.
Boot ==
  /\ ~registry.up
  /\ registry' = Rebuilt
  /\ settings' \in Settings
  /\ UNCHANGED <<ledger, torn, waiting, told, egress, handled, faults>>

Stop ==
  /\ registry.up
  /\ registry' = Empty(FALSE, FALSE)
  /\ waiting' = {}
  /\ UNCHANGED <<settings, ledger, torn, told, egress, handled, faults>>

\* Power fails while some receipt is written: a part of its line stays.
PowerLoss ==
  /\ faults < MaxFaults
  /\ faults' = faults + 1
  /\ torn' = TRUE
  /\ registry' = Empty(FALSE, FALSE)
  /\ waiting' = {}
  /\ UNCHANGED <<settings, ledger, told, egress, handled>>

\* The documented recovery, with the gate stopped.
TruncateTail ==
  /\ torn /\ ~registry.up
  /\ torn' = FALSE
  /\ UNCHANGED <<settings, ledger, registry, waiting, told, egress, handled, faults>>

-------------------------------------------------------------------------------
Init ==
  /\ settings \in Settings
  /\ ledger = {} /\ torn = FALSE
  /\ registry = Empty(FALSE, FALSE)
  /\ waiting = {} /\ told = {} /\ egress = {}
  /\ handled = 0 /\ faults = 0

Next ==
  \/ \E r \in Registration, result \in {"ok", "stored", "lost"} : Register(r, result)
  \/ \E r \in Requests : Handle(r)
  \/ \E record \in waiting : Answer(record)
  \/ Boot \/ Stop \/ PowerLoss \/ TruncateTail

Spec == Init /\ [][Next]_vars

-------------------------------------------------------------------------------
(***************************************************************************)
(* Properties.                                                             *)
(***************************************************************************)
Record == [req: Requests, tier: Tier \cup {NoTier}, due: Tier \cup {NoTier},
           way: {"clear", "masked", "local"}, by: {"policy", "human"}, under: Settings]

TypeOK ==
  /\ settings \in Settings
  /\ ledger \subseteq Registration /\ torn \in BOOLEAN
  /\ registry \in Registry
  /\ waiting \subseteq Record /\ egress \subseteq Record
  /\ told \subseteq Registration
  /\ handled \in Nat /\ faults \in Nat

\* What a running gate decides by is what the ledger says: nothing its registries
\* hold is missing there, and nothing there is missing in them unless an append of
\* this life threw.
RegistriesFollowLedger ==
  registry.up /\ ~registry.corrupt =>
    /\ \A m \in Matters : registry.floors[m] <= FloorIn(ledger, m)
    /\ registry.verified \subseteq VerifiedIn(ledger)
    /\ registry.retrieved \subseteq RetrievedIn(ledger)
    /\ ~registry.failed => registry = Rebuilt

\* No request leaves under a tier below a floor that was registered for a matter it is
\* filed under or draws on: not after a restart, not after a failed registration, and
\* not while the ledger is torn and the floors cannot be read.
FloorsHonoured == \A record \in egress : record.due <= record.tier

\* Only the model tool has a performer that routes to the local model.
InClear(record) ==
  record.way = "clear" \/ (record.way = "local" /\ record.req.tool # "query_external_model")

\* Where the policy says anonymize for confidential work, what reaches a cloud model
\* or a vendor in clear is standard work, by every floor registered before: else it
\* is masked, or goes to the local model through a tool that really routes there.
ClearOnlyIfStandard ==
  \A record \in egress :
    LET boundary == Boundary(record.req, Largest({record.due, record.tier})) IN
    /\ boundary # "none" /\ Decide(record.req, boundary, record.under) = "anonymize"
    /\ InClear(record)
    => record.due <= 0 /\ record.tier = 0

\* A document with citations crosses a gated boundary only after its verification, and
\* where the policy asks for it the retrieval of every authority, went on the ledger.
CitationsVerified ==
  \A record \in egress :
    /\ Boundary(record.req, record.tier) \in record.under.gated
    /\ Cites[record.req.document] # {}
    => /\ record.req.document \in VerifiedIn(ledger)
       /\ record.under.provenance => Cites[record.req.document] \subseteq RetrievedIn(ledger)

===============================================================================

----------------------------- MODULE MatterAccess -----------------------------
(***************************************************************************)
(* Who may approve for which matter: the firm's roster, folded with the    *)
(* grants and revokes receipted on the ledger, through restarts, roster    *)
(* edits, failing appends, torn ledgers and clocks that move both ways.    *)
(*                                                                         *)
(* Only the ledger's access events are kept.  An event is appended and     *)
(* then applied to memory in one synchronous call; what can come between   *)
(* is a failure of the append, with or without its line in the file.       *)
(* A document stands for its own hash, which is the epoch it opens; what   *)
(* it says is resolved against the users and issues of Paperclip at every  *)
(* start.                                                                  *)
(***************************************************************************)
EXTENDS Integers, Sequences, SequencesExt, FiniteSets

CONSTANTS
  Users, Matters, Boundaries,
  Documents, NoDocument,
  Says,          \* document -> [parses, rows, authority], as the firm wrote it
  Enforced,      \* documents that say enforcement: on
  Directories,
  Found,         \* directory -> [members, issues], as Paperclip listed them
  NoEvent,
  MaxLines,      \* bound: access events on the ledger
  MaxTime,       \* bound: the clock
  MaxFaults      \* bound: appends that fail, and power losses

Pairs == Users \X Matters

\* An address is spelled in some case; identifiers are matched as they stand.
ASSUME RosterAssumption ==
  /\ \A d \in Documents :
       /\ Says[d].parses \in BOOLEAN
       /\ \A i \in DOMAIN Says[d].rows : DOMAIN Says[d].rows[i] = {"email", "matters"}
       /\ DOMAIN Says[d].authority = Boundaries
  /\ \A f \in Directories :
       /\ Found[f].members \in Seq(Range(Found[f].members))
       /\ Found[f].issues \in Seq(Range(Found[f].issues))
       /\ \A i \in DOMAIN Found[f].members : Found[f].members[i].id \in Users
       /\ \A i \in DOMAIN Found[f].issues : Found[f].issues[i].id \in Matters
  /\ Enforced \subseteq Documents
  /\ NoDocument \notin Documents

ASSUME BoundAssumption ==
  MaxLines \in Nat /\ MaxTime \in Nat /\ MaxFaults \in Nat

VARIABLES
  roster,   \* the document on the firm's disk
  chain,    \* the access events on the ledger
  torn,     \* does the ledger end in bytes that do not parse?
  gate,     \* the running process: its registry, or down
  clock,
  answered, \* pair -> the last grant or revoke the caller was told succeeded
  faults

vars == <<roster, chain, torn, gate, clock, answered, faults>>

(***************************************************************************)
(* Data.                                                                   *)
(***************************************************************************)
Epoch == Documents \cup {NoDocument}

\* A receipt with tool matter_access: who was changed by whom, or which document
\* was loaded.
Line == [reason: {"grant", "revoke"}, pair: Pairs, actor: Users, expiry: Nat]
        \cup [reason: {"epoch"}, document: Documents]

\* FoldedEvent.
Event == [kind: {"grant", "revoke"}, epoch: Epoch, expiry: Nat]

Answer == [kind: {"grant", "revoke"}, document: Documents, expiry: Nat]

\* The registry of one process; failed says that an append of it threw.
Gate == [up: BOOLEAN, corrupt: BOOLEAN, baseline: Epoch, epoch: Epoch,
         directory: Directories \cup {NoDocument},
         events: [Pairs -> Event \cup {NoEvent}], failed: BOOLEAN]

ASSUME NoEventAssumption == NoEvent \notin Event \cup Answer

GateDown == [up |-> FALSE, corrupt |-> FALSE, baseline |-> NoDocument,
             epoch |-> NoDocument, directory |-> NoDocument, events |-> [pair \in Pairs |-> NoEvent],
             failed |-> FALSE]

(***************************************************************************)
(* The roster document and its compilation.                                *)
(***************************************************************************)
Lower(address) == address.name

\* Nothing is listed twice, not even in two spellings.
ParsesDocument(text) ==
  /\ text.parses
  /\ \A i, j \in DOMAIN text.rows :
       Lower(text.rows[i].email) = Lower(text.rows[j].email) => i = j
  /\ \A i \in DOMAIN text.rows : IsInjective(text.rows[i].matters)
  /\ \A b \in Boundaries : \A i, j \in DOMAIN text.authority[b] :
       Lower(text.authority[b][i]) = Lower(text.authority[b][j]) => i = j

\* Records of Paperclip without an address, or with one that is not safe, are skipped.
UsersByEmail(found, name) ==
  {i \in DOMAIN found.members :
     found.members[i].safe /\ Lower(found.members[i].email) = name}
IssuesByIdentifier(found, identifier) ==
  {i \in DOMAIN found.issues : found.issues[i].identifier = identifier}

\* Variant: the first of several records is taken.
ResolvesAny(matches) == matches # {}
\* No record, or more than one, and the gate does not start.
ResolvesExactlyOne(matches) == Cardinality(matches) = 1

First(matches) == CHOOSE i \in matches : \A j \in matches : i <= j
UserOf(found, address) == found.members[First(UsersByEmail(found, Lower(address)))].id
MatterOf(found, identifier) == found.issues[First(IssuesByIdentifier(found, identifier))].id

Compiles(text, found) ==
  /\ ParsesDocument(text)
  /\ \A i \in DOMAIN text.rows :
       /\ ResolvesExactlyOne(UsersByEmail(found, Lower(text.rows[i].email)))
       /\ \A k \in DOMAIN text.rows[i].matters :
            ResolvesExactlyOne(IssuesByIdentifier(found, text.rows[i].matters[k]))
       /\ \A j \in DOMAIN text.rows :
            UserOf(found, text.rows[i].email) = UserOf(found, text.rows[j].email) => i = j
  /\ \A b \in Boundaries : \A i \in DOMAIN text.authority[b] :
       ResolvesExactlyOne(UsersByEmail(found, Lower(text.authority[b][i])))

CompileMatterAccess(text, found) ==
  [pairs |-> UNION {{<<UserOf(found, text.rows[i].email), MatterOf(found, text.rows[i].matters[k])>> :
                       k \in DOMAIN text.rows[i].matters} : i \in DOMAIN text.rows},
   authority |-> UNION {{<<UserOf(found, text.authority[b][i]), b>> :
                       i \in DOMAIN text.authority[b]} : b \in Boundaries}]

Starts == {start \in Documents \X Directories : Compiles(Says[start[1]], Found[start[2]])}
Compiled == [start \in Starts |-> CompileMatterAccess(Says[start[1]], Found[start[2]])]

(***************************************************************************)
(* The fold of the constructor: the last event of a pair in chain order,   *)
(* under the epoch in force where it stands.                               *)
(***************************************************************************)
Latest(S) == CHOOSE i \in S : \A j \in S : j <= i

EventLines(lines, pair) ==
  {i \in 1 .. Len(lines) : lines[i].reason # "epoch" /\ lines[i].pair = pair}

EpochAt(lines, n) ==
  LET loads == {i \in 1 .. n : lines[i].reason = "epoch"} IN
  IF loads = {} THEN NoDocument ELSE lines[Latest(loads)].document

\* Variant: the epoch of the whole chain is put on every event.
FoldUnderLastEpoch(lines) ==
  [pair \in Pairs |->
     LET own == EventLines(lines, pair) IN
     IF own = {} THEN NoEvent
     ELSE [kind   |-> lines[Latest(own)].reason,
           epoch  |-> EpochAt(lines, Len(lines)),
           expiry |-> lines[Latest(own)].expiry]]

Fold(lines) ==
  [pair \in Pairs |->
     LET own == EventLines(lines, pair) IN
     IF own = {} THEN NoEvent
     ELSE [kind   |-> lines[Latest(own)].reason,
           epoch  |-> EpochAt(lines, Latest(own)),
           expiry |-> lines[Latest(own)].expiry]]

(***************************************************************************)
(* Decisions.                                                              *)
(***************************************************************************)
Baseline == Compiled[<<gate.baseline, gate.directory>>]
BaselineGrants(pair) == pair \in Baseline.pairs

\* Variant: a revoke gives way to any roster that lists the pair.
IsEntitledByRoster(user, matter) ==
  LET last == gate.events[<<user, matter>>] IN
  /\ ~gate.corrupt
  /\ \/ BaselineGrants(<<user, matter>>)
     \/ last # NoEvent /\ last.kind = "grant" /\ clock < last.expiry

\* Variant: after any event the roster no longer counts.
IsEntitledByLastEvent(user, matter) ==
  LET last == gate.events[<<user, matter>>] IN
  /\ ~gate.corrupt
  /\ IF last = NoEvent THEN BaselineGrants(<<user, matter>>)
     ELSE last.kind = "grant" /\ clock < last.expiry

\* A revoke beats the roster it was made under; a grant holds until it expires.
IsEntitled(user, matter) ==
  LET last == gate.events[<<user, matter>>] IN
  /\ ~gate.corrupt
  /\ \/ /\ BaselineGrants(<<user, matter>>)
        /\ last # NoEvent /\ last.kind = "revoke" => last.epoch # gate.epoch
     \/ last # NoEvent /\ last.kind = "grant" /\ clock < last.expiry

HasDecisionAuthority(user, boundary) ==
  ~gate.corrupt /\ <<user, boundary>> \in Baseline.authority

\* checkApprover: authority over the boundary, and every matter involved.
CheckApprover(user, boundary, matters) ==
  gate.baseline \in Enforced =>
    /\ HasDecisionAuthority(user, boundary)
    /\ \A matter \in matters : IsEntitled(user, matter)

(***************************************************************************)
(* Appending an event.                                                     *)
(***************************************************************************)
Results == IF faults < MaxFaults THEN {"ok", "stored", "lost"} ELSE {"ok"}

Appended(result, line) ==
  /\ Len(chain) < MaxLines
  /\ result \in Results
  /\ chain' = IF result = "lost" THEN chain ELSE Append(chain, line)
  /\ faults' = IF result = "ok" THEN faults ELSE faults + 1

\* What memory and the caller hold after the append: nothing new if it threw.
Applied(result, pair, kind, expiry) ==
  IF result = "ok"
  THEN /\ gate' = [gate EXCEPT !.events[pair] =
                     [kind |-> kind, epoch |-> gate.epoch, expiry |-> expiry]]
       /\ answered' = [answered EXCEPT ![pair] =
                     [kind |-> kind, document |-> gate.baseline, expiry |-> expiry]]
  ELSE /\ gate' = [gate EXCEPT !.failed = TRUE]
       /\ answered' = [answered EXCEPT ![pair] = NoEvent]

ChangeLine(reason, pair, actor, expiry) ==
  [reason |-> reason, pair |-> pair, actor |-> actor, expiry |-> expiry]

Grant(pair, actor, expiry, result) ==
  /\ gate.up /\ ~gate.corrupt
  /\ actor # pair[1]
  /\ expiry > clock
  /\ Appended(result, ChangeLine("grant", pair, actor, expiry))
  /\ Applied(result, pair, "grant", expiry)
  /\ UNCHANGED <<roster, torn, clock>>

Revoke(pair, actor, result) ==
  /\ gate.up /\ ~gate.corrupt
  /\ Appended(result, ChangeLine("revoke", pair, actor, 0))
  /\ Applied(result, pair, "revoke", 0)
  /\ UNCHANGED <<roster, torn, clock>>

(***************************************************************************)
(* A process's life.                                                       *)
(***************************************************************************)
Registry(epoch, directory) ==
  [up |-> TRUE, corrupt |-> FALSE, baseline |-> roster, directory |-> directory,
   epoch |-> epoch, events |-> Fold(chain), failed |-> FALSE]
DenyAll(directory) ==
  [GateDown EXCEPT !.up = TRUE, !.corrupt = TRUE, !.baseline = roster, !.directory = directory]

\* Module load: compile the roster, fold the ledger, receipt the document's epoch.
\* A ledger that does not verify leaves a registry that denies everything; an epoch
\* append that throws ends the process.
Boot(directory, result) ==
  /\ ~gate.up /\ <<roster, directory>> \in Starts
  /\ IF torn
     THEN /\ result = "ok"
          /\ gate' = DenyAll(directory)
          /\ UNCHANGED <<chain, faults>>
     ELSE /\ Appended(result, [reason |-> "epoch", document |-> roster])
          /\ gate' = IF result = "ok" THEN Registry(roster, directory) ELSE GateDown
  /\ UNCHANGED <<roster, torn, clock, answered>>

\* A document that does not compile ends the process before it serves anything.
RefusesToStart(directory) ==
  /\ ~gate.up /\ <<roster, directory>> \notin Starts
  /\ UNCHANGED vars

Stop ==
  /\ gate.up
  /\ gate' = GateDown
  /\ UNCHANGED <<roster, chain, torn, clock, answered, faults>>

\* External: the firm edits its document; a running gate does not see it.
EditRoster(document) ==
  /\ document # roster
  /\ roster' = document
  /\ UNCHANGED <<chain, torn, gate, clock, answered, faults>>

\* External: the clock is set, forwards or backwards.
SetClock(time) ==
  /\ time # clock
  /\ clock' = time
  /\ UNCHANGED <<roster, chain, torn, gate, answered, faults>>

\* Power fails while some receipt is written: a part of its line stays.
PowerLoss ==
  /\ faults < MaxFaults
  /\ faults' = faults + 1
  /\ torn' = TRUE
  /\ gate' = GateDown
  /\ UNCHANGED <<roster, chain, clock, answered>>

\* The documented recovery, with the gate stopped.
TruncateTail ==
  /\ torn /\ ~gate.up
  /\ torn' = FALSE
  /\ UNCHANGED <<roster, chain, gate, clock, answered, faults>>

-------------------------------------------------------------------------------
Init ==
  /\ roster \in Documents
  /\ chain = <<>>
  /\ torn = FALSE
  /\ gate = GateDown
  /\ clock = 0
  /\ answered = [pair \in Pairs |-> NoEvent]
  /\ faults = 0

Next ==
  \/ \E pair \in Pairs, actor \in Users, result \in {"ok", "stored", "lost"} :
       \/ \E expiry \in 1 .. MaxTime : Grant(pair, actor, expiry, result)
       \/ Revoke(pair, actor, result)
  \/ \E directory \in Directories :
       \/ \E result \in {"ok", "stored", "lost"} : Boot(directory, result)
       \/ RefusesToStart(directory)
  \/ Stop
  \/ \E document \in Documents : EditRoster(document)
  \/ \E time \in 0 .. MaxTime : SetClock(time)
  \/ PowerLoss
  \/ TruncateTail

Spec == Init /\ [][Next]_vars

-------------------------------------------------------------------------------
(***************************************************************************)
(* Properties.                                                             *)
(***************************************************************************)
TypeOK ==
  /\ roster \in Documents
  /\ chain \in Seq(Line)
  /\ torn \in BOOLEAN
  /\ gate \in Gate
  /\ gate.up => <<gate.baseline, gate.directory>> \in Starts
  /\ gate.up /\ ~gate.corrupt => gate.epoch = gate.baseline
  /\ clock \in Nat
  /\ answered \in [Pairs -> Answer \cup {NoEvent}]
  /\ faults \in Nat

Decides == gate.up /\ ~gate.corrupt

\* A restart decides as the process before it did: unless an append of this life
\* threw, memory is what the fold of the ledger gives.
RestartAgrees ==
  Decides /\ ~gate.failed =>
    /\ gate.events = Fold(chain)
    /\ gate.epoch = EpochAt(chain, Len(chain))

\* A revoke the caller was told of holds through restarts, crashes, recoveries and
\* clock changes: where the roster is enforced, no approval for the matter passes
\* until a later grant, or until a gate runs with another document that lists the
\* pair.
RevokeHolds ==
  \A pair \in Pairs :
    /\ answered[pair] # NoEvent /\ answered[pair].kind = "revoke"
    /\ gate.up /\ gate.baseline \in Enforced
    /\ \E b \in Boundaries : CheckApprover(pair[1], b, {pair[2]})
    => gate.baseline # answered[pair].document /\ BaselineGrants(pair)

\* A grant the caller was told of holds until it expires, whatever the roster says
\* by then, and not a moment longer than the roster does.
GrantUntilExpiry ==
  \A pair \in Pairs :
    /\ answered[pair] # NoEvent /\ answered[pair].kind = "grant" /\ Decides
    => (IsEntitled(pair[1], pair[2])
          <=> clock < answered[pair].expiry \/ BaselineGrants(pair))

\* Nobody decides whom the firm did not name, or by an address, a spelling or an
\* identifier that might mean another: who passes the approver check is the only user
\* with an address the document gives the boundary to; and is, for each matter, named
\* for it in the same way, or granted it by another user, on the ledger, to this hour.
OnlyUser(name, user) ==
  LET found == Found[gate.directory] IN
  {found.members[i].id : i \in UsersByEmail(found, name)} = {user}
OnlyMatter(identifier, matter) ==
  LET found == Found[gate.directory] IN
  {found.issues[i].id : i \in IssuesByIdentifier(found, identifier)} = {matter}

NamedForBoundary(user, boundary) ==
  \E address \in Range(Says[gate.baseline].authority[boundary]) : OnlyUser(Lower(address), user)
NamedForMatter(user, matter) ==
  \E row \in Range(Says[gate.baseline].rows) :
    /\ OnlyUser(Lower(row.email), user)
    /\ \E identifier \in Range(row.matters) : OnlyMatter(identifier, matter)
GrantedByAnother(user, matter) ==
  \E i \in 1 .. Len(chain) :
    /\ chain[i].reason = "grant" /\ chain[i].pair = <<user, matter>>
    /\ chain[i].actor # user /\ clock < chain[i].expiry

OnlyTheNamed ==
  \A user \in Users, boundary \in Boundaries, matter \in Matters :
    /\ gate.up /\ gate.baseline \in Enforced
    /\ CheckApprover(user, boundary, {matter})
    => /\ NamedForBoundary(user, boundary)
       /\ NamedForMatter(user, matter) \/ GrantedByAnother(user, matter)

\* The documents enforced since the latest event of a pair.
LoadedSince(pair) ==
  {chain[i].document : i \in {j \in 1 .. Len(chain) :
     /\ chain[j].reason = "epoch"
     /\ \A k \in EventLines(chain, pair) : k < j}}

\* "they add Jane back, reload, and nothing happens" must not happen: when the firm
\* ran a document without the pair since the revoke, and now runs one that lists it
\* again, the user is entitled again.
AddedBackRestores ==
  \A pair \in Pairs :
    /\ answered[pair] # NoEvent /\ answered[pair].kind = "revoke"
    /\ Decides /\ BaselineGrants(pair)
    /\ \E document \in LoadedSince(pair) :
         pair \notin CompileMatterAccess(Says[document], Found[gate.directory]).pairs
    => IsEntitled(pair[1], pair[2])

===============================================================================

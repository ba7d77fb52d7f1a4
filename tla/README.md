# Specifications of Bailey by PossibLaw

Bailey is a layer on top of an external control plane (Paperclip) that lets AI
agents do legal work. What it adds is control: every action that leaves the firm
goes through a local HTTP server, the *gate proxy* (`gate-proxy/`), which decides
by policy whether it may leave, waits for a human where the policy says so, and
writes every decision on a hash-chained ledger of receipts. The specifications
here model that gate and the state it lives on, as TLA+ state machines that TLC
checks on small instances and TLAPS proves theorems about. Paths below are
relative to the repository.

## 1. The system

| Part | State | Operations | Talks to |
|---|---|---|---|
| Egress dispatch (`server.ts`, `gates/human.ts`, `operations.ts`) | in-flight requests | `POST /egress/<tool>`: reserve, ask a human, re-enter, perform, receipt | ledger, Paperclip, vendors |
| Rejection poller (`poller.ts`) | one pass at a time | `pollOnce`: find pending approvals, read, comment, receipt | ledger, Paperclip |
| Receipt ledger (`receipts.ts`) | one JSONL file | `append`, `assertAppendable`, `verify` | file system |
| Writer lease and life cycle (`receipt-lease.ts`, `index.ts`) | a lock file | start, serve, drain, deadline, exit | file system, other gate processes |
| Routes (`server.ts`, `authorization.ts`, `inbound-auth.ts`) | a policy read at start | authenticate, authorize, parse, refuse or hand on | Paperclip, every handler |
| Egress decision (`matter-classification.ts`, `boundary.ts`, `policy.ts`, `gates/tier-floor.ts`, `quality/*-registry.ts`) | three registries rebuilt from the ledger | register, resolve, classify, decide, citation gate | ledger, dispatch |
| Matter access (`matter-access.ts`, `access-registry.ts`) | roster + folded events | boot, grant, revoke, `checkApprover` | ledger, human gate |
| Anchoring (`server.ts`, `anchor-tsa.ts`) | none of its own | reserve, timestamp, comment, receipt | ledger, TSA, Paperclip |
| Vendor calls (`connectors.ts`, `token-provider.ts`, `fetch-timeout.ts`) | cached token, exchange in flight | the performers, `getToken`, `withFetchTimeout` | OAuth servers, vendors |
| Trust report (`quality/signoff.ts`) | none | project the chain per matter | ledger |
| Trace store (`trace-store/`) | JSONL per matter, cursors | poll, append, purge | Paperclip, gate |
| Learning loop (`learning-loop/`) | ledger, memory, proposals, overlays | CLI commands that load, change and save | file system |
| Firm facade (`mcp-servers/firm-facade/`) | none | MCP tools: Paperclip calls and one receipt each | Paperclip, gate |
| Deadline engine (`deadline-engine/`) | none | `computeDeadline` | gate (receipt of the result) |

The rest (legal-data adapter, anonymizer, citation extraction, firm overview, evaluation harnesses, launcher, config
compiler, deployment, prompt content) is listed with the reason it is left out in
`PROJECT.json`, "components".

How the modelled parts depend on each other:

    FirmFacade --receipts--> GateRoutes
                                 |
                          EgressDecision --decides--> EgressGate --asks--> MatterAccess
                                 |                        |                     |
                                 |                        +--performs--> VendorCalls
                                 |                        |                     |
                                 +---- registrations -----+----- receipts ------+
                                                          v
             MatterReport <--reads-- ReceiptChain  (file, fsync, lease, processes)

`TraceStore` (fed by the gate's sink and by Paperclip), `LearningLoop` (a command
line and the launcher) and `Deadlines` (a computation whose facts are receipted)
stand beside it.

### Where it is hard

* **Interleaving.** One Node process serves many requests. A handler keeps the
  event loop between two awaits and gives it up at each Paperclip or vendor call,
  where another request or the poller runs. An action of `EgressGate` is therefore
  the code between two awaits.
* **Crashes.** The gate may die between a reservation and its outcome, or lose
  power after a write and before its fsync.
* **Partial failure.** A write or fsync throws; a Paperclip or vendor call fails
  after it took effect; a receipt cannot be written because it is too large.
* **More than one process.** A lock file is all that keeps a second gate from the
  ledger, and parts of start-up come before it.
* **State rebuilt from the ledger.** Tiers, verified documents and access rights
  live in memory, must survive restarts, and fail closed when the ledger is torn.
* **Files without locks.** The trace store, the learning loop and their users rewrite
  files that others append to or read.
* **Time.** Grants, tokens and captured texts expire by clocks; shutdown and every
  vendor call have a deadline; a legal deadline rolls over weekends and holidays.

What each part must get right, and the properties that say it, is section 3;
`PROJECT.json`, "hazards", lists the hazards at the lines where they bite,
including those no property covers yet.

## 2. Modules

| Module | Models | Notes |
|---|---|---|
| `OneShotDispatch` | the promise about side effects | abstract; no ledger, no process |
| `EgressGate` | dispatch, human gate, poller, crash and disk faults | implements `OneShotDispatch` |
| `MCEgressGate` | its instances | two payloads, one receipt hash |
| `EgressGateProofs` | theorems | section 5 |
| `LedgerPromise` | what `EgressGate` assumes of a ledger | abstract |
| `ReceiptChain` | file, append as system calls, lease, processes | implements `LedgerPromise` |
| `ReceiptChainProofs` | theorems | section 5 |
| `EgressDecision`, `MCEgressDecision` | classification, policy, citation gate, registries | |
| `EgressDecisionProofs` | theorems | section 5 |
| `MatterAccess`, `MCMatterAccess` | roster, grants, revokes, approver check | |
| `MatterAccessProofs` | theorems | section 5 |
| `LearningLoop`, `MCLearningLoop` | lessons, skill proposals, overlays, the launcher's use of them | |
| `LearningLoopProofs` | theorems | section 5 |
| `GateRoutes` | one request to the gate: who, which route, allowed, well formed, receipt | operators, no state |
| `MatterReport` | the Matter Trust Report as sections of a ledger | operators, no state |
| `FirmFacade`, `MCFirmFacade` | the facade's tools, anchoring, other agents, board, poller | composes the two above |
| `FirmFacadeProofs` | theorems | section 5 |
| `VendorCalls`, `MCVendorCalls` | performers, token provider, deadlines, Notion pages | |
| `VendorCallsProofs` | theorems | section 5 |
| `TraceStore`, `MCTraceStore` | partition, cursor, poller, sink, purge, configuration | |
| `TraceStoreProofs` | theorems | section 5 |
| `Deadlines`, `MCDeadlines` | the Rule 6 computation against the rule | operators and one step |

`PROJECT.json`, "map", gives for each definition the lines it stands for. A
definition whose comment starts with "Variant:" is not part of a specification:
it is a plausible mistake in the definition after it, kept to show that a
property would notice.

### EgressGate

`handler[h]` is one in-flight request: what it awaits (`creating` an approval,
`notifying` the issue, `checking` an approval, `performing`) and the answer so far.
`Refuse`, `Allow`, `RequestApproval` and `Reenter` are `handleEgress` from the
decision to its first await; `CreateReturns`, `NotifyReturns`, `Resume...` and
`PerformReturns` are the code after each await; `PaperclipFails` and
`PerformFails` its catch blocks. `CreateApproval`, `ReadApproval` and `Execute` are
the moment a call takes effect outside. They are separate steps, so that a crash or
a failure can fall between the effect and its answer. `Poll...` are the stretches of
`pollOnce`.

`log` is the ledger: its lines and how many are fsynced. `Written(log, receipt, r)`
is an append with result `ok`, `unsynced` (line written, fsync threw) or `lost`;
`disk` switches faults on and off, and while it fails `assertAppendable` refuses what
comes before any check of the ledger. `CrashAndRestart` keeps any prefix no shorter
than the fsynced part. The gate keeps nothing else that matters over a restart.

`dispatchOperationId` is a SHA-256 of five fields and is modelled as the record of
those fields, i.e. as injective. `ShaOf` is the `payloadSha256` of a receipt; it
leaves the destination of a binary upload out, which is why the human gate binds
an approval to another hash (`BindingSha`).

### ReceiptChain

One level lower: an append is read-the-tail, write, fsync, with a process dying or a
machine losing power between. `Processes` start, read the chain into their
registries, append a document epoch if a roster is configured, take the lease, serve,
drain and stop, in the order of `index.ts`. `PowerLoss` cuts unsynced lines and may
leave a part of the next one. `TruncateTail` and `RemoveLease` are the documented
manual recoveries.

`ImplementsLedger` shows that this is the ledger `EgressGate` takes for granted: lines
are added at the end, what is fsynced is never taken back, and it holds every append
that returned. It holds for tears inside a line
(`Tears = {"part"}`) and writes that store a whole line or throw. With `Tears =
{"newline"}` (a line kept without its newline) `AckedStored` fails; a short
`writeSync`, whose byte count the code does not look at, is not in the model. That the
lines also form one chain (`ChainUnforked`) holds without a roster only: `chain_fork`
shows the epoch receipt, which is appended before the lease is held.

### EgressDecision

The decision is synchronous, so `Handle` is `handleEgress` from the request to its
first await: effective tier (`resolveEffectiveConfidentiality`), boundary
(`classify`), policy (`decide`), citation gate, tier floor and the way out: clear,
masked, or to the local model. `Register` is `register()` of the three registries,
which all append first and remember afterwards. `Boot` rebuilds the registries and
reads the policy anew. The human gate between decision and dispatch is reduced to
`Answer`; its detail is in `EgressGate`.

### MatterAccess

`Boot` compiles the roster against what Paperclip listed at that start, folds the
access events of the ledger and receipts the document's epoch. A document that does
not parse, names an address or a matter that no record or several records have, or
names one user twice, ends the process (`RefusesToStart`); `Compiles` has the
conditions of `parseMatterAccessDocument` and `compileMatterAccess`, with an address as
a name and a spelling. `Grant`, `Revoke` and `CheckApprover` are the registry's methods.
A document stands for its hash. In this revision only `Boot` and `CheckApprover` are
reached by a route; grants and revokes are an API with tests and no server route. A
line whose append threw after the write is taken to stay ("stored"); that a power
loss may still take it is in `ReceiptChain`.

### LearningLoop

There is no process that stays: each command of `learning-loop/src/cli.ts` loads a
file, decides, and rewrites the file. A command is a record of what it still has to
write; `Propose`, `Decide`, `ProposeEdit`, `ApproveEdit` and the others set it up from
the file as it is at that moment (`Begin`), and the writes follow one at a time, each
as an opening that truncates and a filling (`OpenLedger`, `WriteLedger`, ...), in the
order of `saveStore` and `writeOverlay`. `Kill` may come before any of them. The
launcher is a process of three steps: load the parties the ledger knows, screen the
memory file, import what the files hold by then. People decide on what they were
shown (`cards`), which need not be what the file says when the command runs; that
difference is the history the properties are about. `ledger.md`, a rendering nothing
reads, and the wording of all files are left out; `archive` keeps which lessons were
ever appended, not how often (each save appends the overflow again).

### GateRoutes, MatterReport and FirmFacade

`Serve(identity, path, body, policy)` is a request from the socket to its answer, for
every route of the gate: `Admission` authenticates and authorizes by the policy that
`LoadAuthorization` made, and `Handle` is the handler. An answer is a status and the
receipt that goes with it. Bodies are records whose fields are absent, malformed or a
value; a digest is only ever present. `POST /egress/...` is followed as far as
`handleEgress` looks at the request before it decides (`EgressPrelude`); from there on
it is `EgressDecision` and `EgressGate`.

`Bundle(ledger, matter)` of `MatterReport` gives each section of the report as the set
of ledger positions it shows.

`FirmFacade` runs both on one ledger. A tool call is a sequence of Paperclip requests
(`GuardReads`, `Lists`, `ReadsDocument`, `CreatesIssue`, `CreatesApproval`) and one
receipt (`Records`, answered by `Serve`); each may fail, and those that change
something may fail after they did. `Replies` ends the call, with or without the caller
hearing of it. `AnchorReserves`, `Stamps`, `CommentsAnchor` and `Anchored` are `POST
/receipts/anchor` from await to await. `ClientPosts` are requests of other agents,
`Egress` is an egress as its receipts show it, `PollReads` and `PollBlocks` are
`pollOnce`. `from`, the call, sender and status of an entry, is history no guard reads.

### VendorCalls

A call is one performer run after its reservation. `Performers` gives where each of
them takes a request first: to the token provider, to the vendor, to a file, or to an
error. `GetsToken` serves a static or cached token, joins the exchange in flight or
starts one; `Issues`, `ExchangeReturns` and `ExchangeFails` are the exchange. The token
endpoint may answer late, without a usable lifetime, or never. `VendorActs` and
`AnswerArrives` are a request and its answer; a Notion page takes several (`Batch`),
whose blocks `ChunkTextForNotion` makes of the text, paragraphs first. Time is one
clock, in units of the refresh skew. `VendorAssumption` has the fetch timeout no longer
than the skew, as by default (15 s and 60 s); `GATE_FETCH_TIMEOUT_MS` may be set to
120 s, and for such a gate `NoStaleToken` is not claimed.

### TraceStore

One matter's partition, cursor and tasks. What runs in one Node process is kept apart
except at the await of `pollMatter`; `Home` says which process a task runs in, because
the repository calls the poller and the purge from tests alone. `LoadConfig` is
`loadTraceConfig`, which closes the section over any doubt. `Emit` appends one record
at a time, so that a failure or a death can fall between two and before `SaveCursor`.

An append that throws or dies may leave half a line (`WriteFails`, `EmitFails`,
`Restart`). The next record is written behind it, on the same line, and lost; from the
half line on `readTraces` throws (`Readable`). Two readers catch more than a missing
file, and both are actions: `MissCursor` takes a cursor that cannot be read for an
empty one, and goes on to replace it; `PurgeMisreads` takes a partition that cannot be
read for an empty one, and returns. A cursor that can be read and does not parse
(`Scramble`) makes the poll reject (`RefuseCursor`). Nothing is fsynced in the trace
store, and the model is of processes that die, not of machines that lose power.

### Deadlines

`holidays.ts` and `engine.ts` on day numbers, and `cli.ts` as a step. The reference
(`DayOff`, `FirstFrom`, `LastUpTo`) states the rule by a day's own date and its
neighbours, without a list of holidays per year. `RollForward` is recursive, as in
the code, so no theorem is stated there.

## 3. Runs

All runs finish within three minutes on two workers.

| Run | Question | Bounds |
|---|---|---|
| `gate_safety` | Is every identity dispatched at most once, after a durable reservation, only as approved, with a truthful ledger, whatever fails? | 2 handlers, 3 requests, 2 payloads with one receipt hash (one oversized), 1 fault, 1 crash |
| `gate_notice` | Does every rejection end in a blocked receipt, or in what the property names? | 1 handler, 2 tools, 2 requests, 2 approvals, 1 issue, 1 fault, 1 crash |
| `gate_bulky` | Is every approval of an answered request on the ledger? **No.** | 1 oversized payload |
| `chain_lease` | One writer, one chain, nothing acknowledged lost, shutdown frees the lease? | 2 processes, 4 entries, 2 deaths |
| `chain_fork` | Does a chain nothing tore always verify? **No**, with a roster. | 2 processes starting together |
| `decision` | No request below a floor, in clear when it must not be, or with unverified citations? | 2 matters, 10 kinds of request, 2 settings, 3 registrations, 2 faults |
| `access_revokes` | Do revokes, grants and roster edits hold through restarts, faults and clock changes, and is nobody entitled the firm did not name? | 2 users, 5 rosters (2 refused), 3 directories (2 ambiguous), 4 events, 1 fault |
| `facade` | Does what a caller was told, and what a report vouches for, stand on the ledger? | 2 callers, 3 matters (one foreign, one new), 1 approval, 2 calls, posts or egresses |
| `vendor` | Is a token current and the newest, a delivery whole, and does every call end? | 3 calls, 2 exchanges, 3 environments, documents of up to 4 blocks and 2 requests |
| `trace` | Is no source skipped, none repeated without a failure, no bound trace lost but behind a torn line, and no expired text left by a purge that read it? | 2 records, 1 death, 1 fault, and either 2 polls of 2 sources with 1 purge, or 2 days, 2 purges and 1 poll of 1 source |
| `deadline` | Is every computed deadline the one the rule defines? | every trigger of 26 months, and a leap day's |
| `learning` | Is what a launch injects approved and free of known parties, does the memory follow the ledger, do records and decisions stand? | 1 command at a time, 5 commands, 2 texts (one names a party), 1 kill, 1 launch |

Runs marked **No** end in a counterexample on purpose; each quotes, under
"findings" in `PROJECT.json`, the text it contradicts. The other disagreements have a
configuration of their own below.

Why the bounds are enough. Three requests are the least that create an approval and
then race two re-entries of it; two payloads the least that can be swapped under one
hash; one fault and one crash can each fall at every step, and also after each
other. In `gate_notice` one handler serves the gated request and a second request, which
is its re-entry, an ungated request that carries the approval's id, or another gated one;
the poller runs beside it. Two processes are what a lease can confuse; four entries let each append
twice. In `decision`, three registrations give two floors of one matter and one of
another or a verification; the ten requests take each way through the decision. In
`access_revokes` four events hold an epoch, a revoke or a grant, an edit's epoch and
another event or edit; three of the five rosters compile, and each directory makes
another of them ambiguous or not. In `facade` two units of work are two calls that
interleave, or one beside an anchor, an egress or a post; the poller, the board and the
lost replies are not counted against them. In `vendor` two calls share the exchange
while a third starts the next one or does something else; skew, timeout and the longest
lifetime are 1, 1 and 2, so that a token is due at once, in time, and late; blocks of
four characters and requests of two blocks cut a document at each kind of place. In
`trace` two states of affairs share a run (`Bounded` of `MCTraceStore`, a state
constraint). Either two polls overlap around one work product and one sub-issue, with a
purge and both kinds of records between them, all on one day; or two days pass, before,
at and after the retention, and the first of two purges may fail, die or read nothing
before the second one. The two pollers are alike, and symmetric. In `learning` five commands are a
lesson accepted, a second that names its party, and two more, or an edit proposed,
rejected and approved around another; the memory has room for one lesson, so that a
second overflows.

`CHECK_DEADLOCK FALSE` stands where the bounds let the model stop: a gate whose
requests, faults and crashes are spent has nothing left to do, and neither has a firm
whose commands are; a deadline is computed once.

What the properties say:

* `AtMostOnceDispatch`, `ReservedBeforeDispatch`, `ImplementsOneShot`: an identity
  is used up by its first durable reservation, over all lives of the process.
* `HumanGateHonoured`: a gated call was approved, for that payload and not for
  another with the same receipt hash.
* `AckedIsDurable`, `HonestLedger`: a 200 and a `performed` line never run ahead of
  the vendor, nor a 200 ahead of the disk.
* `RejectionNoticed` (liveness): a rejection of an approval whose pending receipt is
  durable ends in a blocked receipt with its id. Without a failure only the performed
  receipt of an ungated request that carried that id may stand in its place; after a
  failed call, disk trouble or a crash also an error receipt with the id, or a comment
  that was reserved and has no outcome. See section 4.
* `OneWriter`, `ChainUnforked`, `AckedStored`, `ImplementsLedger`,
  `ShutdownFreesLease`: the ledger under all of it.
* `RegistriesFollowLedger`, `FloorsHonoured`, `ClearOnlyIfStandard`,
  `CitationsVerified`: decisions are made by what the ledger holds, and dispatch
  is refused while it cannot be read.
* `OnlyApproved`, `WallAtLaunch`: what a launch puts before every matter, a person
  said yes to, and no party known to the ledger shows in it. Both exempt a kill inside
  a rewrite (`cut`): it empties the file, and the code starts over from nothing, ids
  included.
* `MemoryFollowsLedger`, `RecordsStand`, `ApprovedInstalled`: the files agree with
  each other whatever is killed in between.
* `RestartAgrees`, `RevokeHolds`, `GrantUntilExpiry`, `OnlyTheNamed`: who may approve.
  `OnlyTheNamed` relates an entitlement to the roster's words and to Paperclip's
  records, not to what was compiled from them.
* `AnsweredIsReceipted`: an answer, a facade's or an anchor's, has its one receipt with
  the same facts, and no call has two; an anchor was posted, and not without the stamp
  that was asked for.
* `DisclosedIsOnReport`: text that left is on its own matter's report, by a receipt of
  the very call, and left under an open policy. That a report claims no disclosure under
  a closed policy holds of the facade's receipts only: another agent with a grant for
  `receipts:facade` may post what it likes, and the gate takes its word
  (`MCFirmFacade` has such a post).
* `RequestIsNoAttestation`, `SectionsAreAccepted`: a report does not vouch for what is
  only requested, or was refused.
* `NoStaleToken`, `NewestServed`: concurrent callers, a late response and any lifetime
  leave nobody with an expired cached token or one older than another already had.
* `DeliveredWhole`: a page that is reported performed is the document, character by
  character; a failed one is a beginning of it.
* `CallsEnd` (liveness): see section 4.
* `NoSilentGap`, `RepeatsOnlyAfterFailure`: "a duplicate beats a silent gap", and
  duplicates come from failures alone: at most one more record of a source for each poll
  that failed or died when it had read the cursor, or could not read it.
* `BoundTraceKept`: the record a receipt names is in the file with its hash, whether or
  not the file parses; each line that an append cut short has spoilt costs at most one.
* `ExpiredTextGone`: a purge that examined records left no text among them that is
  expired or of unknown age, whatever the purges before it left undone.
* `FollowsTheRule`: FRCP 6(a)(1), 6(a)(5) and 6(d).

### Disagreements with the texts

Configurations that are not among the runs above show these; `tlc -config <cfg>
<module>` ends in the counterexample.

| Configuration (module) | Property | What the text says, what the code does |
|---|---|---|
| `EgressGate_unresolved.cfg` (`MCEgressGate`) | `PollerSeesUnresolved` | `poller.ts:32-33`: approvals with "NO later receipt (performed or blocked)". Any receipt but pending and reserved hides one (`poller.ts:41`): after one failed status read on re-entry, whose error receipt names the approval, the poller never sees it again. |
| `ReceiptChain_stale.cfg` (`ReceiptChain`) | `RegistriesCurrent` | `matter-classification.ts:13`: "State derives from the receipt chain". Registries are read at `index.ts:220`, before the lease; what a predecessor still appends is missing from them. |
| `MatterAccess_restored.cfg` (`MCMatterAccess`) | `AddedBackRestores` | `access-registry.ts:174-175`: "they add Jane back, reload, and nothing happens" is what epochs are to prevent. An epoch is a content hash: a roster put back word for word is the revoked epoch again, and she stays denied. |
| `FirmFacade_attests.cfg` (`MCFirmFacade`) | `AttestedWasDecided` | `signoff.ts`: "board-decided approvals only". The pending receipt of an egress request, and a receipt whose approval was only claimed in its meta, are attestations. |
| `LearningLoop_together.cfg` (`MCLearningLoop`) | `OnlyApproved` | `docs/operator-walkthrough.md:776`: "An approved proposal writes" the overlay. Two commands at once give out one id; the approved one is not the one installed. |
| `TraceStore_apart.cfg` (`MCTraceStore`) | `BoundTraceKept` | `store.ts:126-128`: a purge "removes the privileged text and nothing else". In a process of its own it renames its rewrite over a record appended meanwhile. |
| `TraceStore_misread.cfg` (`MCTraceStore`) | `NothingRepolled` | `trace-store/src/poller.ts:99-100`: "re-polling an unchanged matter emits nothing". Every failure to read the cursor file, not only a missing one, is an empty cursor (`cursor.ts:43-47`): all sources are recorded again in a poll that ends normally. (A cursor that does not parse throws, as `poller.test.ts:262` asks.) |
| `TraceStore_torn.cfg` (`MCTraceStore`) | `EveryTraceResolves` | `record.ts:8-9`: a binding "stays verifiable for the life of the matter". After an append cut short (`store.ts:70`) every read of the matter throws, and the next record is lost behind it. |
| `TraceStore_unread.cfg` (`MCTraceStore`) | `EveryPurgeStrips` | `store.ts:77`: "Missing partition → []", and `store.ts:126` on what a purge does. Every failure to read the partition is `[]` (`store.ts:81-85`): the purge returns normally, and the expired text is still there. |

Met while modelling, and in the models, but with no configuration: `handlers.ts:8`
promises exactly one receipt for every call, and a failed `createIssue` or
`createApproval` leaves none; an anchor's 409 cannot come, because its reservation
moves the head its operation is named for; approving a rejected edit rewrites the
overlay before it reports an error; a matter's cost is attached once per poll
(`CostAttachedOnce` of `TraceStore`), not once; an empty paragraph can be dropped at a
block boundary of a Notion page; a trigger that is no date is computed and called
supported.

## 4. Fairness

`gate_notice` assumes that an answered call continues (`Continue`: the event loop
runs what is ready), that Paperclip and vendors answer (`Service`: the HTTP clients
have timeouts, and a timeout is an answer), and that poller passes go on (`Poll`:
`setInterval` in `index.ts`), and, as the premise of the property, that disk trouble does
not last for ever (`[]<>(disk = "sound")`). It assumes nothing of agents, humans, calls
that fail and crashes, of which the run has one each (a failed call or one spell of disk
trouble). What may stand in place of the blocked receipt is what the code leaves for
good: a performed ungated request that carried the approval's id; an error receipt with
the id, written by a re-entry whose status read failed, after which the poller passes the
approval over (`EgressGate_unresolved.cfg`); and a comment that was reserved and then failed, or whose
process died, which the poller leaves to the operator. The last two need the failure, and
the property says so; `Told` holds as well if it is a re-entry or a refusal, not the
poller, that writes the blocked receipt. An approval whose pending receipt no fsync has
covered may be forgotten by a power loss, and nothing is promised of it.

`vendor` assumes that the gate's own steps happen and that its timers fire
(`withFetchTimeout`), and nothing of a vendor or the network. A call waits for its own
deadline or its exchange's, and then ends. The one exemption is the run's bound: a call
that has yet to ask for a token when no more may be issued.

`chain_lease` assumes that started system calls return and that the shutdown
deadline fires (`Deadline`: a timer). It does not assume that a vendor answers, so
the lease is freed although a request hangs.

## 5. Proofs

| Theorem | States | If | Module |
|---|---|---|---|
| `TypeCorrect` | `Spec => []TypeOK` |  | `EgressGateProofs` |
| `OneDispatch` | `Spec => []AtMostOnceDispatch` |  | `EgressGateProofs` |
| `DurableReservations` | `Spec => []ReservedBeforeDispatch` |  | `EgressGateProofs` |
| `HumanGate` | `Spec => []HumanGateHonoured` |  | `EgressGateProofs` |
| `GateImplementsOneShot` | `Spec => ImplementsOneShot` |  | `EgressGateProofs` |
| `AnswersAreDurable` | `Spec => []AckedIsDurable` |  | `EgressGateProofs` |
| `LedgerIsHonest` | `Spec => []HonestLedger` |  | `EgressGateProofs` |
| `TypeCorrect` | `Spec => []TypeOK` |  | `ReceiptChainProofs` |
| `SingleWriter` | `Spec => []OneWriter` |  | `ReceiptChainProofs` |
| `AcknowledgedIsStored` | `Spec => []AckedStored` | `"newline" \notin Tears` | `ReceiptChainProofs` |
| `NeverForks` | `Spec => []ChainUnforked` | `~MatterAccess` | `ReceiptChainProofs` |
| `ChainImplementsLedger` | `Spec => ImplementsLedger` | `"newline" \notin Tears` | `ReceiptChainProofs` |
| `TypeCorrect` | `Spec => []TypeOK` |  | `EgressDecisionProofs` |
| `RegistriesFollow` | `Spec => []RegistriesFollowLedger` |  | `EgressDecisionProofs` |
| `FloorsHold` | `Spec => []FloorsHonoured` |  | `EgressDecisionProofs` |
| `StandardInClear` | `Spec => []ClearOnlyIfStandard` |  | `EgressDecisionProofs` |
| `CitationsChecked` | `Spec => []CitationsVerified` |  | `EgressDecisionProofs` |
| `TypeCorrect` | `Spec => []TypeOK` |  | `MatterAccessProofs` |
| `RestartsAgree` | `Spec => []RestartAgrees` |  | `MatterAccessProofs` |
| `RevokesHold` | `Spec => []RevokeHolds` |  | `MatterAccessProofs` |
| `GrantsHold` | `Spec => []GrantUntilExpiry` |  | `MatterAccessProofs` |
| `OnlyTheNamedDecide` | `Spec => []OnlyTheNamed` |  | `MatterAccessProofs` |
| `CacheIsCurrent` | `Spec => []NoStaleToken` |  | `VendorCallsProofs` |
| `NewestIsServed` | `Spec => NewestServed` |  | `VendorCallsProofs` |
| `BatchesArrive` | `Spec => []BatchesInOrder` |  | `VendorCallsProofs` |
| `BatchesCover` | every block is in a batch that is due |  | `VendorCallsProofs` |
| `TypeCorrect` | `Spec => []TypeOK` |  | `TraceStoreProofs` |
| `NoSourceSkipped` | `Spec => []NoSilentGap` | `Processes = {Gate}` | `TraceStoreProofs` |
| `NoRepeats` | `Spec => []RepeatsOnlyAfterFailure` | `Processes = {Gate}` | `TraceStoreProofs` |
| `BoundRecordsStay` | `Spec => []BoundTraceKept` | `Processes = {Gate}` | `TraceStoreProofs` |
| `ExpiredStaysGone` | `Spec => []ExpiredTextGone` | `Processes = {Gate}` | `TraceStoreProofs` |
| `TypeCorrect` | `Spec => []TypeOK` |  | `LearningLoopProofs` |
| `ApprovedOnly` | `Spec => []OnlyApproved` | `Commands = {only}` | `LearningLoopProofs` |
| `WallHolds` | `Spec => []WallAtLaunch` | `Commands = {only}` | `LearningLoopProofs` |
| `MemoryFollows` | `Spec => []MemoryFollowsLedger` | `Commands = {only}` | `LearningLoopProofs` |
| `RecordsStay` | `Spec => []RecordsStand` | `Commands = {only}` | `LearningLoopProofs` |
| `InstalledBeforeApproved` | `Spec => []ApprovedInstalled` |  | `LearningLoopProofs` |
| `TypeCorrect` | `Spec => []TypeOK` |  | `FirmFacadeProofs` |
| `AnswersReceipted` | `Spec => []AnsweredIsReceipted` |  | `FirmFacadeProofs` |
| `DisclosuresReported` | `Spec => []DisclosedIsOnReport` |  | `FirmFacadeProofs` |
| `RequestsAttestNothing` | `Spec => []RequestIsNoAttestation` |  | `FirmFacadeProofs` |
| `SectionsAccepted` | `Spec => []SectionsAreAccepted` | `RequireAuth` | `FirmFacadeProofs` |

They hold for every number of requests, handlers, payloads, approvals, processes,
matters, documents, registrations, policies, users, calls, tokens, tasks, sources,
lessons, skill edits, launches, callers, calls, posts, faults and crashes, from the
assumptions in the modules: sentinels differ from values, `ShaOf` is a function, what
Paperclip lists is a sequence, pollers are finitely many, the fetch timeout is no longer
than the skew, bounds are naturals, who posts to the gate presents no key, one of an
agent of the firm, or one whose agent is malformed, and a citation registry has one of
its three verdicts. Five hypotheses are more than that. Each is what separates the
deployments for which the property holds from those for which it does not, as a
configuration of section 3, a sentence on `ReceiptChain` or, for the last, the facade
run with `RequireAuth = FALSE` and `Posts = {}` shows: a power loss that keeps a line and
loses its newline, an epoch receipt appended before the lease is held, a purge in a
process of its own, two commands of the learning loop at once
(`LearningLoop_together.cfg` finds `OnlyApproved` violated, and, with any of the other
three in its place, that one), and a gate with `GATE_REQUIRE_AUTH` off, where a receipt
bears the name its body claims, and the facade's claims none.

*Dispatch.* At most one dispatch is not inductive alone: a new call must differ from
every old one, and what tells them apart is the ledger. `DispatchInv` adds
`ReservedBeforeDispatch` (every call has its identity on the fsynced part). Every
step either leaves the calls alone and keeps the fsynced lines (`QuietStep`) or adds
one call whose identity was on no line before and is on a fsynced line afterwards
(`CallStep`); `NextStep` shows this of every action. An old call is on a line, a new
one was not, so they differ.

*Human gate.* A re-entry acts on an approval it read before it last gave up the event
loop. `SeenHolds` says that what it read still holds, because a decision is final.

*Refinement.* The state maps to used-up identities (those on fsynced lines), calls
made, operations carried out, and operations answered. `PerformingCalled`, that a
handler awaiting a performer made that call, is what a vendor's step needs.

*Answers and ledger.* `AckedIsDurable` is inductive: the step that answers 200 is the
one that sees both the performer's answer and the append succeed (`NewlyAcked`).
`HonestLedger` needs `PerformingReserved`: who awaits a performer has its reservation on
the ledger. `StepAdds` shows of every action that it is a crash, or only adds lines
that are `Founded`: what they say of a performer is said by a handler that awaits it,
and "performed" of what was carried out.

*Lease.* A process serves from the step that creates the lock file. The file goes
away with that process or after its death, and a live one is never removed.

*File.* `StepShapes` reduces the actions to five effects on the file (a process stores a
line or flushes, a probe, a power loss, a truncation); storage, the chain and the
refinement each look at those alone. `FileInv`: an append found a readable tail when it
began and still has one (`AppendsOpen`), one that syncs has its line in the file
(`SyncsStored`), and only the last line is ever torn, above `synced` (`TornIsLast`).
`TornIsJunk` is where the newline matters: an entry appended behind a line without its
own would be lost with it. `ForkInv`: only who holds the lease is in an append
(`AppendsServe`), and so the line it writes continues the tail it read
(`WritesContinue`). Under the refinement a power loss or a truncation takes lines off
that no acknowledgement covers, and every other step adds one or none.

*Decision.* A request leaves, or waits for a human, under a decision whose registries
may be gone by then, so none of the four properties is inductive over the present
registry. `IInv` of `EgressDecisionProofs` says two things instead. `Remembers`: the
floors of a running gate lie between those its callers were told of and those on the
ledger, and the other registries are part of the ledger, all of it unless an append
threw. `Sound`, of every record that waits or has left: its tier is no lower than what
was due at its decision, it is in clear only if the policy of that moment allows it, and
the ledger holds its verifications. A restart restores the first, because a boot rebuilds
from the ledger (`BootRemembers`); nothing undoes the second, because a ledger only
grows (`SoundStays`); and `TierCovers` and `LeftSound` obtain the second from the first at
the decision itself.

*Matter access.* `Agreement` says that the epoch in force is the last one the ledger
holds, that the events in memory are the fold of the ledger unless an append threw
(`failed`), and that they agree in every pair whose last event was answered. A boot
establishes it, because it folds the ledger and appends its epoch; each event keeps it,
because it is folded in memory as it would be on a reload (`FoldAppend`). `LatestIs` shows that the latest
event of a pair exists. `GrantsWritten` is what `OnlyTheNamed` needs of a grant in force:
a line on the ledger, by another user.

*Tokens.* `TokenInv`: an open exchange is the one in flight, within its deadline, and
its token, once issued, is the newest issued and no call has it yet (`Pending`); what is
cached is the newest token any call was given, and due for refresh before it expires
(`Kept`). The time an answer may take is at most the timeout and the refresh comes the
skew before the end, which is why the one may not exceed the other.

*Pages.* `DeliveredWhole` says that characters arrive; its protocol half is proved.
`PageInv` tells what a page holds from where its call is: as many requests as were
answered, one more while an answer is due, and each was due when it was sent. So a page
holds its document's batches in order, and a performed one has them all
(`BatchesInOrder`); that the batches that are due hold every block, for any number of
blocks and any `MaxBlocks`, is `BatchesCover`. That the blocks hold every character, and
that there is a sequence of them at all, is computed by a fold over paragraphs and stays
with TLC.

*Traces.* In one process at most one task is between two synchronous calls
(`OneRunning`), so a poll past its await holds the cursor as it is, or a part of it if it
could not read it (`EmissionOK`), and a purge is about to write the partition as it is,
without the expired texts (`RewriteOK`). Every append extends the file, or ends a half
line and loses its record with it (`AppendEffect`); a purge changes texts alone
(`RewriteEffect`). A source is `Accounted` for by the cursor or by the poll that will
write it, and `Covered` if no poll will record it again, which is less after a reading of
the cursor that failed; `Recorded` and `Counted` relate the two to the number of its
records, and `spoilt` pays for the difference: a failed poll, a death, or a failed
reading. `BoundTraceKept` counts lost traces against torn lines: an append loses none
(`NoneLost`), or the one it binds and then a half line ends as a torn one (`OneLost`), and
nothing takes a record away. `MarksBefore` tells records apart that a purge has seen:
later ones have larger ids.

*Learning loop.* `FilesOK` speaks of a file and of the command that rewrites it together
(`SaveOK`, `EditOK`): outside the truncation the file, and always what the command will
write, has unique ids and texts, keeps every record behind a card and every decision,
and calls nothing accepted that nobody said yes to (`LedgerGood`). Two clauses are there
for steps that come in between: the parties the launcher reads from the ledger are among
those of the ledger to be written, and so the memory rendered from that one passes the
screen even after the launcher has screened its predecessor; a proposal listed for
review has its record in the proposals to be written. `FreshId` shows that an id given
out is new, `RedecidedKeeps` that a change of an open status loses nothing. A kill in a
truncation is `cut`, after which the properties promise nothing. `FitsIs` takes the
greatest lesson that was left out: all later ones are in, and there was no room for one
more. `InstalledOK` needs none of this: what a file or a command calls approved has had
its overlay written, whatever else runs.

*Facade.* `CallsInv` says of each call under way what is left to go wrong with it: it
has no outcome on the ledger as long as it is before its receipt (`NoOutcome`), what its
caller will be told agrees with the receipt it is about to write (`Truthful`), a document
is read only under an open policy and from a matter of the firm's, and after the receipt
the ledger has it (`Receipted`). An anchor has its token, and then its comment, by the
time it needs them (`AnchorOK`). Ids are unique (`UniqueIds`), so no step of one call can
write an outcome of another: `CallStep` is that one call moves and at most one entry, of
that call, is added; `OtherStep` that no call moves and the entry is of none; one lemma
for each action shows which it is, and `CallStepKeeps` and `OtherStepKeeps` that both
keep `CallsInv`.

*Report.* `RequestIsNoAttestation` is inductive once every attesting entry is recorded
with what makes it one (`AttestOK`): an egress answered 200 that claims the approval, or
an approval that is an egress's own or rejected. Those last, because an approval's source
is settled when it is opened and its decision is final (`ApprovalsMove`). The poller's
next receipt needs that the approval it is closing is a rejected one. No other route
writes an entry that attests (`ServeAttestsNothing`). `VouchInv` is the same argument for
the sections that vouch: an entry that names a matter, of their kinds, was answered 200
or 422 and bears the sender's name, because each handler leaves the matter out of what it
refuses and the name is the key's (`RouteVouches`).

Only model-checked: liveness (`RejectionNoticed`, `ShutdownFreesLease`, `CallsEnd`),
which the prover does not reach; `FollowsTheRule`, whose computation is recursive;
and the other half of `DeliveredWhole`, the concatenation of all blocks, an induction
over data. `TypeOK` of `FirmFacadeProofs` and `BatchesInOrder` are no properties of a
run: they are there for what rests on them.

## 6. Plan

In order of what a failure would cost:

1. *Done.* `EgressGate` and its promise, `ReceiptChain` and its promise,
   `EgressDecision`, `MatterAccess` with its compilation, and the theorems above.
2. *Done.* `LearningLoop`, `TraceStore`, `VendorCalls`, `FirmFacade` with anchoring over
   `GateRoutes` and `MatterReport`, `Deadlines`.
3. *Left.* The delivery manifest of the learning loop, a further file that is loaded and
   saved whole; the legal-data adapter's cache.

No invariant that a run checks is left for the prover but the two named at the end of
section 5.

## 7. Not modelled

Wording, HTTP parsing, logging, regular expressions, masking and DER encoding are
data without control. Vendors and Paperclip are modelled by the calls the gate makes
to them. Traces are fail-soft by contract and change no decision. The learning loop's
delivery manifest is one more file with the hazards `LearningLoop` shows; the legal-data
adapter, the firm overview and the evaluation harnesses read and show, and keep nothing
that another part relies on; the launcher and the config compiler run once, before
anything else. `PROJECT.json` lists every part with its reason.

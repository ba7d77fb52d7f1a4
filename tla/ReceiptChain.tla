----------------------------- MODULE ReceiptChain -----------------------------
(***************************************************************************)
(* The receipt ledger as a file, the gate processes that append to it, and *)
(* the writer lease between them.                                          *)
(*                                                                         *)
(* Below EgressGate: an append here is its system calls (read the tail,    *)
(* write the line, fsync), so another process or a power loss can come     *)
(* between them.  Within one process they are synchronous: nothing else of *)
(* that process runs meanwhile, but it can be killed.                      *)
(*                                                                         *)
(* A line is an entry, or Junk: bytes that are not one JSON value.  The    *)
(* hash of an entry is modelled as a fresh number, 0 being GENESIS.        *)
(***************************************************************************)
EXTENDS Integers, Sequences, FiniteSets

CONSTANTS
  Processes,    \* gate processes a launcher or an operator may start
  NoProcess,
  Junk,         \* a line that does not parse
  Tears,        \* what a power loss can leave of the line being cut: see PowerLoss
  MatterAccess, \* is a matter-access roster configured?
  MaxEntries,   \* bound: entries ever built
  MaxDeaths     \* bound: kills and power losses

ASSUME ChainAssumption ==
  /\ NoProcess \notin Processes
  /\ Tears \subseteq {"part", "newline"}
  /\ MatterAccess \in BOOLEAN
  /\ MaxEntries \in Nat /\ MaxDeaths \in Nat

VARIABLES
  file,     \* the lines on disk, the last one perhaps without its newline
  ended,    \* does the file end with a newline (or is it empty)?
  synced,   \* lines no power loss can take back
  lease,    \* who the lock file names, if it exists
  process,  \* what each process is doing
  acked,    \* entries whose append returned
  entries,  \* how many entries were built so far
  deaths    \* how many kills and power losses so far

vars == <<file, ended, synced, lease, process, acked, entries, deaths>>

Genesis == 0
Ids == 1 .. MaxEntries
Entry == [seq: Nat \ {0}, prev: Nat, hash: Nat \ {0}]

ASSUME JunkAssumption == Junk \notin Entry

(***************************************************************************)
(* Process states.  "booting" has read the chain into its registries but   *)
(* has no lease yet; "draining" has stopped listening.  step says where in *)
(* an append the process is, entry what it is about to write.              *)
(***************************************************************************)
ProcessState ==
  [pc: {"down", "booting", "leasing", "serving", "draining"},
   step: {"none", "write", "sync"},
   entry: Entry \cup {Junk},
   awaiting: BOOLEAN,
   known: SUBSET (Nat \ {0})]

Down == [pc |-> "down", step |-> "none", entry |-> Junk, awaiting |-> FALSE, known |-> {}]

IsEntry(line) == line # Junk

\* verify(): every line is an entry that continues the one before it.
Verifies(lines) ==
  \A i \in 1 .. Len(lines) :
    /\ IsEntry(lines[i])
    /\ lines[i].seq = i
    /\ lines[i].prev = IF i = 1 THEN Genesis ELSE lines[i - 1].hash

HashesIn(lines) == {lines[i].hash : i \in {j \in 1 .. Len(lines) : IsEntry(lines[j])}}

\* readLastLine and validateLastEntry: what the next entry must continue.
TailReadable == file # <<>> => IsEntry(file[Len(file)])

\* Variant: counts from zero.
NextEntryFromZero ==
  [seq  |-> Len(file),
   prev |-> IF file = <<>> THEN Genesis ELSE file[Len(file)].hash,
   hash |-> entries + 1]

NextEntry ==
  [seq  |-> IF file = <<>> THEN 1 ELSE file[Len(file)].seq + 1,
   prev |-> IF file = <<>> THEN Genesis ELSE file[Len(file)].hash,
   hash |-> entries + 1]

(***************************************************************************)
(* append.                                                                 *)
(***************************************************************************)
Idle(p) == process[p].step = "none"

Building(state, line, waits) ==
  [state EXCEPT !.step = "write", !.entry = line, !.awaiting = waits]

\* Read the tail and build the entry; waits says if a request stays open meanwhile.
ReadTail(p, waits) ==
  /\ Idle(p)
  /\ TailReadable
  /\ entries < MaxEntries
  /\ entries' = entries + 1
  /\ process' = [process EXCEPT ![p] = Building(@, NextEntry, waits)]

\* O_APPEND: the bytes go behind whatever the file holds by now.  Behind a line
\* without its newline they make one line that is not JSON.
WriteLine(line) ==
  /\ file' = IF ended THEN Append(file, line)
             ELSE Append(SubSeq(file, 1, Len(file) - 1), Junk)
  /\ ended' = (line # Junk)

\* Where an append that threw leaves the process: at boot nothing catches it.
AfterThrow(p) ==
  process' = [process EXCEPT ![p] = IF @.pc = "booting" THEN Down
                                    ELSE [@ EXCEPT !.step = "none", !.entry = Junk]]

\* openSync and writeSync, which stores the line or throws.
Write(p) ==
  /\ process[p].step = "write"
  /\ \/ /\ WriteLine(process[p].entry)
        /\ process' = [process EXCEPT ![p].step = "sync"]
     \/ /\ AfterThrow(p)
        /\ UNCHANGED <<file, ended>>
  /\ UNCHANGED <<synced, lease, acked, entries, deaths>>

\* After an append returned: a registration is remembered, a boot goes on.
Returned(state, id) ==
  [state EXCEPT !.step = "none", !.entry = Junk, !.known = @ \cup {id},
                !.pc = IF @ = "booting" THEN "leasing" ELSE @]

\* Variant: the entry is handed back before the fsync.
SyncSkipped(p) ==
  LET id == process[p].entry.hash IN
  /\ process[p].step = "sync"
  /\ acked' = acked \cup {id}
  /\ process' = [process EXCEPT ![p] = Returned(@, id)]
  /\ UNCHANGED <<file, ended, synced, lease, entries, deaths>>

\* fsyncSync, and the return of append.
Sync(p) ==
  LET id == process[p].entry.hash IN
  /\ process[p].step = "sync"
  /\ \/ /\ synced' = Len(file)
        /\ acked' = acked \cup {id}
        /\ process' = [process EXCEPT ![p] = Returned(@, id)]
     \/ /\ AfterThrow(p)
        /\ UNCHANGED <<synced, acked>>
  /\ UNCHANGED <<file, ended, lease, entries, deaths>>

\* assertAppendable: the whole chain verifies, and what is in the file is fsynced.
AssertAppendable(p) ==
  /\ process[p].pc \in {"serving", "draining"} /\ Idle(p)
  /\ Verifies(file)
  /\ synced' = Len(file)
  /\ UNCHANGED <<file, ended, lease, process, acked, entries, deaths>>

(***************************************************************************)
(* A process's life.                                                       *)
(***************************************************************************)

Booted(pc, step, entry) ==
  [pc |-> pc, step |-> step, entry |-> entry, awaiting |-> FALSE,
   known |-> IF Verifies(file) THEN HashesIn(file) ELSE {}]

\* Module load: the registries read the chain into memory (nothing of a corrupt
\* one), and recordDocumentEpoch starts its append if a roster is loaded.
Start(p) ==
  /\ process[p].pc = "down"
  /\ IF MatterAccess /\ Verifies(file)
     THEN /\ entries < MaxEntries
          /\ entries' = entries + 1
          /\ process' = [process EXCEPT ![p] = Booted("booting", "write", NextEntry)]
     ELSE /\ process' = [process EXCEPT ![p] = Booted("leasing", "none", Junk)]
          /\ UNCHANGED entries
  /\ UNCHANGED <<file, ended, synced, lease, acked, deaths>>

\* Variant: a lease that is there is taken over.
AcquireLeaseAnyway(p) ==
  /\ process[p].pc = "leasing"
  /\ lease' = p
  /\ process' = [process EXCEPT ![p].pc = "serving"]
  /\ UNCHANGED <<file, ended, synced, acked, entries, deaths>>

\* acquireReceiptStoreLease: create the lock file, or fail and exit if it exists.
AcquireLease(p) ==
  /\ process[p].pc = "leasing"
  /\ \/ /\ lease = NoProcess
        /\ lease' = p
        /\ process' = [process EXCEPT ![p].pc = "serving"]
     \/ /\ lease # NoProcess
        /\ process' = [process EXCEPT ![p] = Down]
        /\ UNCHANGED lease
  /\ UNCHANGED <<file, ended, synced, acked, entries, deaths>>

\* Any receipt a request or the poller appends.
AppendReceipt(p) ==
  /\ process[p].pc \in {"serving", "draining"}
  /\ ReadTail(p, process[p].awaiting)
  /\ UNCHANGED <<file, ended, synced, lease, acked, deaths>>

\* A request goes out to a service and stays open: its answer comes with a receipt.
Dispatch(p) ==
  /\ process[p].pc = "serving" /\ Idle(p)
  /\ ~process[p].awaiting
  /\ process' = [process EXCEPT ![p].awaiting = TRUE]
  /\ UNCHANGED <<file, ended, synced, lease, acked, entries, deaths>>

Settle(p) ==
  /\ process[p].pc \in {"serving", "draining"} /\ process[p].awaiting
  /\ \/ ReadTail(p, FALSE)
     \/ /\ ~TailReadable /\ Idle(p)
        /\ process' = [process EXCEPT ![p].awaiting = FALSE]
        /\ UNCHANGED entries
  /\ UNCHANGED <<file, ended, synced, lease, acked, deaths>>

\* shutdown(): SIGTERM, a fatal server error, an uncaught exception.
Shutdown(p) ==
  /\ process[p].pc = "serving" /\ Idle(p)
  /\ process' = [process EXCEPT ![p].pc = "draining"]
  /\ UNCHANGED <<file, ended, synced, lease, acked, entries, deaths>>

\* releaseLeaseAndExit: drop the lease if it is still ours, and be gone.
ReleaseLeaseAndExit(p) ==
  /\ process[p].pc = "draining" /\ Idle(p)
  /\ lease' = IF lease = p THEN NoProcess ELSE lease
  /\ process' = [process EXCEPT ![p] = Down]
  /\ UNCHANGED <<file, ended, synced, acked, entries, deaths>>

\* Every open request is answered and the poll in flight is over.
Drained(p) == ~process[p].awaiting /\ ReleaseLeaseAndExit(p)

\* Variant: no deadline, an exit needs every request answered.
DeadlineNever(p) == ~process[p].awaiting /\ ReleaseLeaseAndExit(p)

\* The deadline timer: exit whatever is still open.
Deadline(p) == ReleaseLeaseAndExit(p)

(***************************************************************************)
(* The environment.                                                        *)
(***************************************************************************)
Kill(p) ==
  /\ deaths < MaxDeaths
  /\ deaths' = deaths + 1
  /\ process[p].pc # "down"
  /\ process' = [process EXCEPT ![p] = Down]
  /\ UNCHANGED <<file, ended, synced, lease, acked, entries>>

\* The machine loses power.  Unsynced lines go from some point on; the line there
\* may leave a part of itself, or all but its newline.  The lock file may go too.
PowerLoss(keep, tear) ==
  /\ deaths < MaxDeaths
  /\ deaths' = deaths + 1
  /\ keep \in synced .. Len(file)
  /\ \/ /\ tear = "none"
        /\ file' = SubSeq(file, 1, keep)
        /\ ended' = (keep < Len(file) \/ ended)
     \/ /\ tear = "part" /\ keep < Len(file)
        /\ file' = Append(SubSeq(file, 1, keep), Junk)
        /\ ended' = FALSE
     \/ /\ tear = "newline" /\ keep < Len(file)
        /\ file' = SubSeq(file, 1, keep + 1)
        /\ ended' = FALSE
  /\ lease' \in {lease, NoProcess}
  /\ process' = [p \in Processes |-> Down]
  /\ UNCHANGED <<synced, acked, entries>>

\* The documented recovery: with no gate running, truncate the corrupt tail line.
TruncateTail ==
  /\ \A p \in Processes : process[p].pc = "down"
  /\ ~TailReadable
  /\ file' = SubSeq(file, 1, Len(file) - 1)
  /\ ended' = TRUE
  /\ synced' = IF synced < Len(file) THEN synced ELSE Len(file')
  /\ UNCHANGED <<lease, process, acked, entries, deaths>>

\* The documented recovery: remove a lease after making sure its holder is gone.
RemoveLease ==
  /\ lease # NoProcess
  /\ process[lease].pc = "down"
  /\ lease' = NoProcess
  /\ UNCHANGED <<file, ended, synced, process, acked, entries, deaths>>

-------------------------------------------------------------------------------
Init ==
  /\ file = <<>> /\ ended = TRUE /\ synced = 0
  /\ lease = NoProcess
  /\ process = [p \in Processes |-> Down]
  /\ acked = {}
  /\ entries = 0
  /\ deaths = 0

Run(p) ==
  \/ Write(p) \/ Sync(p) \/ AssertAppendable(p)
  \/ Start(p) \/ AcquireLease(p)
  \/ AppendReceipt(p) \/ Dispatch(p) \/ Settle(p)
  \/ Shutdown(p) \/ Drained(p) \/ Deadline(p)

Environment ==
  \/ \E p \in Processes : Kill(p)
  \/ \E keep \in 0 .. Len(file), tear \in Tears \cup {"none"} : PowerLoss(keep, tear)
  \/ TruncateTail
  \/ RemoveLease

Next == (\E p \in Processes : Run(p)) \/ Environment

Spec == Init /\ [][Next]_vars

\* System calls return, and the shutdown timer fires; a vendor may never answer.
FairSpec ==
  /\ Spec
  /\ \A p \in Processes : WF_vars(Write(p) \/ Sync(p)) /\ WF_vars(Deadline(p))

-------------------------------------------------------------------------------
(***************************************************************************)
(* Properties.                                                             *)
(***************************************************************************)
TypeOK ==
  /\ file \in Seq(Entry \cup {Junk})
  /\ ended \in BOOLEAN
  /\ synced \in 0 .. Len(file)
  /\ lease \in Processes \cup {NoProcess}
  /\ process \in [Processes -> ProcessState]
  /\ \A p \in Processes : process[p].step # "none" => process[p].entry # Junk
  /\ acked \subseteq Nat \ {0}
  /\ entries \in Nat /\ deaths \in Nat

Serving(p) == process[p].pc \in {"serving", "draining"}

\* The lease has one holder at a time, and a process appends receipts of requests
\* only while the lock file names it, whoever starts, exits, dies or is cleaned up
\* after.
OneWriter ==
  \A p \in Processes : Serving(p) => lease = p

\* The entries before a torn tail.
Entries == IF TailReadable THEN file ELSE SubSeq(file, 1, Len(file) - 1)

\* The chain never forks and never skips: apart from a torn tail, which append and
\* verify refuse, what is on disk verifies from genesis on.
ChainUnforked == Verifies(Entries)

\* The same without the torn tail: refusing a second writer (known-limitations:
\* "rather than interleaving appends") keeps a chain nothing tore verifiable.
ChainVerifies == Verifies(file)

\* An entry whose append returned is on the durable part of the file, also after
\* power losses and the truncation of a corrupt tail line.
AckedStored ==
  acked \subseteq {file[i].hash : i \in {j \in 1 .. synced : IsEntry(file[j])}}

\* What a serving process knows of the ledger's registrations is what the ledger
\* holds: its registries were read from the chain and follow its own appends.
RegistriesCurrent ==
  \A p \in Processes : Serving(p) /\ Idle(p) => HashesIn(file) \subseteq process[p].known

\* A shutdown ends and frees the lease however long a vendor stalls, so that the
\* next start needs no operator; only a kill or a power loss may leave it behind.
ShutdownFreesLease ==
  \A p \in Processes : process[p].pc = "draining" ~> (lease # p \/ deaths > 0)

EntryHashes == [i \in 1 .. Len(Entries) |-> Entries[i].hash]

Promise == INSTANCE LedgerPromise
             WITH lines <- EntryHashes, acked <- acked,
                  synced <- IF synced <= Len(Entries) THEN synced ELSE Len(Entries)

\* The file, its writers and its accidents are the ledger EgressGate relies on: the
\* durable part is never taken back and holds every append that returned.
ImplementsLedger == Promise!Spec

===============================================================================

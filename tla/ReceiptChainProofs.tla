-------------------------- MODULE ReceiptChainProofs --------------------------
(***************************************************************************)
(* Type correctness of ReceiptChain, that the lease excludes a second      *)
(* serving process, that what was acknowledged is stored, that the chain   *)
(* never forks, and that it all implements LedgerPromise, for any number   *)
(* of gate processes, kills, power losses and manual recoveries.           *)
(*                                                                         *)
(* The lease needs only who serves and what the lock file says: a process  *)
(* starts to serve when it creates the file, the file goes away with the   *)
(* process it names or after it, and nothing else touches it.              *)
(*                                                                         *)
(* The rest is about the file.  Only its last line is ever torn, and no    *)
(* fsync covered it (TornIsLast), so an append, which has read a whole     *)
(* tail, adds a whole line, and no accident reaches the durable ones.      *)
(* Without an epoch receipt only the lease holder appends, so the entry    *)
(* it built still continues the tail when it is written.                   *)
(***************************************************************************)
EXTENDS ReceiptChain, TLAPS

FileOK ==
  /\ file \in Seq(Entry \cup {Junk})
  /\ ended \in BOOLEAN
  /\ synced \in 0 .. Len(file)

ProcessesOK ==
  /\ process \in [Processes -> ProcessState]
  /\ \A p \in Processes : process[p].step # "none" => process[p].entry # Junk

RestOK ==
  /\ lease \in Processes \cup {NoProcess}
  /\ acked \subseteq Nat \ {0}
  /\ entries \in Nat /\ deaths \in Nat

LEMMA TypeParts ==
  /\ TypeOK <=> FileOK /\ ProcessesOK /\ RestOK
  /\ TypeOK' <=> FileOK' /\ ProcessesOK' /\ RestOK'
BY DEF TypeOK, FileOK, ProcessesOK, RestOK

LEMMA PrefixType ==
  ASSUME NEW S, NEW s \in Seq(S), NEW n \in 0 .. Len(s)
  PROVE  SubSeq(s, 1, n) \in Seq(S) /\ Len(SubSeq(s, 1, n)) = n
OBVIOUS

LEMMA DownType == Down \in ProcessState /\ Down.pc = "down" /\ Down.step = "none"
BY DEF Down, ProcessState

LEMMA NextEntryType ==
  ASSUME FileOK, RestOK, TailReadable
  PROVE  NextEntry \in Entry /\ NextEntry # Junk
<1>1. file # <<>> => file[Len(file)] \in Entry
  BY DEF FileOK, TailReadable, IsEntry
<1>2. NextEntry \in Entry
  BY <1>1 DEF NextEntry, Entry, Genesis, RestOK
<1>3. QED
  BY <1>2, JunkAssumption

LEMMA HashesType == FileOK => HashesIn(file) \subseteq Nat \ {0}
BY DEF FileOK, HashesIn, IsEntry, Entry

\* A line written at the end of the file, whole or not.
LEMMA WriteLineType ==
  ASSUME FileOK, NEW line \in Entry \cup {Junk}, WriteLine(line), synced' = synced
  PROVE  FileOK'
<1>1. CASE ended
  <2>1. file' = Append(file, line) /\ ended' \in BOOLEAN
    BY <1>1 DEF WriteLine
  <2>2. QED
    BY <2>1 DEF FileOK
<1>2. CASE ~ended
  <2> DEFINE head == SubSeq(file, 1, Len(file) - 1)
  <2>1. file' = Append(head, Junk) /\ ended' \in BOOLEAN
    BY <1>2 DEF WriteLine
  <2>2. head \in Seq(Entry \cup {Junk}) /\ Len(head) >= Len(file) - 1 /\ Len(head) \in Nat
    BY DEF FileOK
  <2> HIDE DEF head
  <2>3. file' \in Seq(Entry \cup {Junk}) /\ Len(file') = Len(head) + 1
    BY <2>1, <2>2
  <2>4. QED
    BY <2>1, <2>2, <2>3 DEF FileOK
<1>3. QED
  BY <1>1, <1>2

LEMMA AfterThrowType ==
  ASSUME ProcessesOK, NEW p \in Processes, AfterThrow(p)
  PROVE  ProcessesOK'
BY DownType DEF AfterThrow, ProcessesOK, ProcessState

LEMMA ReadTailType ==
  ASSUME TypeOK, NEW p \in Processes, NEW waits \in BOOLEAN, ReadTail(p, waits)
  PROVE  ProcessesOK' /\ entries' \in Nat
<1>1. NextEntry \in Entry /\ NextEntry # Junk
  BY NextEntryType, TypeParts DEF ReadTail
<1>2. ProcessesOK /\ process[p] \in ProcessState
  BY TypeParts DEF ProcessesOK
<1>3. /\ Building(process[p], NextEntry, waits) \in ProcessState
      /\ Building(process[p], NextEntry, waits).entry = NextEntry
  BY <1>1, <1>2 DEF Building, ProcessState
<1>4. ProcessesOK'
  BY <1>1, <1>2, <1>3 DEF ReadTail, ProcessesOK
<1>5. QED
  BY <1>4, TypeParts DEF ReadTail, RestOK

LEMMA RunTypes ==
  ASSUME TypeOK, NEW p \in Processes, Run(p)
  PROVE  TypeOK'
<1>1. FileOK /\ ProcessesOK /\ RestOK /\ process[p] \in ProcessState
  BY TypeParts DEF ProcessesOK
<1>2. CASE Write(p)
  <2>1. process[p].entry \in Entry
    BY <1>1, <1>2 DEF Write, ProcessesOK, ProcessState
  <2>2. FileOK'
    BY <1>1, <1>2, <2>1, WriteLineType DEF Write, FileOK
  <2>3. ProcessesOK'
    <3>1. CASE AfterThrow(p)
      BY <1>1, <3>1, AfterThrowType
    <3>2. CASE process' = [process EXCEPT ![p].step = "sync"]
      BY <1>1, <2>1, <3>2, JunkAssumption DEF ProcessesOK, ProcessState
    <3>3. QED
      BY <1>2, <3>1, <3>2 DEF Write
  <2>4. QED
    BY <1>1, <1>2, <2>2, <2>3, TypeParts DEF Write, RestOK
<1>3. CASE Sync(p)
  <2>1. process[p].entry.hash \in Nat \ {0}
    BY <1>1, <1>3 DEF Sync, ProcessesOK, ProcessState, Entry
  <2>2. FileOK'
    BY <1>1, <1>3 DEF Sync, FileOK
  <2>3. ProcessesOK'
    <3>1. CASE AfterThrow(p)
      BY <1>1, <3>1, AfterThrowType
    <3>2. CASE process' = [process EXCEPT ![p] = Returned(@, process[p].entry.hash)]
      <4>1. /\ Returned(process[p], process[p].entry.hash) \in ProcessState
            /\ Returned(process[p], process[p].entry.hash).step = "none"
        BY <1>1, <2>1 DEF Returned, ProcessState
      <4>2. QED
        BY <1>1, <3>2, <4>1 DEF ProcessesOK
    <3>3. QED
      BY <1>3, <3>1, <3>2 DEF Sync
  <2>4. QED
    BY <1>1, <1>3, <2>1, <2>2, <2>3, TypeParts DEF Sync, RestOK
<1>4. CASE AssertAppendable(p)
  BY <1>1, <1>4, TypeParts DEF AssertAppendable, FileOK, ProcessesOK, RestOK
<1>5. CASE Start(p)
  <2>1. \A pc \in {"booting", "leasing"}, step \in {"none", "write"}, entry \in Entry \cup {Junk} :
          /\ Booted(pc, step, entry) \in ProcessState
          /\ Booted(pc, step, entry).step = step /\ Booted(pc, step, entry).entry = entry
    BY <1>1, HashesType DEF Booted, ProcessState
  <2>2. CASE MatterAccess /\ Verifies(file)
    <3>1. TailReadable
      BY <1>1, <2>2 DEF TailReadable, Verifies, FileOK
    <3>2. NextEntry \in Entry /\ NextEntry # Junk
      BY <1>1, <3>1, NextEntryType
    <3>3. process' = [process EXCEPT ![p] = Booted("booting", "write", NextEntry)] /\ entries' \in Nat
      BY <1>1, <1>5, <2>2 DEF Start, RestOK
    <3>4. ProcessesOK'
      BY <1>1, <2>1, <3>2, <3>3 DEF ProcessesOK
    <3>5. QED
      BY <1>1, <1>5, <3>3, <3>4, TypeParts DEF Start, FileOK, RestOK
  <2>3. CASE ~(MatterAccess /\ Verifies(file))
    <3>1. process' = [process EXCEPT ![p] = Booted("leasing", "none", Junk)] /\ entries' = entries
      BY <1>5, <2>3 DEF Start
    <3>2. ProcessesOK'
      BY <1>1, <2>1, <3>1 DEF ProcessesOK
    <3>3. QED
      BY <1>1, <1>5, <3>1, <3>2, TypeParts DEF Start, FileOK, RestOK
  <2>4. QED
    BY <2>2, <2>3
<1>6. CASE AcquireLease(p)
  BY <1>1, <1>6, TypeParts, DownType DEF AcquireLease, FileOK, ProcessesOK, ProcessState, RestOK
<1>7. CASE AppendReceipt(p)
  <2>1. process[p].awaiting \in BOOLEAN
    BY <1>1 DEF ProcessState
  <2>2. ProcessesOK' /\ entries' \in Nat
    BY <1>7, <2>1, ReadTailType DEF AppendReceipt
  <2>3. QED
    BY <1>1, <1>7, <2>2, TypeParts DEF AppendReceipt, FileOK, RestOK
<1>8. CASE Settle(p)
  <2>1. ProcessesOK' /\ entries' \in Nat
    <3>1. CASE ReadTail(p, FALSE)
      BY <3>1, ReadTailType
    <3>2. CASE process' = [process EXCEPT ![p].awaiting = FALSE] /\ UNCHANGED entries
      BY <1>1, <3>2 DEF ProcessesOK, ProcessState, RestOK
    <3>3. QED
      BY <1>8, <3>1, <3>2 DEF Settle
  <2>2. QED
    BY <1>1, <1>8, <2>1, TypeParts DEF Settle, FileOK, RestOK
<1>9. CASE Dispatch(p) \/ Shutdown(p)
  <2>1. ProcessesOK'
    <3>1. CASE process' = [process EXCEPT ![p].awaiting = TRUE]
      BY <1>1, <3>1 DEF ProcessesOK, ProcessState
    <3>2. CASE process' = [process EXCEPT ![p].pc = "draining"]
      BY <1>1, <3>2 DEF ProcessesOK, ProcessState
    <3>3. QED
      BY <1>9, <3>1, <3>2 DEF Dispatch, Shutdown
  <2>2. QED
    BY <1>1, <1>9, <2>1, TypeParts DEF Dispatch, Shutdown, FileOK, RestOK
<1>10. CASE Drained(p) \/ Deadline(p)
  <2>1. ReleaseLeaseAndExit(p)
    BY <1>10 DEF Drained, Deadline
  <2>2. FileOK' /\ ProcessesOK'
    BY <1>1, <2>1, DownType DEF ReleaseLeaseAndExit, FileOK, ProcessesOK
  <2>3. RestOK'
    BY <1>1, <2>1 DEF ReleaseLeaseAndExit, RestOK
  <2>4. QED
    BY <2>2, <2>3, TypeParts
<1>11. QED
  BY <1>2, <1>3, <1>4, <1>5, <1>6, <1>7, <1>8, <1>9, <1>10 DEF Run

LEMMA PowerLossTypes ==
  ASSUME TypeOK, NEW keep, NEW tear, PowerLoss(keep, tear)
  PROVE  TypeOK'
<1>1. FileOK /\ ProcessesOK /\ RestOK
  BY TypeParts
<1>2. /\ keep \in Nat /\ synced <= keep /\ keep <= Len(file) /\ Len(file) \in Nat
      /\ synced \in Nat
  BY <1>1 DEF FileOK, PowerLoss
<1>3. SubSeq(file, 1, keep) \in Seq(Entry \cup {Junk}) /\ Len(SubSeq(file, 1, keep)) = keep
  BY <1>1, <1>2 DEF FileOK
<1>4. FileOK'
  <2>1. synced' = synced
    BY DEF PowerLoss
  <2>2. CASE tear = "none" /\ file' = SubSeq(file, 1, keep) /\ ended' = (keep < Len(file) \/ ended)
    <3>1. file' \in Seq(Entry \cup {Junk}) /\ Len(file') = keep
      BY <1>3, <2>2
    <3>2. ended' \in BOOLEAN
      BY <2>2
    <3>3. QED
      BY <1>2, <2>1, <3>1, <3>2 DEF FileOK
  <2>3. CASE file' = Append(SubSeq(file, 1, keep), Junk) /\ ended' = FALSE
    <3>1. file' \in Seq(Entry \cup {Junk}) /\ Len(file') = keep + 1
      BY <1>2, <1>3, <2>3
    <3>2. ended' \in BOOLEAN
      BY <2>3
    <3>3. QED
      BY <1>2, <2>1, <3>1, <3>2 DEF FileOK
  <2>4. CASE keep < Len(file) /\ file' = SubSeq(file, 1, keep + 1) /\ ended' = FALSE
    <3>1. file' \in Seq(Entry \cup {Junk}) /\ Len(file') = keep + 1
      BY <1>1, <1>2, <2>4 DEF FileOK
    <3>2. ended' \in BOOLEAN
      BY <2>4
    <3>3. QED
      BY <1>2, <2>1, <3>1, <3>2 DEF FileOK
  <2>5. QED
    BY <2>2, <2>3, <2>4 DEF PowerLoss
<1>5. ProcessesOK'
  BY DownType DEF PowerLoss, ProcessesOK
<1>6. QED
  BY <1>1, <1>4, <1>5, TypeParts DEF PowerLoss, RestOK

LEMMA EnvironmentTypes ==
  ASSUME TypeOK, Environment
  PROVE  TypeOK'
<1>1. FileOK /\ ProcessesOK /\ RestOK
  BY TypeParts
<1>2. ASSUME NEW p \in Processes, Kill(p) PROVE TypeOK'
  BY <1>1, <1>2, TypeParts, DownType DEF Kill, FileOK, ProcessesOK, RestOK
<1>3. CASE TruncateTail
  <2>1. Len(file) \in Nat /\ Len(file) > 0
    BY <1>1, <1>3 DEF TruncateTail, TailReadable, FileOK
  <2>2. file' \in Seq(Entry \cup {Junk}) /\ Len(file') = Len(file) - 1
    <3>1. file' = SubSeq(file, 1, Len(file) - 1) /\ file \in Seq(Entry \cup {Junk})
      BY <1>1, <1>3 DEF TruncateTail, FileOK
    <3>2. Len(file) - 1 \in 0 .. Len(file)
      BY <2>1
    <3>3. QED
      BY <3>1, <3>2, PrefixType
  <2>3. FileOK'
    BY <1>1, <1>3, <2>1, <2>2 DEF TruncateTail, FileOK
  <2>4. QED
    BY <1>1, <1>3, <2>3, TypeParts DEF TruncateTail, ProcessesOK, RestOK
<1>4. CASE RemoveLease
  BY <1>1, <1>4, TypeParts DEF RemoveLease, FileOK, ProcessesOK, RestOK
<1>5. QED
  BY <1>2, <1>3, <1>4, PowerLossTypes DEF Environment

\* Every state of the ledger and its processes is well typed; in particular a
\* process in an append holds an entry, and no more lines are durable than written.
THEOREM TypeCorrect == Spec => []TypeOK
<1>1. Init => TypeOK
  BY TypeParts, DownType DEF Init, FileOK, ProcessesOK, RestOK
<1>2. TypeOK /\ [Next]_vars => TypeOK'
  <2>1. TypeOK /\ UNCHANGED vars => TypeOK'
    BY DEF TypeOK, vars
  <2>2. QED
    BY <2>1, RunTypes, EnvironmentTypes DEF Next
<1>3. QED
  BY <1>1, <1>2, PTL DEF Spec

-------------------------------------------------------------------------------
LEMMA RunKeepsLease ==
  ASSUME TypeOK, OneWriter, NEW p \in Processes, Run(p)
  PROVE  OneWriter'
<1>1. process \in [Processes -> ProcessState]
  BY DEF TypeOK
<1>2. CASE \/ Write(p) \/ Sync(p) \/ AssertAppendable(p) \/ AppendReceipt(p) \/ Settle(p)
           \/ Dispatch(p) \/ Start(p) \/ Shutdown(p)
  <2>1. lease' = lease
    BY <1>2 DEF Write, Sync, AssertAppendable, AppendReceipt, Settle, Dispatch, Start, Shutdown
  <2>2. \A q \in Processes \ {p} : process'[q] = process[q]
    BY <1>1, <1>2 DEF Write, Sync, AssertAppendable, AppendReceipt, Settle, Dispatch, Start, Shutdown,
                      ReadTail, AfterThrow
  <2>3. process'[p].pc \in {"serving", "draining"} => Serving(p)
    <3>1. CASE Write(p) \/ Sync(p)
      <4>1. CASE AfterThrow(p)
        BY <1>1, <4>1 DEF AfterThrow, Serving, Down, ProcessState
      <4>2. CASE process' = [process EXCEPT ![p].step = "sync"]
        BY <1>1, <4>2 DEF Serving, ProcessState
      <4>3. CASE process' = [process EXCEPT ![p] = Returned(@, process[p].entry.hash)]
        <5>1. Returned(process[p], process[p].entry.hash).pc \in {"serving", "draining"} => Serving(p)
          BY <1>1 DEF Returned, Serving, ProcessState
        <5>2. QED
          BY <1>1, <4>3, <5>1
      <4>4. QED
        BY <3>1, <4>1, <4>2, <4>3 DEF Write, Sync
    <3>2. CASE AssertAppendable(p) \/ Dispatch(p) \/ Shutdown(p)
      BY <1>1, <3>2 DEF AssertAppendable, Dispatch, Shutdown, Serving, ProcessState
    <3>3. CASE AppendReceipt(p) \/ Settle(p)
      BY <1>1, <3>3 DEF AppendReceipt, Settle, ReadTail, Building, Serving, ProcessState
    <3>4. CASE Start(p)
      BY <1>1, <3>4 DEF Start, Booted
    <3>5. QED
      BY <1>2, <3>1, <3>2, <3>3, <3>4
  <2>4. QED
    BY <2>1, <2>2, <2>3 DEF OneWriter, Serving
<1>3. CASE AcquireLease(p)
  BY <1>1, <1>3, ChainAssumption DEF AcquireLease, OneWriter, Serving, Down
<1>4. CASE Drained(p) \/ Deadline(p)
  <2>1. ReleaseLeaseAndExit(p)
    BY <1>4 DEF Drained, Deadline
  <2>2. QED
    BY <1>1, <2>1 DEF ReleaseLeaseAndExit, OneWriter, Serving, Down
<1>5. QED
  BY <1>2, <1>3, <1>4 DEF Run

LEMMA EnvironmentKeepsLease ==
  ASSUME TypeOK, OneWriter, Environment
  PROVE  OneWriter'
<1>1. process \in [Processes -> ProcessState]
  BY DEF TypeOK
<1>2. ASSUME NEW p \in Processes, Kill(p) PROVE OneWriter'
  BY <1>1, <1>2 DEF Kill, OneWriter, Serving, Down
<1>3. ASSUME NEW keep, NEW tear, PowerLoss(keep, tear) PROVE OneWriter'
  BY <1>3 DEF PowerLoss, OneWriter, Serving, Down
<1>4. CASE TruncateTail
  BY <1>4 DEF TruncateTail, OneWriter, Serving
<1>5. CASE RemoveLease
  BY <1>5 DEF RemoveLease, OneWriter, Serving
<1>6. QED
  BY <1>2, <1>3, <1>4, <1>5 DEF Environment

\* A process appends receipts of requests only while the lock file names it, so no
\* two processes ever do: the epoch receipt at boot is the only append outside it.
THEOREM SingleWriter == Spec => []OneWriter
<1>1. Init => OneWriter
  BY DEF Init, OneWriter, Serving, Down
<1>2. TypeOK /\ OneWriter /\ [Next]_vars => OneWriter'
  <2>1. OneWriter /\ UNCHANGED vars => OneWriter'
    BY DEF OneWriter, Serving, vars
  <2>2. QED
    BY <2>1, RunKeepsLease, EnvironmentKeepsLease DEF Next
<1>3. QED
  BY <1>1, <1>2, TypeCorrect, PTL DEF Spec

-------------------------------------------------------------------------------
(***************************************************************************)
(* What a step does to the file and to the appends in progress.            *)
(***************************************************************************)
SameAppend(p) == process'[p].step = process[p].step /\ process'[p].entry = process[p].entry

\* p begins an append: it has read the tail and built the entry after it.
Begins(p) ==
  /\ TailReadable /\ entries < MaxEntries
  /\ process'[p].step = "write" /\ process'[p].entry = NextEntry

\* The file and what is known of it stay; appends go on, end or begin.
Passes ==
  /\ UNCHANGED <<file, ended, synced, acked>>
  /\ \A p \in Processes : process'[p].step = "none" \/ SameAppend(p) \/ Begins(p)

Stores(p) ==
  /\ process[p].step = "write" /\ WriteLine(process[p].entry)
  /\ process' = [process EXCEPT ![p].step = "sync"]
  /\ UNCHANGED <<synced, acked>>

Flushes(p) ==
  /\ process[p].step = "sync"
  /\ synced' = Len(file) /\ acked' = acked \cup {process[p].entry.hash}
  /\ UNCHANGED <<file, ended>>
  /\ \A q \in Processes : process'[q].step = "none" \/ SameAppend(q)

Probes ==
  /\ Verifies(file) /\ synced' = Len(file)
  /\ UNCHANGED <<file, ended, process, acked>>

LEMMA ReadTailPasses ==
  ASSUME TypeOK, NEW p \in Processes, NEW waits, ReadTail(p, waits)
  PROVE  \A q \in Processes : SameAppend(q) \/ Begins(q)
<1>1. process \in [Processes -> ProcessState]
  BY DEF TypeOK
<1>2. process' = [process EXCEPT ![p] = Building(@, NextEntry, waits)]
  BY DEF ReadTail
<1>3. Begins(p)
  BY <1>1, <1>2 DEF ReadTail, Building, Begins, ProcessState
<1>4. \A q \in Processes \ {p} : SameAppend(q)
  BY <1>1, <1>2 DEF SameAppend
<1>5. QED
  BY <1>3, <1>4

LEMMA RunShapes ==
  ASSUME TypeOK, NEW p \in Processes, Run(p)
  PROVE  Passes \/ Stores(p) \/ Flushes(p) \/ Probes
<1>1. process \in [Processes -> ProcessState] /\ process[p] \in ProcessState
  BY DEF TypeOK
<1>2. ASSUME AfterThrow(p)
      PROVE  \A q \in Processes : process'[q].step = "none" \/ SameAppend(q)
  <2>1. process'[p].step = "none"
    BY <1>1, <1>2 DEF AfterThrow, Down, ProcessState
  <2>2. \A q \in Processes \ {p} : SameAppend(q)
    BY <1>1, <1>2 DEF AfterThrow, SameAppend
  <2>3. QED
    BY <2>1, <2>2
<1>3. CASE Write(p)
  BY <1>2, <1>3 DEF Write, Stores, Passes
<1>4. CASE Sync(p)
  <2>1. CASE AfterThrow(p) /\ UNCHANGED <<synced, acked>>
    BY <1>2, <1>4, <2>1 DEF Sync, Passes
  <2>2. CASE /\ synced' = Len(file)
             /\ acked' = acked \cup {process[p].entry.hash}
             /\ process' = [process EXCEPT ![p] = Returned(@, process[p].entry.hash)]
    <3>1. process'[p].step = "none"
      BY <1>1, <2>2 DEF Returned, ProcessState
    <3>2. \A q \in Processes \ {p} : SameAppend(q)
      BY <1>1, <2>2 DEF SameAppend
    <3>3. QED
      BY <1>4, <2>2, <3>1, <3>2 DEF Sync, Flushes
  <2>3. QED
    BY <1>4, <2>1, <2>2 DEF Sync
<1>5. CASE AssertAppendable(p)
  BY <1>5 DEF AssertAppendable, Probes
<1>6. CASE Start(p)
  <2>1. CASE MatterAccess /\ Verifies(file)
    <3>1. process' = [process EXCEPT ![p] = Booted("booting", "write", NextEntry)]
          /\ entries < MaxEntries
      BY <1>6, <2>1 DEF Start
    <3>2. TailReadable
      BY <2>1 DEF TailReadable, Verifies, TypeOK
    <3>3. Begins(p) /\ \A q \in Processes \ {p} : SameAppend(q)
      BY <1>1, <3>1, <3>2 DEF Begins, SameAppend, Booted
    <3>4. QED
      BY <1>6, <3>3 DEF Start, Passes
  <2>2. CASE ~(MatterAccess /\ Verifies(file))
    <3>1. process' = [process EXCEPT ![p] = Booted("leasing", "none", Junk)]
      BY <1>6, <2>2 DEF Start
    <3>2. process'[p].step = "none" /\ \A q \in Processes \ {p} : SameAppend(q)
      BY <1>1, <3>1 DEF SameAppend, Booted
    <3>3. QED
      BY <1>6, <3>2 DEF Start, Passes
  <2>3. QED
    BY <2>1, <2>2
<1>7. CASE AcquireLease(p)
  BY <1>1, <1>7 DEF AcquireLease, Passes, SameAppend, Down, ProcessState
<1>8. CASE AppendReceipt(p)
  BY <1>1, <1>8, ReadTailPasses DEF AppendReceipt, Passes
<1>9. CASE Settle(p)
  <2>1. CASE ReadTail(p, FALSE)
    BY <1>9, <2>1, ReadTailPasses DEF Settle, Passes
  <2>2. CASE process' = [process EXCEPT ![p].awaiting = FALSE]
    BY <1>1, <1>9, <2>2 DEF Settle, Passes, SameAppend, ProcessState
  <2>3. QED
    BY <1>9, <2>1, <2>2 DEF Settle
<1>10. CASE Dispatch(p) \/ Shutdown(p)
  BY <1>1, <1>10 DEF Dispatch, Shutdown, Passes, SameAppend, ProcessState
<1>11. CASE Drained(p) \/ Deadline(p)
  BY <1>1, <1>11 DEF Drained, Deadline, ReleaseLeaseAndExit, Passes, SameAppend, Down
<1>12. QED
  BY <1>3, <1>4, <1>5, <1>6, <1>7, <1>8, <1>9, <1>10, <1>11 DEF Run

LEMMA StepShapes ==
  ASSUME TypeOK, [Next]_vars
  PROVE  \/ Passes
         \/ \E p \in Processes : Stores(p) \/ Flushes(p)
         \/ Probes
         \/ \E keep \in synced .. Len(file), tear \in Tears \cup {"none"} : PowerLoss(keep, tear)
         \/ TruncateTail
<1>1. process \in [Processes -> ProcessState]
  BY DEF TypeOK
<1>2. UNCHANGED vars => Passes
  BY DEF vars, Passes, SameAppend
<1>3. ASSUME NEW p \in Processes, Kill(p) PROVE Passes
  BY <1>1, <1>3 DEF Kill, Passes, SameAppend, Down
<1>4. RemoveLease => Passes
  BY DEF RemoveLease, Passes, SameAppend
<1>5. ASSUME NEW keep, NEW tear, PowerLoss(keep, tear)
      PROVE  keep \in synced .. Len(file)
  BY <1>5 DEF PowerLoss
<1>6. QED
  BY <1>2, <1>3, <1>4, <1>5, RunShapes DEF Next, Environment

-------------------------------------------------------------------------------
(***************************************************************************)
(* What was acknowledged is stored.                                        *)
(***************************************************************************)

\* A line without its newline is a torn one: this needs "newline" \notin Tears.
TornIsJunk == ~ended => ~TailReadable

\* While a process is in an append the tail is one that append has read, or its own.
AppendsOpen == \A p \in Processes : process[p].step # "none" => TailReadable

SyncsStored ==
  \A p \in Processes :
    process[p].step = "sync" => \E i \in 1 .. Len(file) : file[i] = process[p].entry

\* Only the last line is ever torn, and no fsync covered it.
TornIsLast ==
  \A i \in 1 .. Len(file) : IsEntry(file[i]) \/ (i = Len(file) /\ synced < i)

LEMMA PrefixElements ==
  ASSUME NEW S, NEW s \in Seq(S), NEW n \in 0 .. Len(s)
  PROVE  \A i \in 1 .. n : SubSeq(s, 1, n)[i] = s[i]
OBVIOUS

FileInv == TypeOK /\ TornIsJunk /\ AppendsOpen /\ SyncsStored /\ TornIsLast

\* The append of a process in the file's good state stores its whole line.
LEMMA StoresWhole ==
  ASSUME FileInv, NEW p \in Processes, Stores(p)
  PROVE  /\ process[p].entry \in Entry /\ IsEntry(process[p].entry)
         /\ TailReadable /\ ended' = TRUE
         /\ file' = Append(file, process[p].entry)
         /\ file' \in Seq(Entry \cup {Junk})
         /\ Len(file) \in Nat /\ Len(file') = Len(file) + 1
         /\ file'[Len(file) + 1] = process[p].entry
         /\ \A i \in 1 .. Len(file) : file'[i] = file[i]
         /\ TailReadable'
<1>1. /\ process \in [Processes -> ProcessState] /\ file \in Seq(Entry \cup {Junk})
      /\ process[p].entry # Junk
  BY DEF FileInv, TypeOK, Stores
<1>2. process[p].entry \in Entry /\ IsEntry(process[p].entry)
  BY <1>1 DEF ProcessState, IsEntry
<1>3. TailReadable /\ ended
  BY DEF FileInv, Stores, AppendsOpen, TornIsJunk
<1>4. file' = Append(file, process[p].entry) /\ ended' = TRUE
  BY <1>1, <1>3 DEF Stores, WriteLine
<1>5. /\ file' \in Seq(Entry \cup {Junk})
      /\ Len(file) \in Nat /\ Len(file') = Len(file) + 1
      /\ file'[Len(file) + 1] = process[p].entry
      /\ \A i \in 1 .. Len(file) : file'[i] = file[i]
  BY <1>1, <1>2, <1>4
<1>6. TailReadable'
  BY <1>2, <1>5 DEF TailReadable, IsEntry
<1>7. QED
  BY <1>2, <1>3, <1>4, <1>5, <1>6

\* What a power loss leaves when it never strips just a newline.
LEMMA PowerLossFile ==
  ASSUME FileInv, "newline" \notin Tears, NEW keep \in synced .. Len(file),
         NEW tear \in Tears \cup {"none"}, PowerLoss(keep, tear)
  PROVE  /\ synced \in Nat /\ keep \in Nat /\ synced <= keep /\ Len(file) \in Nat
         /\ \A i \in 1 .. keep : file'[i] = file[i]
         /\ \/ Len(file') = keep /\ ended' = (keep < Len(file) \/ ended)
            \/ keep < Len(file) /\ Len(file') = keep + 1 /\ file'[keep + 1] = Junk /\ ended' = FALSE
<1>1. file \in Seq(Entry \cup {Junk}) /\ synced \in Nat /\ keep \in Nat /\ synced <= keep
      /\ keep <= Len(file) /\ Len(file) \in Nat
  BY DEF FileInv, TypeOK
<1> DEFINE head == SubSeq(file, 1, keep)
<1>2. /\ head \in Seq(Entry \cup {Junk}) /\ Len(head) = keep
      /\ \A i \in 1 .. keep : head[i] = file[i]
  BY <1>1
<1>3. CASE file' = head /\ ended' = (keep < Len(file) \/ ended)
  BY <1>1, <1>2, <1>3
<1>4. CASE keep < Len(file) /\ file' = Append(head, Junk) /\ ended' = FALSE
  <2> HIDE DEF head
  <2>1. /\ Len(file') = keep + 1 /\ file'[keep + 1] = Junk
        /\ \A i \in 1 .. keep : file'[i] = head[i]
    BY <1>1, <1>2, <1>4
  <2>2. QED
    BY <1>1, <1>2, <1>4, <2>1
<1>5. QED
  BY <1>3, <1>4 DEF PowerLoss

LEMMA TruncateFile ==
  ASSUME FileInv, TruncateTail
  PROVE  /\ Len(file) \in Nat \ {0} /\ ~IsEntry(file[Len(file)])
         /\ Len(file') = Len(file) - 1
         /\ \A i \in 1 .. Len(file) - 1 : file'[i] = file[i]
         /\ synced' = synced /\ synced < Len(file) /\ synced \in Nat
         /\ \A p \in Processes : process'[p].step = "none"
<1>1. file \in Seq(Entry \cup {Junk}) /\ file # <<>> /\ ~IsEntry(file[Len(file)])
  BY DEF TruncateTail, TailReadable, FileInv, TypeOK
<1>2. Len(file) \in Nat \ {0}
  BY <1>1
<1>3. /\ Len(file') = Len(file) - 1
      /\ \A i \in 1 .. Len(file) - 1 : file'[i] = file[i]
  <2>1. file' = SubSeq(file, 1, Len(file) - 1) /\ Len(file) - 1 \in 0 .. Len(file)
    BY <1>2 DEF TruncateTail
  <2>2. QED
    BY <1>1, <2>1, PrefixType, PrefixElements
<1>4. synced < Len(file) /\ synced' = synced /\ synced \in Nat
  BY <1>1, <1>2 DEF FileInv, TornIsLast, TruncateTail, TypeOK
<1>5. \A p \in Processes : process'[p].step = "none"
  BY DEF FileInv, AppendsOpen, TruncateTail
<1>6. QED
  BY <1>1, <1>2, <1>3, <1>4, <1>5

LEMMA TypeNext ==
  ASSUME TypeOK, [Next]_vars
  PROVE  TypeOK'
<1>1. UNCHANGED vars => TypeOK'
  BY DEF TypeOK, vars
<1>2. QED
  BY <1>1, RunTypes, EnvironmentTypes DEF Next

LEMMA FileStep ==
  ASSUME FileInv, "newline" \notin Tears, [Next]_vars
  PROVE  FileInv'
<1>1. TypeOK /\ TypeOK' /\ Len(file) \in Nat /\ synced \in Nat
  BY TypeNext DEF FileInv, TypeOK
<1>2. CASE Passes
  <2>1. TornIsJunk' /\ TornIsLast'
    BY <1>2 DEF Passes, FileInv, TornIsJunk, TornIsLast, TailReadable
  <2>2. AppendsOpen'
    BY <1>2 DEF Passes, SameAppend, Begins, FileInv, AppendsOpen, TailReadable
  <2>3. SyncsStored'
    BY <1>2 DEF Passes, SameAppend, Begins, FileInv, SyncsStored
  <2>4. QED
    BY <1>1, <2>1, <2>2, <2>3 DEF FileInv
<1>3. ASSUME NEW p \in Processes, Stores(p)
      PROVE  FileInv'
  <2>1. /\ IsEntry(process[p].entry) /\ TailReadable /\ ended' = TRUE /\ TailReadable'
        /\ Len(file') = Len(file) + 1 /\ file'[Len(file) + 1] = process[p].entry
        /\ \A i \in 1 .. Len(file) : file'[i] = file[i]
    BY <1>3, StoresWhole
  <2>2. TornIsJunk' /\ AppendsOpen'
    BY <2>1 DEF TornIsJunk, AppendsOpen
  <2>3. \A i \in 1 .. Len(file) : IsEntry(file[i])
    BY <1>1, <2>1 DEF FileInv, TornIsLast, TailReadable
  <2>4. TornIsLast'
    BY <1>1, <2>1, <2>3 DEF TornIsLast
  <2>5. ASSUME NEW q \in Processes, process'[q].step = "sync"
        PROVE  \E i \in 1 .. Len(file') : file'[i] = process'[q].entry
    <3>1. process \in [Processes -> ProcessState]
      BY <1>1 DEF TypeOK
    <3>2. CASE q = p
      <4>1. process'[q].entry = process[p].entry
        BY <1>3, <3>1, <3>2 DEF Stores, ProcessState
      <4>2. Len(file) + 1 \in 1 .. Len(file')
        BY <1>1, <2>1
      <4>3. QED
        BY <2>1, <4>1, <4>2
    <3>3. CASE q # p
      <4>1. process'[q] = process[q]
        BY <1>3, <3>1, <3>3 DEF Stores
      <4>2. PICK i \in 1 .. Len(file) : file[i] = process[q].entry
        BY <2>5, <4>1 DEF FileInv, SyncsStored
      <4>3. i \in 1 .. Len(file') /\ file'[i] = file[i]
        BY <1>1, <2>1
      <4>4. QED
        BY <4>1, <4>2, <4>3
    <3>4. QED
      BY <3>2, <3>3
  <2>6. QED
    BY <1>1, <2>2, <2>4, <2>5 DEF FileInv, SyncsStored
<1>4. ASSUME NEW p \in Processes, Flushes(p)
      PROVE  FileInv'
  <2>1. TailReadable /\ TailReadable' /\ file' = file /\ ended' = ended
    BY <1>4 DEF Flushes, FileInv, AppendsOpen, TailReadable
  <2>2. SyncsStored'
    BY <1>4, <2>1 DEF Flushes, SameAppend, FileInv, SyncsStored
  <2>3. TornIsLast'
    BY <1>1, <2>1 DEF FileInv, TornIsLast, TailReadable
  <2>4. QED
    BY <1>1, <2>1, <2>2, <2>3 DEF FileInv, TornIsJunk, AppendsOpen
<1>5. CASE Probes
  <2>1. file' = file /\ ended' = ended /\ process' = process
    BY <1>5 DEF Probes
  <2>2. \A i \in 1 .. Len(file) : IsEntry(file[i])
    BY <1>5 DEF Probes, Verifies
  <2>3. TailReadable
    BY <1>1, <2>2 DEF TailReadable, TypeOK
  <2>4. TornIsLast' /\ SyncsStored'
    BY <2>1, <2>2 DEF TornIsLast, SyncsStored, FileInv
  <2>5. TornIsJunk' /\ AppendsOpen'
    BY <2>1, <2>3 DEF FileInv, TornIsJunk, AppendsOpen, TailReadable
  <2>6. QED
    BY <1>1, <2>4, <2>5 DEF FileInv
<1>6. ASSUME NEW keep \in synced .. Len(file), NEW tear \in Tears \cup {"none"}, PowerLoss(keep, tear)
      PROVE  FileInv'
  <2>1. \A p \in Processes : process'[p].step = "none"
    BY <1>6 DEF PowerLoss, Down
  <2>2. /\ keep \in Nat /\ synced <= keep /\ keep <= Len(file)
        /\ \A i \in 1 .. keep : file'[i] = file[i]
        /\ file' \in Seq(Entry \cup {Junk}) /\ file \in Seq(Entry \cup {Junk}) /\ synced' = synced
    BY <1>1, <1>6, PowerLossFile DEF PowerLoss, TypeOK
  <2>3. CASE keep < Len(file) /\ Len(file') = keep + 1 /\ file'[keep + 1] = Junk /\ ended' = FALSE
    <3>1. \A i \in 1 .. keep : IsEntry(file'[i])
      BY <1>1, <2>2, <2>3 DEF FileInv, TornIsLast
    <3>2. ~TailReadable' /\ TornIsLast'
      BY <1>1, <2>2, <2>3, <3>1 DEF TailReadable, IsEntry, TornIsLast
    <3>3. QED
      BY <1>1, <2>1, <3>2 DEF FileInv, TornIsJunk, AppendsOpen, SyncsStored
  <2>4. CASE Len(file') = keep /\ ended' = (keep < Len(file) \/ ended)
    <3>1. TornIsLast'
      BY <1>1, <2>2, <2>4 DEF FileInv, TornIsLast
    <3>2. TornIsJunk'
      <4> SUFFICES ASSUME ~ended' PROVE ~TailReadable'
        BY DEF TornIsJunk
      <4>0. ~(keep < Len(file)) /\ ~ended
        BY <2>4
      <4>1. keep = Len(file) /\ ~ended
        BY <1>1, <2>2, <4>0
      <4>2. Len(file) > 0 /\ ~IsEntry(file[Len(file)])
        BY <1>1, <2>2, <4>1 DEF FileInv, TornIsJunk, TailReadable
      <4>3. Len(file') > 0 /\ ~IsEntry(file'[Len(file')])
        BY <1>1, <2>2, <2>4, <4>1, <4>2
      <4>4. QED
        BY <4>3, <2>2 DEF TailReadable
    <3>3. QED
      BY <1>1, <2>1, <3>1, <3>2 DEF FileInv, AppendsOpen, SyncsStored
  <2>5. QED
    BY <1>6, <2>3, <2>4, PowerLossFile
<1>7. CASE TruncateTail
  <2>1. ended' = TRUE
    BY <1>7 DEF TruncateTail
  <2>2. /\ Len(file') = Len(file) - 1
        /\ \A i \in 1 .. Len(file) - 1 : file'[i] = file[i]
        /\ \A p \in Processes : process'[p].step = "none"
    BY <1>7, TruncateFile
  <2>3. TornIsLast'
    BY <1>1, <2>2 DEF FileInv, TornIsLast
  <2>4. QED
    BY <1>1, <2>1, <2>2, <2>3 DEF FileInv, TornIsJunk, AppendsOpen, SyncsStored
<1>8. QED
  BY <1>1, <1>2, <1>3, <1>4, <1>5, <1>6, <1>7, StepShapes

\* The entry with this hash is on one of the first n lines.
HoldsHash(lines, n, h) == \E i \in 1 .. n : IsEntry(lines[i]) /\ lines[i].hash = h

LEMMA AckedHashes ==
  /\ AckedStored <=> \A h \in acked : HoldsHash(file, synced, h)
  /\ AckedStored' <=> \A h \in acked' : HoldsHash(file', synced', h)
BY DEF AckedStored, HoldsHash

\* The durable lines stay, in place: a power loss keeps them, the truncation of a torn
\* tail does not reach them, and no append touches a whole line.
LEMMA DurableLinesStay ==
  ASSUME FileInv, "newline" \notin Tears, [Next]_vars
  PROVE  /\ synced \in Nat /\ synced' \in Nat /\ synced <= synced'
         /\ \A i \in 1 .. synced : file'[i] = file[i]
<1>1. synced \in Nat /\ synced' \in Nat /\ Len(file) \in Nat /\ synced <= Len(file)
  BY TypeNext DEF FileInv, TypeOK
<1>2. CASE Passes \/ Probes \/ \E p \in Processes : Flushes(p)
  BY <1>1, <1>2 DEF Passes, Probes, Flushes
<1>3. ASSUME NEW p \in Processes, Stores(p)
      PROVE  synced' = synced /\ \A i \in 1 .. synced : file'[i] = file[i]
  <2>1. \A i \in 1 .. Len(file) : file'[i] = file[i]
    BY <1>3, StoresWhole
  <2>2. QED
    BY <1>1, <1>3, <2>1 DEF Stores
<1>4. ASSUME NEW keep \in synced .. Len(file), NEW tear \in Tears \cup {"none"}, PowerLoss(keep, tear)
      PROVE  synced' = synced /\ \A i \in 1 .. synced : file'[i] = file[i]
  <2>1. synced <= keep /\ keep \in Nat /\ \A i \in 1 .. keep : file'[i] = file[i]
    BY <1>4, PowerLossFile
  <2>2. QED
    BY <1>1, <1>4, <2>1 DEF PowerLoss
<1>5. CASE TruncateTail
  <2>1. /\ \A i \in 1 .. Len(file) - 1 : file'[i] = file[i]
        /\ synced' = synced /\ synced < Len(file)
    BY <1>5, TruncateFile
  <2>2. QED
    BY <1>1, <2>1
<1>6. QED
  BY <1>1, <1>2, <1>3, <1>4, <1>5, StepShapes DEF FileInv

\* An append returns in the step that makes its own line durable.
LEMMA AckedChanges ==
  ASSUME FileInv, [Next]_vars
  PROVE  \/ acked' = acked
         \/ /\ file' = file /\ synced' = Len(file)
            /\ \E p \in Processes : /\ process[p].step = "sync"
                                    /\ acked' = acked \cup {process[p].entry.hash}
BY StepShapes DEF FileInv, Passes, Stores, Flushes, Probes, PowerLoss, TruncateTail

LEMMA AckedStep ==
  ASSUME FileInv, AckedStored, "newline" \notin Tears, [Next]_vars
  PROVE  AckedStored'
<1>1. /\ synced \in Nat /\ synced' \in Nat /\ synced <= synced'
      /\ \A i \in 1 .. synced : file'[i] = file[i]
  BY DurableLinesStay
<1>2. ASSUME NEW h \in acked PROVE HoldsHash(file', synced', h)
  <2>1. PICK i \in 1 .. synced : IsEntry(file[i]) /\ file[i].hash = h
    BY AckedHashes DEF HoldsHash
  <2>2. i \in 1 .. synced' /\ file'[i] = file[i]
    BY <1>1
  <2>3. QED
    BY <2>1, <2>2 DEF HoldsHash
<1>3. ASSUME NEW p \in Processes, process[p].step = "sync", file' = file, synced' = Len(file)
      PROVE  HoldsHash(file', synced', process[p].entry.hash)
  <2>1. PICK i \in 1 .. Len(file) : file[i] = process[p].entry
    BY <1>3 DEF FileInv, SyncsStored
  <2>2. IsEntry(process[p].entry)
    BY <1>3 DEF FileInv, TypeOK, IsEntry
  <2>3. QED
    BY <1>3, <2>1, <2>2 DEF HoldsHash
<1>4. QED
  BY <1>2, <1>3, AckedChanges, AckedHashes

LEMMA FileInvariant ==
  ASSUME "newline" \notin Tears
  PROVE  Spec => []FileInv
<1>1. Init => FileInv
  <2>1. Init => TypeOK
    BY TypeParts, DownType DEF Init, FileOK, ProcessesOK, RestOK
  <2>2. QED
    BY <2>1 DEF Init, FileInv, TornIsJunk, TornIsLast, AppendsOpen, SyncsStored, Down
<1>2. FileInv /\ [Next]_vars => FileInv'
  BY FileStep
<1>3. QED
  BY <1>1, <1>2, PTL DEF Spec

\* Whatever dies, loses power or is truncated, and however many processes append, an
\* entry whose append returned is on a line no power loss takes back: as long as a
\* power loss does not leave a whole line without its newline.
THEOREM AcknowledgedIsStored ==
  ASSUME "newline" \notin Tears
  PROVE  Spec => []AckedStored
<1>1. Init => AckedStored
  BY DEF Init, AckedStored
<1>2. FileInv /\ AckedStored /\ [Next]_vars => AckedStored'
  BY AckedStep
<1>3. QED
  BY <1>1, <1>2, FileInvariant, PTL DEF Spec

-------------------------------------------------------------------------------
(***************************************************************************)
(* Without the epoch receipt, an append is a serving process's, so the     *)
(* lease makes it the only one, and the chain never forks.                 *)
(***************************************************************************)
AppendsServe == \A p \in Processes : process[p].step # "none" => Serving(p)

\* The line continues the lines: what append derives from the tail it has read.
Continues(line, lines) ==
  /\ IsEntry(line)
  /\ line.seq = Len(lines) + 1
  /\ line.prev = IF lines = <<>> THEN Genesis ELSE lines[Len(lines)].hash

WritesContinue ==
  \A p \in Processes :
    process[p].step = "write" => TailReadable /\ Continues(process[p].entry, file)

Linked(lines, i) ==
  /\ IsEntry(lines[i])
  /\ lines[i].seq = i
  /\ lines[i].prev = IF i = 1 THEN Genesis ELSE lines[i - 1].hash

\* ChainUnforked, line by line: all but a torn tail are linked.
LinkedUpToTail(lines) ==
  \A i \in 1 .. Len(lines) : i < Len(lines) \/ IsEntry(lines[i]) => Linked(lines, i)

LEMMA Unforked ==
  /\ TypeOK => (ChainUnforked <=> LinkedUpToTail(file))
  /\ TypeOK' => (ChainUnforked' <=> LinkedUpToTail(file'))
<1>1. ASSUME NEW s \in Seq(Entry \cup {Junk})
      PROVE  Verifies(IF s # <<>> => IsEntry(s[Len(s)]) THEN s ELSE SubSeq(s, 1, Len(s) - 1))
               <=> LinkedUpToTail(s)
  <2>1. Len(s) \in Nat /\ (s # <<>> <=> Len(s) > 0)
    OBVIOUS
  <2>2. CASE s # <<>> => IsEntry(s[Len(s)])
    BY <2>1, <2>2 DEF Verifies, LinkedUpToTail, Linked
  <2>3. CASE ~(s # <<>> => IsEntry(s[Len(s)]))
    <3> DEFINE t == SubSeq(s, 1, Len(s) - 1)
    <3>1. Len(s) - 1 \in 0 .. Len(s)
      BY <2>1, <2>3
    <3>2. Len(t) = Len(s) - 1 /\ \A i \in 1 .. Len(s) - 1 : t[i] = s[i]
      BY <3>1, PrefixType, PrefixElements
    <3> HIDE DEF t
    <3>3. ASSUME NEW i \in 1 .. Len(s) - 1
          PROVE  Linked(s, i) <=> /\ IsEntry(t[i]) /\ t[i].seq = i
                                  /\ t[i].prev = IF i = 1 THEN Genesis ELSE t[i - 1].hash
      <4>1. t[i] = s[i] /\ (i # 1 => t[i - 1] = s[i - 1])
        BY <2>1, <3>2
      <4>2. QED
        BY <4>1 DEF Linked
    <3>4. LinkedUpToTail(s) <=> \A i \in 1 .. Len(s) - 1 : Linked(s, i)
      BY <2>1, <2>3 DEF LinkedUpToTail
    <3>5. Verifies(t) <=> LinkedUpToTail(s)
      BY <3>2, <3>3, <3>4 DEF Verifies
    <3>6. QED
      BY <2>3, <3>5 DEF t
  <2>4. QED
    BY <2>2, <2>3
<1>2. TypeOK => (ChainUnforked <=> LinkedUpToTail(file))
  BY <1>1 DEF TypeOK, ChainUnforked, Entries, TailReadable
<1>3. TypeOK' => (ChainUnforked' <=> LinkedUpToTail(file'))
  BY <1>1 DEF TypeOK, ChainUnforked, Entries, TailReadable
<1>4. QED
  BY <1>2, <1>3

LEMMA LinkedPrefix ==
  ASSUME NEW s \in Seq(Entry \cup {Junk}), LinkedUpToTail(s), NEW n \in 0 .. Len(s)
  PROVE  /\ LinkedUpToTail(SubSeq(s, 1, n))
         /\ n < Len(s) => LinkedUpToTail(Append(SubSeq(s, 1, n), Junk))
<1> DEFINE t == SubSeq(s, 1, n)
<1>1. /\ t \in Seq(Entry \cup {Junk}) /\ Len(t) = n /\ Len(s) \in Nat /\ n \in Nat
      /\ \A i \in 1 .. n : t[i] = s[i]
  BY PrefixType, PrefixElements
<1> HIDE DEF t
<1>2. ASSUME NEW u, NEW i \in 1 .. n, Linked(s, i), \A k \in 1 .. n : u[k] = s[k]
      PROVE  Linked(u, i)
  <2>1. u[i] = s[i] /\ (i # 1 => u[i - 1] = s[i - 1])
    BY <1>1, <1>2
  <2>2. QED
    BY <1>2, <2>1 DEF Linked
<1>3. LinkedUpToTail(t)
  <2> SUFFICES ASSUME NEW i \in 1 .. n, i < n \/ IsEntry(t[i]) PROVE Linked(t, i)
    BY <1>1 DEF LinkedUpToTail
  <2>1. i < Len(s) \/ IsEntry(s[i])
    BY <1>1
  <2>2. Linked(s, i)
    BY <1>1, <2>1 DEF LinkedUpToTail
  <2>3. QED
    BY <1>1, <1>2, <2>2
<1>4. ASSUME n < Len(s)
      PROVE  LinkedUpToTail(Append(t, Junk))
  <2>1. /\ Len(Append(t, Junk)) = n + 1 /\ Append(t, Junk)[n + 1] = Junk
        /\ \A i \in 1 .. n : Append(t, Junk)[i] = s[i]
    BY <1>1
  <2> SUFFICES ASSUME NEW i \in 1 .. n + 1, i < n + 1 \/ IsEntry(Append(t, Junk)[i])
               PROVE  Linked(Append(t, Junk), i)
    BY <2>1 DEF LinkedUpToTail
  <2>2. i \in 1 .. n
    BY <1>1, <2>1 DEF IsEntry
  <2>3. Linked(s, i)
    BY <1>1, <1>4, <2>2 DEF LinkedUpToTail
  <2>4. QED
    BY <1>2, <2>1, <2>2, <2>3
<1>5. QED
  BY <1>3, <1>4 DEF t

LEMMA LinkedAppend ==
  ASSUME NEW s \in Seq(Entry \cup {Junk}), LinkedUpToTail(s), s # <<>> => IsEntry(s[Len(s)]),
         NEW line \in Entry, Continues(line, s)
  PROVE  LinkedUpToTail(Append(s, line))
<1> DEFINE u == Append(s, line)
<1>1. /\ Len(s) \in Nat /\ Len(u) = Len(s) + 1 /\ u[Len(s) + 1] = line
      /\ \A i \in 1 .. Len(s) : u[i] = s[i]
      /\ s = <<>> <=> Len(s) = 0
  OBVIOUS
<1> HIDE DEF u
<1>2. ASSUME NEW i \in 1 .. Len(s) PROVE Linked(u, i)
  <2>1. Linked(s, i)
    BY <1>1 DEF LinkedUpToTail
  <2>2. u[i] = s[i] /\ (i # 1 => u[i - 1] = s[i - 1])
    BY <1>1
  <2>3. QED
    BY <2>1, <2>2 DEF Linked
<1>3. Linked(u, Len(s) + 1)
  <2>1. Len(s) # 0 => u[Len(s) + 1 - 1] = s[Len(s)]
    BY <1>1
  <2>2. QED
    BY <1>1, <2>1 DEF Linked, Continues
<1>4. QED
  BY <1>1, <1>2, <1>3 DEF LinkedUpToTail, u

LEMMA ServesStep ==
  ASSUME TypeOK, AppendsServe, ~MatterAccess, [Next]_vars
  PROVE  AppendsServe'
<1>1. process \in [Processes -> ProcessState]
  BY DEF TypeOK
<1>2. ASSUME NEW p \in Processes, process'[p].step = "none",
             \A q \in Processes \ {p} : process'[q] = process[q]
      PROVE  AppendsServe'
  BY <1>2 DEF AppendsServe, Serving
<1>3. ASSUME NEW p \in Processes, process'[p].pc \in {"serving", "draining"},
             \A q \in Processes \ {p} : process'[q] = process[q]
      PROVE  AppendsServe'
  BY <1>3 DEF AppendsServe, Serving
<1>4. process' = process => AppendsServe'
  BY DEF AppendsServe, Serving
<1>5. ASSUME NEW p \in Processes, AfterThrow(p) \/ process' = [process EXCEPT ![p] = Down]
      PROVE  AppendsServe'
  <2>1. process'[p].step = "none" /\ \A q \in Processes \ {p} : process'[q] = process[q]
    <3>1. CASE AfterThrow(p)
      BY <1>1, <3>1 DEF AfterThrow, Down, ProcessState
    <3>2. CASE process' = [process EXCEPT ![p] = Down]
      BY <1>1, <3>2 DEF Down
    <3>3. QED
      BY <1>5, <3>1, <3>2
  <2>2. QED
    BY <1>2, <2>1
<1>6. ASSUME NEW p \in Processes, NEW waits, Serving(p), ReadTail(p, waits)
      PROVE  AppendsServe'
  <2>1. process'[p].pc = process[p].pc /\ \A q \in Processes \ {p} : process'[q] = process[q]
    BY <1>1, <1>6 DEF ReadTail, Building, ProcessState
  <2>2. QED
    BY <1>3, <1>6, <2>1 DEF Serving
<1>7. ASSUME NEW p \in Processes, Run(p)
      PROVE  AppendsServe'
  <2>1. CASE Write(p)
    <3>1. CASE process' = [process EXCEPT ![p].step = "sync"]
      <4>1. Serving(p)
        BY <2>1 DEF Write, AppendsServe
      <4>2. process'[p].pc = process[p].pc /\ \A q \in Processes \ {p} : process'[q] = process[q]
        BY <1>1, <3>1 DEF ProcessState
      <4>3. QED
        BY <1>3, <4>1, <4>2 DEF Serving
    <3>2. QED
      BY <1>5, <2>1, <3>1 DEF Write
  <2>2. CASE Sync(p)
    <3>1. CASE process' = [process EXCEPT ![p] = Returned(@, process[p].entry.hash)]
      <4>1. process'[p].step = "none" /\ \A q \in Processes \ {p} : process'[q] = process[q]
        BY <1>1, <3>1 DEF Returned, ProcessState
      <4>2. QED
        BY <1>2, <4>1
    <3>2. QED
      BY <1>5, <2>2, <3>1 DEF Sync
  <2>3. CASE AssertAppendable(p)
    BY <1>4, <2>3 DEF AssertAppendable
  <2>4. CASE Start(p)
    <3>1. process'[p].step = "none" /\ \A q \in Processes \ {p} : process'[q] = process[q]
      BY <1>1, <2>4 DEF Start, Booted
    <3>2. QED
      BY <1>2, <3>1
  <2>5. CASE AcquireLease(p)
    <3>1. CASE process' = [process EXCEPT ![p].pc = "serving"]
      <4>1. process'[p].pc = "serving" /\ \A q \in Processes \ {p} : process'[q] = process[q]
        BY <1>1, <3>1 DEF ProcessState
      <4>2. QED
        BY <1>3, <4>1
    <3>2. QED
      BY <1>5, <2>5, <3>1 DEF AcquireLease
  <2>6. CASE AppendReceipt(p)
    BY <1>6, <2>6 DEF AppendReceipt, Serving
  <2>7. CASE Settle(p)
    <3>1. CASE process' = [process EXCEPT ![p].awaiting = FALSE]
      <4>1. process'[p].pc = process[p].pc /\ \A q \in Processes \ {p} : process'[q] = process[q]
        BY <1>1, <3>1 DEF ProcessState
      <4>2. QED
        BY <1>3, <2>7, <4>1 DEF Settle
    <3>2. CASE ReadTail(p, FALSE)
      <4>1. Serving(p)
        BY <2>7 DEF Settle, Serving
      <4>2. QED
        BY <1>6, <3>2, <4>1
    <3>3. QED
      BY <2>7, <3>1, <3>2 DEF Settle
  <2>8. CASE Dispatch(p) \/ Shutdown(p)
    <3>1. process'[p].step = "none" /\ \A q \in Processes \ {p} : process'[q] = process[q]
      BY <1>1, <2>8 DEF Dispatch, Shutdown, Idle, ProcessState
    <3>2. QED
      BY <1>2, <3>1
  <2>9. CASE Drained(p) \/ Deadline(p)
    BY <1>5, <2>9 DEF Drained, Deadline, ReleaseLeaseAndExit
  <2>10. QED
    BY <1>7, <2>1, <2>2, <2>3, <2>4, <2>5, <2>6, <2>7, <2>8, <2>9 DEF Run
<1>8. CASE Environment
  <2>1. ASSUME NEW keep, NEW tear, PowerLoss(keep, tear) PROVE AppendsServe'
    BY <2>1 DEF PowerLoss, AppendsServe, Down
  <2>2. QED
    BY <1>4, <1>5, <1>8, <2>1 DEF Environment, Kill, TruncateTail, RemoveLease
<1>9. QED
  BY <1>4, <1>7, <1>8 DEF Next, vars

LEMMA NextEntryContinues ==
  ASSUME TypeOK, ChainUnforked, TailReadable
  PROVE  Continues(NextEntry, file)
<1>1. IsEntry(NextEntry)
  BY NextEntryType, TypeParts DEF IsEntry
<1>2. file \in Seq(Entry \cup {Junk}) /\ LinkedUpToTail(file) /\ Len(file) \in Nat
      /\ (file = <<>> <=> Len(file) = 0)
  BY Unforked DEF TypeOK
<1>3. file # <<>> => file[Len(file)].seq = Len(file)
  BY <1>2 DEF TailReadable, LinkedUpToTail, Linked
<1>4. QED
  BY <1>1, <1>2, <1>3 DEF Continues, NextEntry

ForkInv == TypeOK /\ OneWriter /\ AppendsServe /\ WritesContinue /\ ChainUnforked

LEMMA ForkStep ==
  ASSUME ForkInv, OneWriter', ~MatterAccess, [Next]_vars
  PROVE  ForkInv'
<1>1. TypeOK /\ TypeOK' /\ AppendsServe'
  BY TypeNext, ServesStep DEF ForkInv
<1>2. file \in Seq(Entry \cup {Junk}) /\ Len(file) \in Nat /\ LinkedUpToTail(file)
  BY <1>1, Unforked DEF TypeOK, ForkInv
<1>3. file' = file => ChainUnforked'
  BY <1>1, <1>2, Unforked
<1>4. CASE Passes
  <2>1. \A p \in Processes : Begins(p) => Continues(process'[p].entry, file)
    BY NextEntryContinues DEF Begins, ForkInv
  <2>2. WritesContinue'
    BY <1>4, <2>1 DEF Passes, SameAppend, Begins, ForkInv, WritesContinue, TailReadable
  <2>3. QED
    BY <1>1, <1>3, <1>4, <2>2 DEF Passes, ForkInv
<1>5. ASSUME NEW p \in Processes, Stores(p)
      PROVE  ForkInv'
  <2>1. process \in [Processes -> ProcessState] /\ process[p].entry \in Entry
    BY <1>1, <1>5 DEF TypeOK, Stores, ProcessState
  <2>2. \A q \in Processes \ {p} : process[q].step = "none"
    BY <1>5 DEF Stores, ForkInv, AppendsServe, OneWriter
  <2>3. WritesContinue'
    BY <1>5, <2>1, <2>2 DEF Stores, WritesContinue, ProcessState
  <2>4. TailReadable /\ Continues(process[p].entry, file)
    BY <1>5 DEF Stores, ForkInv, WritesContinue
  <2>5. LinkedUpToTail(file')
    <3>1. CASE ended
      BY <1>2, <1>5, <2>1, <2>4, <3>1, LinkedAppend DEF Stores, WriteLine, TailReadable
    <3>2. CASE ~ended /\ file # <<>>
      <4>1. file' = Append(SubSeq(file, 1, Len(file) - 1), Junk)
        BY <1>5, <3>2 DEF Stores, WriteLine
      <4>2. Len(file) - 1 \in 0 .. Len(file) /\ Len(file) - 1 < Len(file)
        BY <1>2, <3>2
      <4>3. QED
        BY <1>2, <4>1, <4>2, LinkedPrefix
    <3>3. CASE ~ended /\ file = <<>>
      <4> DEFINE head == SubSeq(file, 1, Len(file) - 1)
      <4>1. file' = Append(head, Junk)
        BY <1>5, <3>3 DEF Stores, WriteLine
      <4>2. head \in Seq(Entry \cup {Junk}) /\ Len(head) = 0
        BY <1>2, <3>3
      <4> HIDE DEF head
      <4>3. Len(file') = 1 /\ file'[1] = Junk
        BY <4>1, <4>2
      <4>4. QED
        BY <4>3 DEF LinkedUpToTail, IsEntry
    <3>4. QED
      BY <3>1, <3>2, <3>3
  <2>6. QED
    BY <1>1, <2>3, <2>5, Unforked DEF ForkInv
<1>6. CASE Probes \/ \E p \in Processes : Flushes(p)
  <2>1. WritesContinue'
    BY <1>6 DEF Probes, Flushes, SameAppend, ForkInv, WritesContinue, TailReadable
  <2>2. QED
    BY <1>1, <1>3, <1>6, <2>1 DEF Probes, Flushes, ForkInv
<1>7. ASSUME NEW keep \in synced .. Len(file), NEW tear \in Tears \cup {"none"}, PowerLoss(keep, tear)
      PROVE  ForkInv'
  <2>1. WritesContinue'
    BY <1>7 DEF PowerLoss, WritesContinue, Down
  <2>2. keep \in 0 .. Len(file) /\ (keep < Len(file) => keep + 1 \in 0 .. Len(file))
    BY <1>1, <1>2 DEF TypeOK
  <2>3. LinkedUpToTail(file')
    BY <1>2, <1>7, <2>2, LinkedPrefix DEF PowerLoss
  <2>4. QED
    BY <1>1, <2>1, <2>3, Unforked DEF ForkInv
<1>8. CASE TruncateTail
  <2>1. WritesContinue'
    BY <1>8 DEF TruncateTail, WritesContinue, ForkInv, AppendsServe, Serving
  <2>2. Len(file) - 1 \in 0 .. Len(file)
    BY <1>2, <1>8 DEF TruncateTail, TailReadable
  <2>3. LinkedUpToTail(file')
    BY <1>2, <1>8, <2>2, LinkedPrefix DEF TruncateTail
  <2>4. QED
    BY <1>1, <2>1, <2>3, Unforked DEF ForkInv
<1>9. QED
  BY <1>1, <1>4, <1>5, <1>6, <1>7, <1>8, StepShapes

LEMMA ForkInvariant ==
  ASSUME ~MatterAccess
  PROVE  Spec => []ForkInv
<1>1. Init => ForkInv
  <2>1. Init => TypeOK
    BY TypeParts, DownType DEF Init, FileOK, ProcessesOK, RestOK
  <2>2. Init => OneWriter
    BY DEF Init, OneWriter, Serving, Down
  <2>3. Init => LinkedUpToTail(file)
    BY DEF Init, LinkedUpToTail
  <2>4. QED
    BY <2>1, <2>2, <2>3, Unforked DEF Init, ForkInv, AppendsServe, WritesContinue, Down
<1>2. ForkInv /\ OneWriter' /\ [Next]_vars => ForkInv'
  BY ForkStep
<1>3. QED
  BY <1>1, <1>2, SingleWriter, PTL DEF Spec

\* The chain never forks and never skips, whatever dies, is torn or is truncated, and
\* however many processes start: as long as no roster is configured, whose epoch
\* receipt is the one append outside the lease.
THEOREM NeverForks ==
  ASSUME ~MatterAccess
  PROVE  Spec => []ChainUnforked
<1>1. ForkInv => ChainUnforked
  BY DEF ForkInv
<1>2. QED
  BY <1>1, ForkInvariant, PTL

-------------------------------------------------------------------------------
(***************************************************************************)
(* ReceiptChain implements LedgerPromise: its lines are the hashes of the  *)
(* entries before a torn tail.  Tearing a line off and truncating what is  *)
(* left of it is one loss and a stutter.                                   *)
(***************************************************************************)
WholeLines(s) ==
  IF s # <<>> => IsEntry(s[Len(s)]) THEN s ELSE SubSeq(s, 1, Len(s) - 1)

Hashes(s) == [i \in 1 .. Len(s) |-> s[i].hash]

LEMMA EntriesAre ==
  /\ Entries = WholeLines(file) /\ Entries' = WholeLines(file')
  /\ EntryHashes = Hashes(Entries) /\ EntryHashes' = Hashes(Entries')
BY DEF Entries, EntryHashes, WholeLines, Hashes, TailReadable

LEMMA WholeLinesOf ==
  ASSUME NEW s \in Seq(Entry \cup {Junk}), NEW n \in 0 .. Len(s),
         \A i \in 1 .. Len(s) : IsEntry(s[i]) \/ (i = Len(s) /\ n < i)
  PROVE  /\ WholeLines(s) \in Seq(Entry)
         /\ n <= Len(WholeLines(s))
         /\ \A i \in 1 .. Len(WholeLines(s)) : WholeLines(s)[i] = s[i]
         /\ (s # <<>> => IsEntry(s[Len(s)])) => Len(WholeLines(s)) = Len(s)
         /\ ~(s # <<>> => IsEntry(s[Len(s)])) => Len(WholeLines(s)) = Len(s) - 1
<1>1. Len(s) \in Nat /\ (s # <<>> <=> Len(s) > 0) /\ n \in Nat /\ n <= Len(s)
  OBVIOUS
<1>2. CASE s # <<>> => IsEntry(s[Len(s)])
  <2>1. \A i \in 1 .. Len(s) : s[i] \in Entry
    BY <1>1, <1>2 DEF IsEntry
  <2>2. s \in Seq(Entry)
    BY <2>1
  <2>3. QED
    BY <1>1, <1>2, <2>2 DEF WholeLines
<1>3. CASE ~(s # <<>> => IsEntry(s[Len(s)]))
  <2> DEFINE t == SubSeq(s, 1, Len(s) - 1)
  <2>1. Len(s) - 1 \in 0 .. Len(s) /\ n <= Len(s) - 1
    BY <1>1, <1>3
  <2>2. /\ t \in Seq(Entry \cup {Junk}) /\ Len(t) = Len(s) - 1
        /\ \A i \in 1 .. Len(s) - 1 : t[i] = s[i]
    BY <2>1, PrefixType, PrefixElements
  <2> HIDE DEF t
  <2>3. \A i \in 1 .. Len(t) : t[i] \in Entry
    BY <1>1, <2>2 DEF IsEntry
  <2>4. t \in Seq(Entry)
    BY <2>2, <2>3
  <2>5. WholeLines(s) = t
    BY <1>3 DEF WholeLines, t
  <2>6. QED
    BY <1>3, <2>1, <2>2, <2>4, <2>5
<1>4. QED
  BY <1>2, <1>3

LEMMA SameSequence ==
  ASSUME NEW S, NEW s \in Seq(S), NEW t \in Seq(S), Len(s) = Len(t),
         \A i \in 1 .. Len(s) : s[i] = t[i]
  PROVE  s = t
OBVIOUS

LEMMA HashesOf ==
  ASSUME NEW s \in Seq(Entry)
  PROVE  /\ Hashes(s) \in Seq(Nat) /\ Len(Hashes(s)) = Len(s)
         /\ \A i \in 1 .. Len(s) : Hashes(s)[i] = s[i].hash
<1>1. \A i \in 1 .. Len(s) : s[i] \in Entry
  OBVIOUS
<1>2. \A i \in 1 .. Len(s) : s[i].hash \in Nat
  BY <1>1 DEF Entry
<1>3. QED
  BY <1>2 DEF Hashes

LEMMA HashesAppend ==
  ASSUME NEW s \in Seq(Entry), NEW line \in Entry
  PROVE  Hashes(Append(s, line)) = Append(Hashes(s), line.hash)
<1> DEFINE u == Append(s, line)
           a == Hashes(u)
           h == Hashes(s)
           g == Append(h, line.hash)
<1>1. /\ u \in Seq(Entry) /\ Len(u) = Len(s) + 1 /\ Len(s) \in Nat
      /\ u[Len(s) + 1] = line
      /\ \A i \in 1 .. Len(s) : u[i] = s[i]
  OBVIOUS
<1>2. line.hash \in Nat
  BY DEF Entry
<1> HIDE DEF u
<1>3. /\ a \in Seq(Nat) /\ Len(a) = Len(s) + 1
      /\ \A i \in 1 .. Len(s) + 1 : a[i] = u[i].hash
      /\ h \in Seq(Nat) /\ Len(h) = Len(s) /\ \A i \in 1 .. Len(s) : h[i] = s[i].hash
  BY <1>1, HashesOf
<1> HIDE DEF a, h, g
<1>4. /\ g \in Seq(Nat) /\ Len(g) = Len(s) + 1
      /\ g[Len(s) + 1] = line.hash
      /\ \A i \in 1 .. Len(s) : g[i] = h[i]
  BY <1>2, <1>3 DEF g
<1>5. ASSUME NEW i \in 1 .. Len(s) + 1 PROVE a[i] = g[i]
  <2>1. a[i] = u[i].hash
    BY <1>3
  <2>2. CASE i \in 1 .. Len(s)
    <3>1. a[i] = s[i].hash
      BY <1>1, <2>1, <2>2
    <3>2. g[i] = h[i] /\ h[i] = s[i].hash
      BY <1>3, <1>4, <2>2
    <3>3. QED
      BY <3>1, <3>2
  <2>3. CASE i = Len(s) + 1
    BY <1>1, <1>4, <2>1, <2>3
  <2>4. QED
    BY <1>1, <2>2, <2>3
<1>6. a = g
  BY <1>3, <1>4, <1>5, SameSequence
<1>7. QED
  BY <1>6 DEF a, h, g, u

LEMMA HashesPrefix ==
  ASSUME NEW s \in Seq(Entry), NEW t \in Seq(Entry), Len(t) <= Len(s),
         \A i \in 1 .. Len(t) : t[i] = s[i]
  PROVE  Hashes(t) = SubSeq(Hashes(s), 1, Len(t))
<1> DEFINE a == Hashes(t)
           h == Hashes(s)
<1>1. /\ a \in Seq(Nat) /\ Len(a) = Len(t) /\ \A i \in 1 .. Len(t) : a[i] = t[i].hash
      /\ h \in Seq(Nat) /\ Len(h) = Len(s) /\ \A i \in 1 .. Len(s) : h[i] = s[i].hash
      /\ Len(t) \in 0 .. Len(s)
  BY HashesOf
<1> HIDE DEF a, h
<1>2. /\ SubSeq(h, 1, Len(t)) \in Seq(Nat) /\ Len(SubSeq(h, 1, Len(t))) = Len(t)
      /\ \A i \in 1 .. Len(t) : SubSeq(h, 1, Len(t))[i] = h[i]
  BY <1>1, PrefixType, PrefixElements
<1>3. ASSUME NEW i \in 1 .. Len(t) PROVE a[i] = SubSeq(h, 1, Len(t))[i]
  <2>1. i \in 1 .. Len(s) /\ t[i] = s[i]
    BY <1>1
  <2>2. QED
    BY <1>1, <1>2, <2>1
<1>4. a = SubSeq(h, 1, Len(t))
  BY <1>1, <1>2, <1>3, SameSequence
<1>5. QED
  BY <1>4 DEF a, h

\* The entries before a torn tail, and that the durable lines are among them.
LEMMA EntriesOf ==
  /\ FileInv => /\ Entries \in Seq(Entry) /\ synced \in Nat /\ synced <= Len(Entries)
                /\ \A i \in 1 .. Len(Entries) : Entries[i] = file[i]
                /\ TailReadable => Len(Entries) = Len(file)
                /\ ~TailReadable => Len(Entries) = Len(file) - 1
  /\ FileInv' => /\ Entries' \in Seq(Entry) /\ synced' \in Nat /\ synced' <= Len(Entries')
                 /\ \A i \in 1 .. Len(Entries') : Entries'[i] = file'[i]
                 /\ TailReadable' => Len(Entries') = Len(file')
                 /\ ~TailReadable' => Len(Entries') = Len(file') - 1
<1>1. FileInv => /\ file \in Seq(Entry \cup {Junk}) /\ synced \in 0 .. Len(file) /\ synced \in Nat
                 /\ \A i \in 1 .. Len(file) : IsEntry(file[i]) \/ (i = Len(file) /\ synced < i)
  BY DEF FileInv, TypeOK, TornIsLast
<1>2. FileInv' => /\ file' \in Seq(Entry \cup {Junk}) /\ synced' \in 0 .. Len(file') /\ synced' \in Nat
                  /\ \A i \in 1 .. Len(file') : IsEntry(file'[i]) \/ (i = Len(file') /\ synced' < i)
  BY DEF FileInv, TypeOK, TornIsLast
<1>3. QED
  BY <1>1, <1>2, WholeLinesOf, EntriesAre DEF TailReadable

\* Entries are told apart by the numbers the promise knows.
HashesBounded == \A p \in Processes : process[p].step # "none" => process[p].entry.hash \in Ids

LEMMA HashesBoundedStep ==
  ASSUME TypeOK, HashesBounded, [Next]_vars
  PROVE  HashesBounded'
<1>1. process \in [Processes -> ProcessState]
  BY DEF TypeOK
<1>2. \A p \in Processes : Begins(p) => process'[p].entry.hash \in Ids
  BY ChainAssumption DEF Begins, NextEntry, Ids, TypeOK
<1>3. CASE Passes \/ \E p \in Processes : Flushes(p)
  BY <1>2, <1>3 DEF Passes, Flushes, SameAppend, HashesBounded
<1>4. ASSUME NEW p \in Processes, Stores(p)
      PROVE  \A q \in Processes : process'[q].entry = process[q].entry
                                    /\ (process'[q].step # "none" => process[q].step # "none")
  BY <1>1, <1>4 DEF Stores, ProcessState
<1>5. ASSUME NEW keep, NEW tear, PowerLoss(keep, tear)
      PROVE  HashesBounded'
  BY <1>5 DEF PowerLoss, HashesBounded, Down
<1>6. QED
  BY <1>3, <1>4, <1>5, StepShapes DEF Probes, TruncateTail, HashesBounded

LEMMA StepImplements ==
  ASSUME FileInv, FileInv', HashesBounded, "newline" \notin Tears, [Next]_vars
  PROVE  [Promise!Next]_<<EntryHashes, IF synced <= Len(Entries) THEN synced ELSE Len(Entries), acked>>
<1>1. /\ Entries \in Seq(Entry) /\ synced \in Nat /\ synced <= Len(Entries)
      /\ \A i \in 1 .. Len(Entries) : Entries[i] = file[i]
      /\ TailReadable => Len(Entries) = Len(file)
      /\ ~TailReadable => Len(Entries) = Len(file) - 1
  BY EntriesOf
<1>2. /\ Entries' \in Seq(Entry) /\ synced' \in Nat /\ synced' <= Len(Entries')
      /\ \A i \in 1 .. Len(Entries') : Entries'[i] = file'[i]
      /\ TailReadable' => Len(Entries') = Len(file')
      /\ ~TailReadable' => Len(Entries') = Len(file') - 1
  BY EntriesOf
<1>3. /\ EntryHashes = Hashes(Entries) /\ EntryHashes' = Hashes(Entries')
      /\ Len(EntryHashes) = Len(Entries) /\ EntryHashes \in Seq(Nat)
      /\ \A i \in 1 .. Len(Entries) : EntryHashes[i] = Entries[i].hash
      /\ Len(file) \in Nat
  BY <1>1, EntriesAre, HashesOf DEF FileInv, TypeOK
<1>4. ASSUME file' = file, synced' = Len(Entries), TailReadable,
             NEW done \in SUBSET Ids, done \subseteq {EntryHashes[i] : i \in 1 .. Len(EntryHashes)},
             acked' = acked \cup done
      PROVE  Promise!Next
  <2>1. Entries' = Entries
    BY <1>4, EntriesAre
  <2>2. EntryHashes' = EntryHashes
    BY <1>3, <2>1
  <2>3. Promise!Flush(done)
    BY <1>1, <1>3, <1>4, <2>1, <2>2 DEF Promise!Flush
  <2>4. QED
    BY <2>3 DEF Promise!Next
<1>5. ASSUME Entries' = Entries, synced' = synced, acked' = acked
      PROVE  UNCHANGED <<EntryHashes, IF synced <= Len(Entries) THEN synced ELSE Len(Entries), acked>>
  BY <1>3, <1>5
<1>6. CASE Passes
  BY <1>5, <1>6, EntriesAre DEF Passes
<1>7. ASSUME NEW p \in Processes, Stores(p)
      PROVE  Promise!Next
  <2> DEFINE line == process[p].entry
  <2>1. line \in Entry /\ TailReadable /\ TailReadable' /\ file' = Append(file, line)
    BY <1>7, StoresWhole
  <2>2. Entries = file /\ Entries' = Append(Entries, line)
    BY <2>1 DEF Entries
  <2>3. EntryHashes' = Append(EntryHashes, line.hash)
    BY <1>1, <1>3, <2>1, <2>2, HashesAppend
  <2>4. line.hash \in Ids /\ synced' = synced /\ acked' = acked
    BY <1>7 DEF Stores, HashesBounded
  <2>5. Promise!Write(line.hash)
    BY <1>1, <1>2, <2>3, <2>4 DEF Promise!Write
  <2>6. QED
    BY <2>4, <2>5 DEF Promise!Next
<1>8. ASSUME NEW p \in Processes, Flushes(p)
      PROVE  Promise!Next
  <2> DEFINE done == {process[p].entry.hash}
  <2>1. TailReadable /\ file' = file /\ synced' = Len(Entries) /\ acked' = acked \cup done
    BY <1>1, <1>8 DEF Flushes, FileInv, AppendsOpen
  <2>2. done \in SUBSET Ids
    BY <1>8 DEF Flushes, HashesBounded
  <2>3. PICK i \in 1 .. Len(file) : file[i] = process[p].entry
    BY <1>8 DEF Flushes, FileInv, SyncsStored
  <2>4. i \in 1 .. Len(EntryHashes) /\ EntryHashes[i] = process[p].entry.hash
    BY <1>1, <1>3, <2>1, <2>3
  <2>5. done \subseteq {EntryHashes[k] : k \in 1 .. Len(EntryHashes)}
    BY <2>4
  <2>6. QED
    BY <1>4, <2>1, <2>2, <2>5
<1>9. CASE Probes
  <2>1. TailReadable
    BY <1>9 DEF Probes, Verifies, TailReadable, FileInv, TypeOK
  <2>2. file' = file /\ synced' = Len(Entries) /\ acked' = acked \cup {}
    BY <1>1, <1>9, <2>1 DEF Probes
  <2>3. {} \in SUBSET Ids /\ {} \subseteq {EntryHashes[i] : i \in 1 .. Len(EntryHashes)}
    OBVIOUS
  <2>4. Promise!Next
    BY <1>4, <2>1, <2>2, <2>3
  <2>5. QED
    BY <2>4
<1>10. ASSUME NEW keep \in synced .. Len(file), NEW tear \in Tears \cup {"none"}, PowerLoss(keep, tear)
       PROVE  Promise!Next
  <2>1. /\ keep \in Nat /\ keep <= Len(file)
        /\ \A i \in 1 .. keep : file'[i] = file[i]
        /\ \/ Len(file') = keep
           \/ keep < Len(file) /\ Len(file') = keep + 1 /\ file'[keep + 1] = Junk
        /\ synced' = synced /\ acked' = acked
        /\ file' \in Seq(Entry \cup {Junk}) /\ file \in Seq(Entry \cup {Junk})
    <3>1. keep \in Nat /\ keep <= Len(file)
      BY <1>1, <1>3
    <3>2. file' \in Seq(Entry \cup {Junk}) /\ file \in Seq(Entry \cup {Junk})
      BY DEF FileInv, TypeOK
    <3>3. synced' = synced /\ acked' = acked
      BY <1>10 DEF PowerLoss
    <3>4. QED
      BY <1>10, <3>1, <3>2, <3>3, PowerLossFile
  <2>2. Len(Entries') <= keep /\ Len(Entries') <= Len(Entries) /\ Len(Entries') \in Nat
    <3>1. CASE keep < Len(file) /\ Len(file') = keep + 1 /\ file'[keep + 1] = Junk
      <4>1. ~TailReadable'
        BY <2>1, <3>1 DEF TailReadable, IsEntry
      <4>2. QED
        BY <1>1, <1>2, <1>3, <2>1, <3>1, <4>1
    <3>2. CASE Len(file') = keep /\ keep < Len(file)
      BY <1>1, <1>2, <1>3, <2>1, <3>2
    <3>3. CASE Len(file') = keep /\ keep = Len(file)
      <4>1. TailReadable' <=> TailReadable
        BY <2>1, <3>3 DEF TailReadable
      <4>2. QED
        BY <1>1, <1>2, <1>3, <2>1, <3>3, <4>1
    <3>4. QED
      BY <2>1, <3>1, <3>2, <3>3
  <2>3. \A i \in 1 .. Len(Entries') : Entries'[i] = Entries[i]
    BY <1>1, <1>2, <2>1, <2>2
  <2>4. EntryHashes' = SubSeq(EntryHashes, 1, Len(Entries'))
    BY <1>1, <1>2, <1>3, <2>2, <2>3, HashesPrefix
  <2>5. Len(Entries') \in synced .. Len(EntryHashes) /\ Len(Entries') \in 0 .. Len(EntryHashes)
    BY <1>1, <1>2, <1>3, <2>1, <2>2
  <2>6. Promise!Lose(Len(Entries'))
    BY <1>1, <1>2, <2>1, <2>4, <2>5 DEF Promise!Lose
  <2>7. QED
    BY <2>5, <2>6 DEF Promise!Next
<1>11. CASE TruncateTail
  <2>1. /\ Len(file') = Len(file) - 1 /\ synced' = synced /\ acked' = acked
        /\ \A i \in 1 .. Len(file) - 1 : file'[i] = file[i] /\ IsEntry(file[i])
        /\ ~TailReadable
    BY <1>3, <1>11, TruncateFile DEF TruncateTail, FileInv, TornIsLast
  <2>2. TailReadable'
    <3>1. file' \in Seq(Entry \cup {Junk})
      BY DEF FileInv, TypeOK
    <3>2. QED
      BY <1>3, <2>1, <3>1 DEF TailReadable
  <2>3. Len(Entries') = Len(Entries) /\ \A i \in 1 .. Len(Entries) : Entries'[i] = Entries[i]
    BY <1>1, <1>2, <1>3, <2>1, <2>2
  <2>4. Entries' = Entries
    BY <1>1, <1>2, <2>3, SameSequence
  <2>5. QED
    BY <1>5, <2>1, <2>4
<1>12. QED
  BY <1>6, <1>7, <1>8, <1>9, <1>10, <1>11, StepShapes DEF FileInv

\* The file, its writers and its accidents are the ledger EgressGate relies on, for any
\* number of processes and with or without a roster: as long as a power loss does not
\* leave a whole line without its newline.
THEOREM ChainImplementsLedger ==
  ASSUME "newline" \notin Tears
  PROVE  Spec => ImplementsLedger
<1>1. Init => Promise!Init
  <2>1. Init => Entries = <<>> /\ synced = 0
    BY DEF Init, Entries, TailReadable
  <2>2. Hashes(<<>>) = <<>>
    BY DEF Hashes
  <2>3. QED
    BY <2>1, <2>2, EntriesAre DEF Init, Promise!Init
<1>2. Init => HashesBounded
  BY DEF Init, HashesBounded, Down
<1>3. FileInv /\ HashesBounded /\ [Next]_vars => HashesBounded'
  BY HashesBoundedStep DEF FileInv
<1>4. FileInv /\ FileInv' /\ HashesBounded /\ [Next]_vars
        => [Promise!Next]_<<EntryHashes, IF synced <= Len(Entries) THEN synced ELSE Len(Entries), acked>>
  BY StepImplements
<1>5. QED
  BY <1>1, <1>2, <1>3, <1>4, FileInvariant, PTL DEF Spec, ImplementsLedger, Promise!Spec

===============================================================================

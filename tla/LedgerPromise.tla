----------------------------- MODULE LedgerPromise -----------------------------
(***************************************************************************)
(* What the dispatch core takes for granted about its receipt ledger: a    *)
(* sequence of entries whose durable part is never taken back, and every   *)
(* entry whose append returned is in that part.                            *)
(***************************************************************************)
EXTENDS Naturals, Sequences

CONSTANT Ids  \* entries, told apart by their hashes

VARIABLES
  lines,   \* the entries, in order
  synced,  \* how many of them no power loss can take back
  acked    \* entries whose append returned

Durable == {lines[i] : i \in 1 .. synced}

Init == lines = <<>> /\ synced = 0 /\ acked = {}

\* An entry is written; nothing is promised of it yet.
Write(id) ==
  /\ lines' = Append(lines, id)
  /\ UNCHANGED <<synced, acked>>

\* Everything written is flushed, and appends may return whose entries are in it.
Flush(done) ==
  /\ synced' = Len(lines)
  /\ done \subseteq {lines[i] : i \in 1 .. Len(lines)}
  /\ acked' = acked \cup done
  /\ UNCHANGED lines

\* A power loss keeps a prefix no shorter than the durable part.
Lose(keep) ==
  /\ keep \in synced .. Len(lines)
  /\ lines' = SubSeq(lines, 1, keep)
  /\ UNCHANGED <<synced, acked>>

Next ==
  \/ \E id \in Ids : Write(id)
  \/ \E done \in SUBSET Ids : Flush(done)
  \/ \E keep \in 0 .. Len(lines) : Lose(keep)

Spec == Init /\ [][Next]_<<lines, synced, acked>>
===============================================================================

------------------------------- MODULE TraceStore -------------------------------
(***************************************************************************)
(* The execution traces of one matter: an append-only file of records (the *)
(* partition), a cursor file that says which sources the poller has turned *)
(* into records, and four users of them: the gate's trace sink, callers    *)
(* that capture prompt and output, the poller, and the retention purge.    *)
(*                                                                         *)
(* All file operations are synchronous, so what runs in one Node process   *)
(* is kept apart except where pollMatter awaits its source.  Nothing keeps *)
(* two processes apart.  Home says which process a task runs in.           *)
(*                                                                         *)
(* Time is in days.  A text stands for the prompt and output of a step and *)
(* for its hash; NoText is the absent content, which has a hash too.       *)
(***************************************************************************)
EXTENDS Integers, Sequences, FiniteSets, SequencesExt, FiniteSetsExt

CONSTANTS
  Pollers, Purgers,  \* tasks that poll the matter, tasks that purge it
  Processes, Home,   \* operating system processes, the one a task runs in
  Gate,              \* the process of the gate, whose sink appends a record
  WorkProducts, SubIssues, \* what the control plane may report of the matter
  Texts,             \* captured contents
  NoText, Unparsable, None,
  Documents,         \* `trace:` sections a policy file may hold
  DefaultRetention,  \* DEFAULT_RETENTION_DAYS
  MaxTime, MaxPolls, MaxPurges, MaxRecords, MaxDeaths, MaxFaults \* bounds

Tasks == Pollers \cup Purgers
Sources == WorkProducts \cup SubIssues

ASSUME TraceAssumption ==
  /\ Home \in [Tasks -> Processes] /\ Gate \in Processes
  /\ Pollers \cap Purgers = {} /\ IsFiniteSet(Pollers) /\ WorkProducts \cap SubIssues = {}
  /\ NoText \notin Texts /\ Unparsable \notin Int /\ None \notin Sources
  /\ DefaultRetention \in Nat \ {0}
  /\ {MaxTime, MaxPolls, MaxPurges, MaxRecords, MaxDeaths, MaxFaults} \subseteq Nat

VARIABLES
  now,        \* the wall clock
  items,      \* sources the control plane reports by now
  partition,  \* <issueId>.jsonl, line by line
  cursor,     \* cursors/<issueId>.json: emittedSourceIds
  legible,    \* whether that file parses
  task,       \* what each task is in the middle of
  config,     \* the TraceConfig each process has loaded
  bound,      \* <<traceId, sha>> a caller was handed for its receipt
  (* History, read by no action.                                           *)
  purges,     \* purges that returned: their cutoff, the ids there were before them,
              \* and the records they examined (PurgeResult.scanned)
  spoilt,     \* polls that missed the cursor, failed at a write, or died after reading it
  spent       \* how often each bounded thing has happened

vars == <<now, items, partition, cursor, legible, task, config, bound, purges, spoilt, spent>>

-----------------------------------------------------------------------------
(* Configuration *)

Closed == [enabled |-> FALSE, capture |-> "off", roles |-> {}, retention |-> DefaultRetention]
Roles == {"admin", "supervising-lawyer", "auditor", "agent"}

(* loadTraceConfig: any doubt about any field closes the whole section.    *)
LoadConfig(doc) ==
  IF /\ doc.known
     /\ doc.enabled = "true"   \* the YAML boolean; the string is another value
     /\ doc.capture \in {"hashes-only", "full"}
     /\ doc.roles \subseteq Roles
     /\ doc.capture = "full" => doc.roles # {}
     /\ doc.retention \in {None} \cup (Nat \ {0})
  THEN [enabled |-> TRUE, capture |-> doc.capture, roles |-> doc.roles,
        retention |-> IF doc.retention = None THEN DefaultRetention ELSE doc.retention]
  ELSE Closed

Recording(p) == config[p].enabled /\ config[p].capture # "off"
CanViewContent(role, p) ==
  config[p].enabled /\ config[p].capture = "full" /\ role \in Roles \cap config[p].roles

-----------------------------------------------------------------------------
(* Records and the partition *)

(* makeTraceRecord: the hash is taken before the capture mode drops the    *)
(* text.  The time of a record matters only while it holds a text.         *)
Record(p, id, source, ts, text, cost) ==
  LET kept == IF config[p].capture = "full" THEN text ELSE NoText IN
  [id |-> id, source |-> source, sha |-> text, purged |-> FALSE, cost |-> cost,
   text |-> kept, ts |-> IF kept = NoText THEN 0 ELSE ts]

\* Variant: the hash is taken again after the text is gone.
Rehashed(record) == [record EXCEPT !.text = NoText, !.sha = NoText, !.purged = TRUE]

WithoutContent(record) == [record EXCEPT !.text = NoText, !.purged = TRUE]

\* redactForRole: what a reader gets of a record; the file keeps its text.
RedactForRole(record, role, p) ==
  IF CanViewContent(role, p) THEN record ELSE [record EXCEPT !.text = NoText]

(* A line cut short has no newline: the next record is written behind it   *)
(* and the two are one line that does not parse.                           *)
Half == [whole |-> FALSE, ended |-> FALSE]
Garbage == [whole |-> FALSE, ended |-> TRUE]
Whole(line) == "id" \in DOMAIN line
Readable == \A i \in DOMAIN partition : Whole(partition[i])

Appended(file, line) ==
  IF file # <<>> /\ Last(file) = Half
  THEN IF line = Half THEN file ELSE [file EXCEPT ![Len(file)] = Garbage]
  ELSE Append(file, line)

\* The records of a partition, whether or not the rest of it can be read.
Kept == {partition[i] : i \in {j \in DOMAIN partition : Whole(partition[j])}}

-----------------------------------------------------------------------------
Idle == [pc |-> "idle"]
Running(t) == task[t].pc \in {"emitting", "saving", "rewriting"}

\* No other task of the process is between two synchronous calls.
Free(p) == \A t \in Tasks : Home[t] = p => ~Running(t)
FreeFor(t) == \A u \in Tasks \ {t} : Home[u] = Home[t] => ~Running(u)

May(thing, bound_) == spent[thing] < bound_
Spend(thing) == spent' = [spent EXCEPT ![thing] = @ + 1]

Init ==
  /\ now = 0 /\ items = {} /\ partition = <<>> /\ cursor = {} /\ legible = TRUE
  /\ task = [t \in Tasks |-> Idle]
  /\ \E doc \in Documents : config = [p \in Processes |-> LoadConfig(doc)]
  /\ bound = {} /\ purges = {} /\ spoilt = 0
  /\ spent = [k \in {"polls", "purges", "records", "deaths", "faults"} |-> 0]

-----------------------------------------------------------------------------
(* The outside: time passes, agents work. *)

Tick ==
  /\ now < MaxTime /\ now' = now + 1
  /\ UNCHANGED <<items, partition, cursor, legible, task, config, bound, purges, spoilt, spent>>

Work(s) ==
  /\ s \notin items /\ items' = items \cup {s}
  /\ UNCHANGED <<now, partition, cursor, legible, task, config, bound, purges, spoilt, spent>>

-----------------------------------------------------------------------------
(* A record with an id that someone binds a receipt to: the gate's sink,   *)
(* which has no content, or a caller that captures one.  When the append   *)
(* throws the sink hands out no binding and the egress goes on.            *)
Write(p, text, ts) ==
  /\ Recording(p) /\ Free(p) /\ May("records", MaxRecords)
  /\ LET id == spent["records"] + 1
         record == Record(p, id, None, ts, text, FALSE)
     IN /\ partition' = Appended(partition, record)
        /\ bound' = bound \cup {<<id, record.sha>>}
  /\ Spend("records")
  /\ UNCHANGED <<now, items, cursor, legible, task, config, purges, spoilt>>

Sink == Write(Gate, NoText, now)

\* A caller may pass a time of its own, in any format.
Capture(p, text) == \E ts \in {now, Unparsable} : Write(p, text, ts)

\* The append throws when part of the line is written: there is no binding.
WriteFails(p) ==
  /\ Recording(p) /\ Free(p) /\ May("faults", MaxFaults)
  /\ partition' = Appended(partition, Half)
  /\ Spend("faults")
  /\ UNCHANGED <<now, items, cursor, legible, task, config, bound, purges, spoilt>>

-----------------------------------------------------------------------------
(* pollMatter *)

StartPoll(t) ==
  /\ task[t] = Idle /\ Free(Home[t]) /\ Recording(Home[t]) /\ May("polls", MaxPolls)
  /\ task' = [task EXCEPT ![t] = [pc |-> "asking"]]
  /\ Spend("polls")
  /\ UNCHANGED <<now, items, partition, cursor, legible, config, bound, purges, spoilt>>

\* The source takes its snapshot; the answer arrives at some later time.
Snapshot(t) ==
  /\ task[t].pc = "asking"
  /\ task' = [task EXCEPT ![t] = [pc |-> "answered", items |-> items]]
  /\ UNCHANGED <<now, items, partition, cursor, legible, config, bound, purges, spoilt, spent>>

SourceFails(t) ==
  /\ task[t].pc = "asking" /\ May("faults", MaxFaults)
  /\ task' = [task EXCEPT ![t] = Idle]
  /\ Spend("faults")
  /\ UNCHANGED <<now, items, partition, cursor, legible, config, bound, purges, spoilt>>

\* Variant: what is about to be written is written to the cursor first.
CursorFirst(t) ==
  /\ task[t].pc = "answered" /\ FreeFor(t) /\ legible
  /\ task' = [task EXCEPT ![t] = [pc |-> "emitting", seen |-> cursor, new |-> {},
                                  todo |-> task[t].items \ cursor, costDone |-> FALSE]]
  /\ cursor' = cursor \cup task[t].items
  /\ UNCHANGED <<now, items, partition, legible, config, bound, purges, spoilt, spent>>

\* Variant: a poll that another one has overtaken does not look at the cursor.
TrustSnapshot(t) ==
  /\ task[t].pc = "answered" /\ FreeFor(t) /\ legible
  /\ task' = [task EXCEPT ![t] = [pc |-> "emitting", seen |-> cursor, new |-> {},
                                  todo |-> task[t].items, costDone |-> FALSE]]
  /\ UNCHANGED <<now, items, partition, cursor, legible, config, bound, purges, spoilt, spent>>

(* The code after the await reads the cursor only now.                     *)
ReadCursor(t) ==
  /\ task[t].pc = "answered" /\ FreeFor(t) /\ legible
  /\ task' = [task EXCEPT ![t] = [pc |-> "emitting", seen |-> cursor, new |-> {},
                                  todo |-> task[t].items \ cursor, costDone |-> FALSE]]
  /\ UNCHANGED <<now, items, partition, cursor, legible, config, bound, purges, spoilt, spent>>

(* Every failure to read the file, not only that there is none yet, counts *)
(* as a cursor without sources; the poll goes on.                          *)
MissCursor(t) ==
  /\ task[t].pc = "answered" /\ FreeFor(t) /\ cursor # {} /\ May("faults", MaxFaults)
  /\ task' = [task EXCEPT ![t] = [pc |-> "emitting", seen |-> {}, new |-> {},
                                  todo |-> task[t].items, costDone |-> FALSE]]
  /\ spoilt' = spoilt + 1 /\ Spend("faults")
  /\ UNCHANGED <<now, items, partition, cursor, legible, config, bound, purges>>

\* A file that can be read and does not parse makes the poll reject.
RefuseCursor(t) ==
  /\ task[t].pc = "answered" /\ FreeFor(t) /\ ~legible
  /\ task' = [task EXCEPT ![t] = Idle]
  /\ UNCHANGED <<now, items, partition, cursor, legible, config, bound, purges, spoilt, spent>>

\* The cursor file is damaged from outside.
Scramble ==
  /\ cursor # {} /\ legible /\ May("faults", MaxFaults)
  /\ legible' = FALSE
  /\ Spend("faults")
  /\ UNCHANGED <<now, items, partition, cursor, task, config, bound, purges, spoilt>>

\* Work products first, then sub-issues.
NextSources(todo) == IF todo \cap WorkProducts # {} THEN todo \cap WorkProducts ELSE todo

(* The first record of a poll that is about a work product carries the     *)
(* matter's total cost.  These records are bound to no receipt (id 0).     *)
Emit(t) ==
  /\ task[t].pc = "emitting"
  /\ \E s \in NextSources(task[t].todo) :
       LET cost == s \in WorkProducts /\ ~task[t].costDone IN
       /\ partition' = Appended(partition, Record(Home[t], 0, s, now, NoText, cost))
       /\ task' = [task EXCEPT ![t].todo = @ \ {s}, ![t].new = @ \cup {s},
                               ![t].costDone = @ \/ cost]
  /\ UNCHANGED <<now, items, cursor, legible, config, bound, purges, spoilt, spent>>

(* appendFileSync throws, with part of the line written or nothing of it,  *)
(* or the cursor's write does: the poll rejects as it stands.              *)
EmitFails(t) ==
  /\ task[t].pc = "emitting" /\ task[t].todo \cup task[t].new # {} /\ May("faults", MaxFaults)
  /\ task' = [task EXCEPT ![t] = Idle]
  /\ \/ UNCHANGED partition
     \/ task[t].todo # {} /\ partition' = Appended(partition, Half)
  /\ spoilt' = spoilt + 1 /\ Spend("faults")
  /\ UNCHANGED <<now, items, cursor, legible, config, bound, purges>>

(* writeCursor, last and only when something was written.                  *)
SaveCursor(t) ==
  /\ task[t].pc = "emitting" /\ task[t].todo = {}
  /\ IF task[t].new = {} THEN UNCHANGED <<cursor, legible>>
     ELSE cursor' = task[t].seen \cup task[t].new /\ legible' = TRUE
  /\ task' = [task EXCEPT ![t] = Idle]
  /\ UNCHANGED <<now, items, partition, config, bound, purges, spoilt, spent>>

-----------------------------------------------------------------------------
(* purgeExpiredContent.  It runs whatever the capture mode is, closed too, *)
(* and throws on a partition that does not parse.                          *)

\* Variant: a time that does not parse counts as recent.
ExpiredIfDated(record, cutoff) ==
  record.text # NoText /\ record.ts # Unparsable /\ record.ts <= cutoff

Expired(record, cutoff) ==
  record.text # NoText /\ (record.ts = Unparsable \/ record.ts <= cutoff)

Stripped(record, cutoff) == IF Expired(record, cutoff) THEN WithoutContent(record) ELSE record

PurgeRead(t) ==
  /\ task[t] = Idle /\ FreeFor(t) /\ Readable /\ May("purges", MaxPurges)
  /\ LET cutoff == now - config[Home[t]].retention
         next == [i \in DOMAIN partition |-> Stripped(partition[i], cutoff)]
         mark == [cutoff |-> cutoff, before |-> spent["records"], scanned |-> Len(partition)]
     IN IF next = partition
        THEN purges' = purges \cup {mark} /\ UNCHANGED task
        ELSE /\ task' = [task EXCEPT ![t] = [pc |-> "rewriting", next |-> next, mark |-> mark]]
             /\ UNCHANGED purges
  /\ Spend("purges")
  /\ UNCHANGED <<now, items, partition, cursor, legible, config, bound, spoilt>>

(* Every failure to read the partition counts as a partition without       *)
(* records: the purge returns, having examined none.                       *)
PurgeMisreads(t) ==
  /\ task[t] = Idle /\ FreeFor(t) /\ partition # <<>>
  /\ May("purges", MaxPurges) /\ May("faults", MaxFaults)
  /\ purges' = purges \cup {[cutoff |-> now - config[Home[t]].retention,
                              before |-> spent["records"], scanned |-> 0]}
  /\ spent' = [spent EXCEPT !["purges"] = @ + 1, !["faults"] = @ + 1]
  /\ UNCHANGED <<now, items, partition, cursor, legible, task, config, bound, spoilt>>

\* The temporary file is renamed over the partition.
PurgeRename(t) ==
  /\ task[t].pc = "rewriting"
  /\ partition' = task[t].next
  /\ purges' = purges \cup {task[t].mark}
  /\ task' = [task EXCEPT ![t] = Idle]
  /\ UNCHANGED <<now, items, cursor, legible, config, bound, spoilt, spent>>

PurgeFails(t) ==
  /\ task[t].pc = "rewriting" /\ May("faults", MaxFaults)
  /\ task' = [task EXCEPT ![t] = Idle]
  /\ Spend("faults")
  /\ UNCHANGED <<now, items, partition, cursor, legible, config, bound, purges, spoilt>>

-----------------------------------------------------------------------------
(* A process dies and starts again with the policy file as it is by then.  *)
(* A death in the middle of an append, of a poll, of the sink or of a      *)
(* caller, may leave half a line.                                          *)
Restart(p, doc) ==
  /\ May("deaths", MaxDeaths)
  /\ \/ UNCHANGED partition
     \/ /\ \/ Recording(p) /\ Free(p)
           \/ \E t \in Pollers : Home[t] = p /\ task[t].pc = "emitting" /\ task[t].todo # {}
        /\ partition' = Appended(partition, Half)
  /\ spoilt' = spoilt + Cardinality({t \in Pollers : Home[t] = p /\ task[t].pc = "emitting"})
  /\ task' = [t \in Tasks |-> IF Home[t] = p THEN Idle ELSE task[t]]
  /\ config' = [config EXCEPT ![p] = LoadConfig(doc)]
  /\ Spend("deaths")
  /\ UNCHANGED <<now, items, cursor, legible, bound, purges>>

-----------------------------------------------------------------------------
Next ==
  \/ Tick
  \/ \E s \in Sources : Work(s)
  \/ Sink
  \/ \E p \in Processes, text \in Texts : Capture(p, text)
  \/ \E p \in Processes : WriteFails(p)
  \/ \E t \in Pollers : \/ StartPoll(t) \/ Snapshot(t) \/ SourceFails(t)
                        \/ ReadCursor(t) \/ MissCursor(t) \/ RefuseCursor(t)
                        \/ Emit(t) \/ EmitFails(t) \/ SaveCursor(t)
  \/ Scramble
  \/ \E t \in Purgers : PurgeRead(t) \/ PurgeMisreads(t) \/ PurgeRename(t) \/ PurgeFails(t)
  \/ \E p \in Processes, doc \in Documents : Restart(p, doc)

Spec == Init /\ [][Next]_vars

-----------------------------------------------------------------------------
(* Properties *)

TraceRecord == [id : Nat, source : Sources \cup {None}, ts : Int \cup {Unparsable},
                sha : Texts \cup {NoText}, text : Texts \cup {NoText},
                purged : BOOLEAN, cost : BOOLEAN]
Line == TraceRecord \cup {Half, Garbage}
Mark == [cutoff : Int, before : Nat, scanned : Nat]
TraceConfig == [enabled : BOOLEAN, capture : {"off", "hashes-only", "full"},
                roles : SUBSET Roles, retention : Nat]

Emission == [pc : {"emitting"}, seen : SUBSET Sources, new : SUBSET Sources,
             todo : SUBSET Sources, costDone : BOOLEAN]
Rewrite == [pc : {"rewriting"}, next : Seq(Line), mark : Mark]
TaskState == {Idle, [pc |-> "asking"]} \cup [pc : {"answered"}, items : SUBSET Sources]
             \cup Emission \cup Rewrite

(* Every variable has the shape the modules of trace-store give it; only   *)
(* polls emit and only purges rewrite.                                     *)
TypeOK ==
  /\ now \in Nat
  /\ items \subseteq Sources /\ cursor \subseteq Sources /\ legible \in BOOLEAN
  /\ partition \in Seq(Line)
  /\ task \in [Tasks -> TaskState]
  /\ \A t \in Pollers : task[t].pc # "rewriting"
  /\ \A t \in Purgers : task[t].pc \in {"idle", "rewriting"}
  /\ config \in [Processes -> TraceConfig]
  /\ bound \subseteq Nat \X (Texts \cup {NoText})
  /\ purges \subseteq Mark
  /\ spoilt \in Nat
  /\ spent \in [{"polls", "purges", "records", "deaths", "faults"} -> Nat]

RecordsOf(s) == {i \in DOMAIN partition : Whole(partition[i]) /\ partition[i].source = s}

(* The poller never skips a source: whatever died, failed or overlapped,   *)
(* a source the cursor accounts for has its record, as long as the         *)
(* partition parses (cursor.ts: a duplicate beats a silent gap).           *)
NoSilentGap == Readable => \A s \in cursor : RecordsOf(s) # {}

(* Nor does it record a source twice, except once more for each poll that  *)
(* failed or died when it had read the cursor, or whose reading failed: a  *)
(* cursor that cannot be read repeats every source, one that does not      *)
(* parse repeats none, and two polls of a matter that overlap in one       *)
(* process do not repeat each other.                                       *)
RepeatsOnlyAfterFailure == \A s \in Sources : Cardinality(RecordsOf(s)) <= 1 + spoilt

\* A record of this trace is there, with the hash the receipt carries.
Resolves(b) == \E r \in Kept : r.id = b[1] /\ r.sha = b[2]

LostTraces == {b \in bound : ~Resolves(b)}
TornLines == {i \in DOMAIN partition : partition[i] = Garbage}

(* The record a receipt names stays in the partition with the hash the     *)
(* receipt carries, purged or not, through overlapping polls, purges,      *)
(* failures and deaths: only a line cut short can cost one, the first that *)
(* was written behind it, and each such line costs at most one.  (While    *)
(* there is such a line readTraces throws, and what is there is out of its *)
(* reach: EveryTraceResolves.)                                             *)
BoundTraceKept == Cardinality(LostTraces) <= Cardinality(TornLines)

(* After a purge that examined records no text past its retention is left  *)
(* among those it found, nor one whose age is unknown, whatever the purges *)
(* before it left undone; one that could not read the file examines none.  *)
ExpiredTextGone ==
  \A mark \in purges : \A r \in Kept :
    mark.scanned > 0 /\ r.id \in 1..mark.before /\ r.text # NoText =>
      r.ts # Unparsable /\ r.ts > mark.cutoff

(* Polling a matter again records nothing that the cursor holds: what the  *)
(* poller claims of itself, and what MissCursor breaks.                    *)
NothingRepolled == \A t \in Pollers : task[t].pc = "emitting" => task[t].new \cap cursor = {}

(* Every receipt that names a trace can be checked for the life of the     *)
(* matter: what the store claims, and what a line cut short breaks.        *)
EveryTraceResolves == \A b \in bound : Readable /\ Resolves(b)

(* A purge that returned has stripped what was past the retention window:  *)
(* what the store claims, and what a partition it cannot read breaks.      *)
EveryPurgeStrips ==
  \A mark \in purges : \A r \in Kept :
    r.id \in 1..mark.before /\ r.text # NoText => r.ts # Unparsable /\ r.ts > mark.cutoff

(* The matter's total is attached to one of its records (PollOptions).     *)
CostAttachedOnce == Cardinality({r \in DOMAIN partition : Whole(partition[r]) /\ partition[r].cost}) <= 1
=============================================================================

--------------------------- MODULE TraceStoreProofs ---------------------------
(***************************************************************************)
(* What a partition keeps, for any number of tasks, sources, records,      *)
(* failures and deaths, when all tasks run in one process: no source is    *)
(* skipped, or repeated without a failure; the records that receipts name  *)
(* stay, but for one behind each line cut short; and a purge that examined *)
(* records leaves no expired text.                                         *)
(*                                                                         *)
(* The hypothesis Processes = {Gate} is what the properties need: a purge  *)
(* in a process of its own writes back what it read before others wrote    *)
(* (TraceStore_apart.cfg).  In one process at most one task is between two *)
(* synchronous calls (OneRunning), so what it holds is still true of the   *)
(* files when it writes (EmissionOK, RewriteOK).                           *)
(***************************************************************************)
EXTENDS TraceStore, FiniteSetTheorems, TLAPS

OneRunning == \A t, u \in Tasks : Running(t) /\ Running(u) => t = u

Emits(t) == task[t].pc = "emitting"
Rewrites(t) == task[t].pc = "rewriting"

\* What a poll past its await has seen is in the cursor, and it has neither seen nor
\* emitted what it has still to emit.
EmissionOK ==
  \A t \in Tasks : Emits(t) =>
    task[t].seen \subseteq cursor /\ task[t].todo \cap (task[t].seen \cup task[t].new) = {}

\* A purge is about to write the partition as it is, without the expired texts.
RewriteOK ==
  \A t \in Tasks : Rewrites(t) =>
    /\ Readable
    /\ task[t].next = [i \in DOMAIN partition |-> Stripped(partition[i], task[t].mark.cutoff)]
    /\ task[t].mark.before <= spent["records"]

TasksOK == OneRunning /\ EmissionOK /\ RewriteOK

\* What the cursor, or the poll that will write it, accounts for.
Accounted == cursor \cup UNION {task[t].new : t \in {u \in Tasks : Emits(u)}}

\* What no poll will record again: while one emits, what it has seen and emitted, which
\* is less than the cursor when the reading of the cursor failed.
Covered ==
  IF \E t \in Tasks : Emits(t)
  THEN UNION {task[t].seen \cup task[t].new : t \in {u \in Tasks : Emits(u)}}
  ELSE cursor

\* RecordsOf, of any file.
RecordsIn(file, s) == {i \in DOMAIN file : Whole(file[i]) /\ file[i].source = s}

Recorded == Readable => \A s \in Sources : s \in Accounted => RecordsIn(partition, s) # {}

Counted ==
  \A s \in Sources : /\ Cardinality(RecordsIn(partition, s)) <= spoilt + 1
                     /\ s \notin Covered => Cardinality(RecordsIn(partition, s)) <= spoilt

MarksBefore == \A mark \in purges : mark.before <= spent["records"]

(***************************************************************************)
(* Lines and files.                                                        *)
(***************************************************************************)
LEMMA WholeIs ==
  ASSUME NEW line \in Line
  PROVE  /\ Whole(line) <=> line \in TraceRecord
         /\ line \in TraceRecord => line # Half /\ line # Garbage
<1>1. ~Whole(Half) /\ ~Whole(Garbage)
  BY DEF Whole, Half, Garbage
<1>2. \A record \in TraceRecord : Whole(record)
  BY DEF Whole, TraceRecord
<1>3. QED
  BY <1>1, <1>2 DEF Line

LEMMA RecordType ==
  ASSUME TypeOK, NEW p \in Processes, NEW id \in Nat, NEW source \in Sources \cup {None},
         NEW ts \in Int \cup {Unparsable}, NEW text \in Texts \cup {NoText}, NEW cost \in BOOLEAN
  PROVE  /\ Record(p, id, source, ts, text, cost) \in TraceRecord
         /\ Record(p, id, source, ts, text, cost).id = id
         /\ Record(p, id, source, ts, text, cost).source = source
         /\ Record(p, id, source, ts, text, cost).sha = text
  BY DEF Record, TraceRecord

\* A purge changes no record but one that is expired, and that in its text alone.
LEMMA StrippedIs ==
  ASSUME NEW record \in TraceRecord, NEW cutoff \in Int
  PROVE  /\ Stripped(record, cutoff) \in TraceRecord
         /\ Stripped(record, cutoff).id = record.id
         /\ Stripped(record, cutoff).source = record.source
         /\ Stripped(record, cutoff).sha = record.sha
         /\ Stripped(record, cutoff) = record \/ Stripped(record, cutoff).text = NoText
         /\ Stripped(record, cutoff).text # NoText => record.ts # Unparsable /\ record.ts > cutoff
<1>1. CASE Expired(record, cutoff)
  <2>1. Stripped(record, cutoff) = WithoutContent(record)
    BY <1>1 DEF Stripped
  <2>2. WithoutContent(record) \in TraceRecord
    BY DEF WithoutContent, TraceRecord
  <2>3. /\ WithoutContent(record).id = record.id /\ WithoutContent(record).source = record.source
        /\ WithoutContent(record).sha = record.sha /\ WithoutContent(record).text = NoText
    BY DEF WithoutContent, TraceRecord
  <2>4. QED
    BY <2>1, <2>2, <2>3
<1>2. CASE ~Expired(record, cutoff)
  <2>1. Stripped(record, cutoff) = record
    BY <1>2 DEF Stripped
  <2>2. record.ts \in Int \cup {Unparsable}
    BY DEF TraceRecord
  <2>3. record.text # NoText => record.ts # Unparsable /\ ~(record.ts <= cutoff)
    BY <1>2 DEF Expired
  <2>4. QED
    BY <2>1, <2>2, <2>3
<1>3. QED
  BY <1>1, <1>2

\* A line goes to the end of the file, or is lost behind one that was cut short.
Extends(more, file, line) ==
  \/ /\ Len(more) = Len(file) + 1 /\ more[Len(file) + 1] = line
     /\ \A i \in 1 .. Len(file) : more[i] = file[i]
  \/ /\ Len(file) > 0 /\ Len(more) = Len(file) /\ file[Len(file)] = Half
     /\ more[Len(file)] = Garbage \/ (line = Half /\ more[Len(file)] = Half)
     /\ \A i \in 1 .. Len(file) : i # Len(file) => more[i] = file[i]

LEMMA AppendedIs ==
  ASSUME NEW file \in Seq(Line), NEW line \in Line
  PROVE  Appended(file, line) \in Seq(Line) /\ Extends(Appended(file, line), file, line)
<1>1. Garbage \in Line
  BY DEF Line
<1>2. CASE file # <<>> /\ Last(file) = Half
  <2>1. Len(file) \in 1 .. Len(file) /\ file[Len(file)] = Half /\ Len(file) > 0
    BY <1>2 DEF Last
  <2>2. CASE line = Half
    <3>1. Appended(file, line) = file
      BY <1>2, <2>2 DEF Appended
    <3>2. QED
      BY <2>1, <2>2, <3>1 DEF Extends
  <2>3. CASE line # Half
    <3>1. Appended(file, line) = [file EXCEPT ![Len(file)] = Garbage]
      BY <1>2, <2>3 DEF Appended
    <3>2. QED
      BY <1>1, <2>1, <3>1 DEF Extends
  <2>4. QED
    BY <2>2, <2>3
<1>3. CASE ~(file # <<>> /\ Last(file) = Half)
  <2>1. Appended(file, line) = Append(file, line)
    BY <1>3 DEF Appended
  <2>2. QED
    BY <2>1 DEF Extends
<1>4. QED
  BY <1>2, <1>3

(***************************************************************************)
(* Type correctness.                                                       *)
(***************************************************************************)
LEMMA ConfigType == \A doc : LoadConfig(doc) \in TraceConfig
<1>1. Closed \in TraceConfig
  BY TraceAssumption DEF Closed, TraceConfig
<1>2. ASSUME NEW doc, LoadConfig(doc) # Closed
      PROVE  LoadConfig(doc) \in TraceConfig
  <2>1. /\ LoadConfig(doc) = [enabled |-> TRUE, capture |-> doc.capture, roles |-> doc.roles,
                              retention |-> IF doc.retention = None THEN DefaultRetention ELSE doc.retention]
        /\ doc.capture \in {"hashes-only", "full"} /\ doc.roles \subseteq Roles
        /\ doc.retention \in {None} \cup (Nat \ {0})
    BY <1>2 DEF LoadConfig
  <2>2. QED
    BY <2>1, TraceAssumption DEF TraceConfig
<1>3. QED
  BY <1>1, <1>2

LEMMA TaskTypes ==
  ASSUME NEW state \in TaskState
  PROVE  /\ state.pc = "answered" => state.items \subseteq Sources
         /\ state.pc = "emitting" => state \in Emission
         /\ state.pc = "rewriting" => state \in Rewrite
         /\ state.pc \in {"idle", "asking", "answered", "emitting", "rewriting"}
  BY DEF TaskState, Idle, Emission, Rewrite

LEMMA SpendType ==
  ASSUME TypeOK, NEW thing \in {"polls", "purges", "records", "deaths", "faults"}, Spend(thing)
  PROVE  /\ spent' \in [{"polls", "purges", "records", "deaths", "faults"} -> Nat]
         /\ thing # "records" => spent'["records"] = spent["records"]
         /\ spent["records"] \in Nat /\ spent'["records"] \in Nat
         /\ spent["records"] <= spent'["records"]
         /\ thing = "records" => spent'["records"] = spent["records"] + 1
  BY DEF TypeOK, Spend

TasksTyped ==
  /\ task \in [Tasks -> TaskState]
  /\ \A t \in Pollers : task[t].pc # "rewriting"
  /\ \A t \in Purgers : task[t].pc \in {"idle", "rewriting"}

LEMMA TaskChange ==
  ASSUME TypeOK, NEW t \in Tasks, NEW state \in TaskState, task' = [task EXCEPT ![t] = state],
         t \in Pollers => state.pc # "rewriting",
         t \in Purgers => state.pc \in {"idle", "rewriting"}
  PROVE  /\ TasksTyped'
         /\ task'[t] = state /\ \A u \in Tasks \ {t} : task'[u] = task[u]
<1>1. task \in [Tasks -> TaskState] /\ Pollers \subseteq Tasks /\ Purgers \subseteq Tasks
  BY DEF TypeOK, Tasks
<1>2. task'[t] = state /\ \A u \in Tasks \ {t} : task'[u] = task[u]
  BY <1>1
<1>3. task' \in [Tasks -> TaskState]
  BY <1>1
<1>4. \A u \in Pollers : task'[u].pc # "rewriting"
  BY <1>1, <1>2 DEF TypeOK
<1>5. \A u \in Purgers : task'[u].pc \in {"idle", "rewriting"}
  BY <1>1, <1>2 DEF TypeOK
<1>6. QED
  BY <1>2, <1>3, <1>4, <1>5 DEF TasksTyped

LEMMA HalfTyped == Half \in Line /\ ~Whole(Half) /\ Half # Garbage
  BY DEF Half, Garbage, Line, Whole

LEMMA IdleTyped == Idle \in TaskState /\ Idle.pc = "idle"
  BY DEF Idle, TaskState

\* A record that was appended leaves the partition a sequence of lines.
LEMMA WriteType ==
  ASSUME TypeOK, NEW p \in Processes, NEW text \in Texts \cup {NoText},
         NEW ts \in {now, Unparsable}, Write(p, text, ts)
  PROVE  /\ partition' \in Seq(Line) /\ bound' \subseteq Nat \X (Texts \cup {NoText})
         /\ \E record \in TraceRecord :
              /\ partition' = Appended(partition, record)
              /\ bound' = bound \cup {<<record.id, record.sha>>}
              /\ record.id = spent["records"] + 1 /\ record.source = None
<1> DEFINE record == Record(p, spent["records"] + 1, None, ts, text, FALSE)
<1>1. spent["records"] + 1 \in Nat /\ ts \in Int \cup {Unparsable}
  BY DEF TypeOK
<1>2. /\ record \in TraceRecord /\ record.id = spent["records"] + 1
      /\ record.source = None /\ record.sha = text
  <2>1. None \in Sources \cup {None} /\ FALSE \in BOOLEAN
    OBVIOUS
  <2>2. record \in TraceRecord
    BY <1>1, <2>1, RecordType
  <2>3. record.id = spent["records"] + 1 /\ record.source = None /\ record.sha = text
    BY DEF Record
  <2>4. QED
    BY <2>2, <2>3
<1>3. partition' = Appended(partition, record) /\ bound' = bound \cup {<<spent["records"] + 1, record.sha>>}
  BY DEF Write
<1> HIDE DEF record
<1>4. partition' \in Seq(Line)
  BY <1>2, <1>3, AppendedIs DEF TypeOK, Line
<1>5. bound' \subseteq Nat \X (Texts \cup {NoText})
  BY <1>1, <1>2, <1>3 DEF TypeOK
<1>6. QED
  BY <1>2, <1>3, <1>4, <1>5

AfterEmit(state, s, cost) ==
  [state EXCEPT !.todo = @ \ {s}, !.new = @ \cup {s}, !.costDone = @ \/ cost]

LEMMA AfterEmitIs ==
  ASSUME NEW state \in Emission, NEW s \in Sources, NEW cost \in BOOLEAN
  PROVE  /\ AfterEmit(state, s, cost) \in Emission
         /\ AfterEmit(state, s, cost).pc = "emitting"
         /\ AfterEmit(state, s, cost).seen = state.seen
         /\ AfterEmit(state, s, cost).todo = state.todo \ {s}
         /\ AfterEmit(state, s, cost).new = state.new \cup {s}
<1>1. state.costDone \in BOOLEAN
  BY DEF Emission
<1>2. (state.costDone \/ cost) \in BOOLEAN
  OBVIOUS
<1>3. AfterEmit(state, s, cost) \in Emission
  BY <1>2 DEF AfterEmit, Emission
<1>4. QED
  BY <1>3 DEF AfterEmit, Emission

\* What an emission writes, and what it makes of the poll.
LEMMA EmitIs ==
  ASSUME TypeOK, NEW t \in Pollers, Emit(t)
  PROVE  \E s \in task[t].todo, cost \in BOOLEAN, record \in TraceRecord :
           /\ s \in Sources /\ record.id = 0 /\ record.source = s
           /\ partition' = Appended(partition, record) /\ partition' \in Seq(Line)
           /\ task[t] \in Emission /\ AfterEmit(task[t], s, cost) \in Emission
           /\ task' = [task EXCEPT ![t] = AfterEmit(task[t], s, cost)]
<1>1. t \in Tasks /\ task[t] \in TaskState /\ task[t].pc = "emitting" /\ Home[t] \in Processes
  BY TraceAssumption DEF TypeOK, Emit, Tasks
<1>2. task[t] \in Emission
  BY <1>1, TaskTypes
<1>3. PICK s \in NextSources(task[t].todo) :
        LET cost == s \in WorkProducts /\ ~task[t].costDone IN
        /\ partition' = Appended(partition, Record(Home[t], 0, s, now, NoText, cost))
        /\ task' = [task EXCEPT ![t].todo = @ \ {s}, ![t].new = @ \cup {s},
                                ![t].costDone = @ \/ cost]
  BY DEF Emit
<1>4. s \in task[t].todo /\ s \in Sources
  BY <1>2 DEF NextSources, Emission
<1> DEFINE cost == s \in WorkProducts /\ ~task[t].costDone
           record == Record(Home[t], 0, s, now, NoText, cost)
<1>5. cost \in BOOLEAN
  OBVIOUS
<1>6. task' = [task EXCEPT ![t] = AfterEmit(task[t], s, cost)]
  BY <1>1, <1>3 DEF AfterEmit, TypeOK
<1>7. partition' = Appended(partition, record)
  BY <1>3
<1> HIDE DEF cost
<1>8. record \in TraceRecord /\ record.id = 0 /\ record.source = s
  <2>1. now \in Int \cup {Unparsable} /\ s \in Sources \cup {None} /\ NoText \in Texts \cup {NoText}
    BY <1>4 DEF TypeOK
  <2>2. record \in TraceRecord
    BY <1>1, <1>5, <2>1, RecordType
  <2>3. record.id = 0 /\ record.source = s
    BY DEF Record
  <2>4. QED
    BY <2>2, <2>3
<1> HIDE DEF record
<1>9. partition' \in Seq(Line)
  BY <1>7, <1>8, AppendedIs DEF TypeOK, Line
<1>10. AfterEmit(task[t], s, cost) \in Emission
  BY <1>2, <1>4, <1>5, AfterEmitIs
<1>11. QED
  BY <1>2, <1>4, <1>5, <1>6, <1>7, <1>8, <1>9, <1>10

\* What a purge is about to write is a sequence of lines.
LEMMA PurgeIs ==
  ASSUME TypeOK, Readable, NEW cutoff \in Int
  PROVE  [i \in DOMAIN partition |-> Stripped(partition[i], cutoff)] \in Seq(Line)
<1>1. \A i \in DOMAIN partition : partition[i] \in Line /\ partition[i] \in TraceRecord
  BY WholeIs DEF TypeOK, Readable
<1>2. \A i \in DOMAIN partition : Stripped(partition[i], cutoff) \in Line
  BY <1>1, StrippedIs DEF Line
<1>3. DOMAIN partition = 1 .. Len(partition) /\ Len(partition) \in Nat
  BY DEF TypeOK
<1> DEFINE next == [i \in DOMAIN partition |-> Stripped(partition[i], cutoff)]
<1>4. next \in [1 .. Len(partition) -> Line]
  BY <1>2, <1>3
<1>5. QED
  BY <1>3, <1>4

LEMMA TypeInit == Init => TypeOK
<1> SUFFICES ASSUME Init PROVE TypeOK
  OBVIOUS
<1>1. task \in [Tasks -> TaskState] /\ \A t \in Tasks : task[t].pc = "idle"
  BY IdleTyped DEF Init
<1>2. config \in [Processes -> TraceConfig]
  BY ConfigType DEF Init
<1>3. /\ now \in Nat /\ items \subseteq Sources /\ cursor \subseteq Sources
      /\ partition \in Seq(Line) /\ bound \subseteq Nat \X (Texts \cup {NoText})
      /\ purges \subseteq Mark /\ spoilt \in Nat /\ legible \in BOOLEAN
      /\ spent \in [{"polls", "purges", "records", "deaths", "faults"} -> Nat]
  BY DEF Init
<1>4. QED
  BY <1>1, <1>2, <1>3 DEF TypeOK, Tasks

LEMMA TypePoll ==
  ASSUME TypeOK, NEW t \in Pollers,
         \/ StartPoll(t) \/ Snapshot(t) \/ SourceFails(t)
         \/ ReadCursor(t) \/ MissCursor(t) \/ RefuseCursor(t)
         \/ Emit(t) \/ EmitFails(t) \/ SaveCursor(t)
  PROVE  TypeOK'
<1>1. t \in Tasks /\ task[t] \in TaskState /\ t \notin Purgers
  BY TraceAssumption DEF TypeOK, Tasks
<1>2. CASE StartPoll(t)
  <2>1. [pc |-> "asking"] \in TaskState
    BY DEF TaskState
  <2>2. TasksTyped'
    BY <1>1, <1>2, <2>1, TaskChange DEF StartPoll
  <2>3. QED
    BY <1>2, <2>2, SpendType DEF StartPoll, TypeOK, TasksTyped
<1>3. CASE Snapshot(t)
  <2>1. [pc |-> "answered", items |-> items] \in TaskState
    BY DEF TypeOK, TaskState
  <2>2. TasksTyped'
    BY <1>1, <1>3, <2>1, TaskChange DEF Snapshot
  <2>3. QED
    BY <1>3, <2>2 DEF Snapshot, TypeOK, TasksTyped
<1>4. CASE SourceFails(t)
  <2>1. TasksTyped'
    BY <1>1, <1>4, IdleTyped, TaskChange DEF SourceFails
  <2>2. QED
    BY <1>4, <2>1, SpendType DEF SourceFails, TypeOK, TasksTyped
<1>5. CASE ReadCursor(t)
  <2> DEFINE state == [pc |-> "emitting", seen |-> cursor, new |-> {},
                       todo |-> task[t].items \ cursor, costDone |-> FALSE]
  <2>1. task[t].items \subseteq Sources /\ cursor \subseteq Sources
    BY <1>1, <1>5, TaskTypes DEF ReadCursor, TypeOK
  <2>2. state \in Emission
    BY <2>1 DEF Emission
  <2>3. state \in TaskState /\ state.pc # "rewriting"
    BY <2>2 DEF TaskState
  <2>4. task' = [task EXCEPT ![t] = state]
    BY <1>5 DEF ReadCursor
  <2> HIDE DEF state
  <2>5. TasksTyped'
    BY <1>1, <2>3, <2>4, TaskChange
  <2>6. QED
    BY <1>5, <2>5 DEF ReadCursor, TypeOK, TasksTyped
<1>6. CASE Emit(t)
  <2>1. PICK s \in task[t].todo, cost \in BOOLEAN, record \in TraceRecord :
          /\ partition' \in Seq(Line) /\ AfterEmit(task[t], s, cost) \in Emission
          /\ task' = [task EXCEPT ![t] = AfterEmit(task[t], s, cost)]
    BY <1>6, EmitIs
  <2>2. /\ AfterEmit(task[t], s, cost) \in TaskState
        /\ AfterEmit(task[t], s, cost).pc # "rewriting"
    BY <2>1 DEF TaskState, Emission
  <2>3. TasksTyped'
    BY <1>1, <2>1, <2>2, TaskChange
  <2>4. QED
    BY <1>6, <2>1, <2>3 DEF Emit, TypeOK, TasksTyped
<1>7. CASE EmitFails(t)
  <2>1. TasksTyped'
    BY <1>1, <1>7, IdleTyped, TaskChange DEF EmitFails
  <2>2. partition' \in Seq(Line)
    BY <1>7, HalfTyped, AppendedIs DEF EmitFails, TypeOK
  <2>3. QED
    BY <1>7, <2>1, <2>2, SpendType DEF EmitFails, TypeOK, TasksTyped
<1>8. CASE SaveCursor(t)
  <2>1. TasksTyped'
    BY <1>1, <1>8, IdleTyped, TaskChange DEF SaveCursor
  <2>2. task[t] \in Emission
    BY <1>1, <1>8, TaskTypes DEF SaveCursor
  <2>3. cursor' \subseteq Sources /\ legible' \in BOOLEAN
    BY <1>8, <2>2 DEF SaveCursor, TypeOK, Emission
  <2>4. QED
    BY <1>8, <2>1, <2>3 DEF SaveCursor, TypeOK, TasksTyped
<1>9. CASE MissCursor(t)
  <2> DEFINE state == [pc |-> "emitting", seen |-> {}, new |-> {},
                       todo |-> task[t].items, costDone |-> FALSE]
  <2>1. task[t].items \subseteq Sources
    BY <1>1, <1>9, TaskTypes DEF MissCursor
  <2>2. state \in Emission
    BY <2>1 DEF Emission
  <2>3. state \in TaskState /\ state.pc # "rewriting"
    BY <2>2 DEF TaskState
  <2>4. task' = [task EXCEPT ![t] = state]
    BY <1>9 DEF MissCursor
  <2> HIDE DEF state
  <2>5. TasksTyped'
    BY <1>1, <2>3, <2>4, TaskChange
  <2>6. QED
    BY <1>9, <2>5, SpendType DEF MissCursor, TypeOK, TasksTyped
<1>10. CASE RefuseCursor(t)
  <2>1. TasksTyped'
    BY <1>1, <1>10, IdleTyped, TaskChange DEF RefuseCursor
  <2>2. QED
    BY <1>10, <2>1 DEF RefuseCursor, TypeOK, TasksTyped
<1>11. QED
  BY <1>2, <1>3, <1>4, <1>5, <1>6, <1>7, <1>8, <1>9, <1>10

\* What a purge finds and what it is about to do.
LEMMA PurgeReadIs ==
  ASSUME TypeOK, NEW t \in Purgers, PurgeRead(t)
  PROVE  \E mark \in Mark :
           /\ mark.before = spent["records"]
           /\ Readable /\ task[t] = Idle
           /\ LET next == [i \in DOMAIN partition |-> Stripped(partition[i], mark.cutoff)] IN
              \/ next = partition /\ purges' = purges \cup {mark} /\ UNCHANGED task
              \/ /\ [pc |-> "rewriting", next |-> next, mark |-> mark] \in Rewrite
                 /\ task' = [task EXCEPT ![t] = [pc |-> "rewriting", next |-> next, mark |-> mark]]
                 /\ UNCHANGED purges
<1>1. t \in Tasks /\ Home[t] \in Processes
  BY TraceAssumption DEF Tasks
<1> DEFINE cutoff == now - config[Home[t]].retention
           mark == [cutoff |-> cutoff, before |-> spent["records"], scanned |-> Len(partition)]
           next == [i \in DOMAIN partition |-> Stripped(partition[i], cutoff)]
<1>2. config[Home[t]] \in TraceConfig /\ now \in Nat
  BY <1>1 DEF TypeOK
<1>3. config[Home[t]].retention \in Nat
  BY <1>2 DEF TraceConfig
<1>4. cutoff \in Int
  BY <1>2, <1>3
<1>5. Readable /\ task[t] = Idle
  BY DEF PurgeRead
<1>6. \/ next = partition /\ purges' = purges \cup {mark} /\ UNCHANGED task
      \/ /\ task' = [task EXCEPT ![t] = [pc |-> "rewriting", next |-> next, mark |-> mark]]
         /\ UNCHANGED purges
  BY DEF PurgeRead
<1> HIDE DEF cutoff
<1>7. mark \in Mark /\ mark.before = spent["records"] /\ mark.cutoff = cutoff
  BY <1>4 DEF Mark, TypeOK
<1>8. next \in Seq(Line)
  BY <1>4, <1>5, PurgeIs
<1>9. [pc |-> "rewriting", next |-> next, mark |-> mark] \in Rewrite
  BY <1>7, <1>8 DEF Rewrite
<1>10. QED
  BY <1>5, <1>6, <1>7, <1>9

LEMMA MisreadIs ==
  ASSUME TypeOK, NEW t \in Purgers, PurgeMisreads(t)
  PROVE  /\ \E mark \in Mark : /\ mark.before = spent["records"] /\ mark.scanned = 0
                             /\ purges' = purges \cup {mark}
         /\ spent' \in [{"polls", "purges", "records", "deaths", "faults"} -> Nat]
         /\ spent'["records"] = spent["records"]
<1>1. Home[t] \in Processes
  BY TraceAssumption DEF Tasks
<1> DEFINE cutoff == now - config[Home[t]].retention
           mark == [cutoff |-> cutoff, before |-> spent["records"], scanned |-> 0]
<1>2. config[Home[t]] \in TraceConfig /\ now \in Nat
  BY <1>1 DEF TypeOK
<1>3. cutoff \in Int
  BY <1>2 DEF TraceConfig
<1>4. purges' = purges \cup {mark}
  BY DEF PurgeMisreads
<1> HIDE DEF cutoff
<1>5. mark \in Mark /\ mark.before = spent["records"] /\ mark.scanned = 0
  BY <1>3 DEF Mark, TypeOK
<1> HIDE DEF mark
<1>6. /\ spent' \in [{"polls", "purges", "records", "deaths", "faults"} -> Nat]
      /\ spent'["records"] = spent["records"]
  BY DEF PurgeMisreads, TypeOK
<1>7. QED
  BY <1>4, <1>5, <1>6

LEMMA TypePurge ==
  ASSUME TypeOK, NEW t \in Purgers,
         PurgeRead(t) \/ PurgeMisreads(t) \/ PurgeRename(t) \/ PurgeFails(t)
  PROVE  TypeOK'
<1>1. t \in Tasks /\ task[t] \in TaskState /\ t \notin Pollers
  BY TraceAssumption DEF TypeOK, Tasks
<1>2. CASE PurgeRead(t)
  <2>1. PICK mark \in Mark :
           LET next == [i \in DOMAIN partition |-> Stripped(partition[i], mark.cutoff)] IN
           \/ next = partition /\ purges' = purges \cup {mark} /\ UNCHANGED task
           \/ /\ [pc |-> "rewriting", next |-> next, mark |-> mark] \in Rewrite
              /\ task' = [task EXCEPT ![t] = [pc |-> "rewriting", next |-> next, mark |-> mark]]
              /\ UNCHANGED purges
    BY <1>2, PurgeReadIs
  <2> DEFINE state == [pc |-> "rewriting", mark |-> mark,
                next |-> [i \in DOMAIN partition |-> Stripped(partition[i], mark.cutoff)]]
  <2>2. ASSUME state \in Rewrite, task' = [task EXCEPT ![t] = state]
        PROVE  TasksTyped'
    <3>1. state \in TaskState /\ state.pc = "rewriting"
      BY <2>2 DEF TaskState
    <3> HIDE DEF state
    <3>2. QED
      BY <1>1, <2>2, <3>1, TaskChange
  <2>3. TasksTyped' /\ purges' \subseteq Mark
    BY <2>1, <2>2 DEF TypeOK, TasksTyped
  <2>4. QED
    BY <1>2, <2>3, SpendType DEF PurgeRead, TypeOK, TasksTyped
<1>3. CASE PurgeRename(t)
  <2>1. TasksTyped'
    BY <1>1, <1>3, IdleTyped, TaskChange DEF PurgeRename
  <2>2. task[t] \in Rewrite
    BY <1>1, <1>3, TaskTypes DEF PurgeRename
  <2>3. partition' \in Seq(Line) /\ purges' \subseteq Mark
    BY <1>3, <2>2 DEF PurgeRename, TypeOK, Rewrite
  <2>4. QED
    BY <1>3, <2>1, <2>3 DEF PurgeRename, TypeOK, TasksTyped
<1>4. CASE PurgeFails(t)
  <2>1. TasksTyped'
    BY <1>1, <1>4, IdleTyped, TaskChange DEF PurgeFails
  <2>2. QED
    BY <1>4, <2>1, SpendType DEF PurgeFails, TypeOK, TasksTyped
<1>5. CASE PurgeMisreads(t)
  <2>1. purges' \subseteq Mark
    BY <1>5, MisreadIs DEF TypeOK
  <2>2. spent' \in [{"polls", "purges", "records", "deaths", "faults"} -> Nat]
    BY <1>5, MisreadIs
  <2>3. QED
    BY <1>5, <2>1, <2>2 DEF PurgeMisreads, TypeOK
<1>6. QED
  BY <1>2, <1>3, <1>4, <1>5

LEMMA TypeRestart ==
  ASSUME TypeOK, NEW p \in Processes, NEW doc, Restart(p, doc)
  PROVE  TypeOK'
<1>1. task' \in [Tasks -> TaskState]
  BY IdleTyped DEF Restart, TypeOK
<1>2. \A t \in Pollers : task'[t].pc # "rewriting"
  BY IdleTyped DEF Restart, TypeOK, Tasks
<1>3. \A t \in Purgers : task'[t].pc \in {"idle", "rewriting"}
  BY IdleTyped DEF Restart, TypeOK, Tasks
<1>4. partition' \in Seq(Line)
  BY HalfTyped, AppendedIs DEF Restart, TypeOK
<1>5. spoilt' \in Nat
  <2> DEFINE emitting == {t \in Pollers : Home[t] = p /\ task[t].pc = "emitting"}
  <2>1. IsFiniteSet(emitting)
    BY TraceAssumption, FS_Subset
  <2>2. Cardinality(emitting) \in Nat
    BY <2>1, FS_CardinalityType
  <2>3. spoilt' = spoilt + Cardinality(emitting)
    BY DEF Restart
  <2> HIDE DEF emitting
  <2>4. QED
    BY <2>2, <2>3 DEF TypeOK
<1>6. config' \in [Processes -> TraceConfig]
  BY ConfigType DEF Restart, TypeOK
<1>7. QED
  BY <1>1, <1>2, <1>3, <1>4, <1>5, <1>6, SpendType DEF Restart, TypeOK

LEMMA TypeStep == TypeOK /\ [Next]_vars => TypeOK'
<1> SUFFICES ASSUME TypeOK, [Next]_vars PROVE TypeOK'
  OBVIOUS
<1>1. CASE Tick
  BY <1>1 DEF Tick, TypeOK
<1>2. CASE \E s \in Sources : Work(s)
  BY <1>2 DEF Work, TypeOK
<1>3. ASSUME NEW p \in Processes, NEW text \in Texts \cup {NoText}, NEW ts \in {now, Unparsable},
             Write(p, text, ts)
      PROVE  TypeOK'
  BY <1>3, WriteType, SpendType DEF Write, TypeOK
<1>4. CASE Sink \/ \E p \in Processes, text \in Texts : Capture(p, text)
  BY <1>3, <1>4, TraceAssumption DEF Sink, Capture
<1>5. CASE UNCHANGED vars
  BY <1>5 DEF vars, TypeOK
<1>6. CASE \E p \in Processes : WriteFails(p)
  <2>1. partition' \in Seq(Line)
    BY <1>6, HalfTyped, AppendedIs DEF WriteFails, TypeOK
  <2>2. QED
    BY <1>6, <2>1, SpendType DEF WriteFails, TypeOK
<1>7. CASE Scramble
  BY <1>7, SpendType DEF Scramble, TypeOK
<1>8. QED
  BY <1>1, <1>2, <1>4, <1>5, <1>6, <1>7, TypePoll, TypePurge, TypeRestart DEF Next

(* Every variable has the shape the modules of trace-store give it,        *)
(* whatever the processes.                                                 *)
THEOREM TypeCorrect == Spec => []TypeOK
  BY TypeInit, TypeStep, PTL DEF Spec

(***************************************************************************)
(* What a write does to the records.                                       *)
(***************************************************************************)
\* Nothing is lost, or the one line that is written behind half of one.
LosesOne(line) ==
  \/ /\ Kept \subseteq Kept' /\ (Whole(line) => line \in Kept')
     /\ TornLines' = TornLines
  \/ /\ Kept \subseteq Kept' /\ Len(partition) \notin TornLines
     /\ TornLines' = TornLines \cup {Len(partition)}

\* Only a whole line adds a record; and a partition that parses has lost none.
AppendEffect(line) ==
  /\ LosesOne(line)
  /\ \A s \in Sources : \A i \in RecordsIn(partition', s) :
       i \in RecordsIn(partition, s) \/ (i = Len(partition) + 1 /\ Whole(line) /\ line.source = s)
  /\ \A r \in Kept' : r \in Kept \/ (Whole(line) /\ r = line)
  /\ Readable' =>
       /\ Readable /\ Kept \subseteq Kept' /\ line \in Kept'
       /\ \A s \in Sources : /\ RecordsIn(partition, s) \subseteq RecordsIn(partition', s)
                             /\ line.source = s => RecordsIn(partition', s) # {}

LEMMA AppendingIs ==
  ASSUME TypeOK, NEW line \in Line, line # Garbage, partition' = Appended(partition, line)
  PROVE  AppendEffect(line)
<1>1. /\ partition \in Seq(Line) /\ partition' \in Seq(Line)
      /\ Extends(partition', partition, line)
  BY AppendedIs DEF TypeOK
<1>2. /\ Len(partition) \in Nat /\ DOMAIN partition = 1 .. Len(partition)
      /\ DOMAIN partition' = 1 .. Len(partition')
  BY <1>1
<1>3. CASE /\ Len(partition') = Len(partition) + 1 /\ partition'[Len(partition) + 1] = line
           /\ \A i \in 1 .. Len(partition) : partition'[i] = partition[i]
  <2>1. /\ Len(partition) + 1 \in DOMAIN partition' /\ DOMAIN partition \subseteq DOMAIN partition'
        /\ \A i \in DOMAIN partition' : i \in DOMAIN partition \/ i = Len(partition) + 1
        /\ \A i \in DOMAIN partition : partition'[i] = partition[i]
    BY <1>2, <1>3
  <2>2. partition'[Len(partition) + 1] = line
    BY <1>3
  <2>3. \A s \in Sources : \A i \in RecordsIn(partition', s) :
          i \in RecordsIn(partition, s) \/ (i = Len(partition) + 1 /\ Whole(line) /\ line.source = s)
    BY <2>1, <2>2 DEF RecordsIn
  <2>6. \A r \in Kept' : r \in Kept \/ (Whole(line) /\ r = line)
    BY <2>1, <2>2 DEF Kept
  <2>4. ASSUME Readable'
        PROVE  /\ Readable /\ Kept \subseteq Kept' /\ line \in Kept'
               /\ \A s \in Sources : /\ RecordsIn(partition, s) \subseteq RecordsIn(partition', s)
                                     /\ line.source = s => Len(partition) + 1 \in RecordsIn(partition', s)
    <3>1. \A i \in DOMAIN partition' : Whole(partition'[i])
      BY <2>4 DEF Readable
    <3>2. Whole(line) /\ \A i \in DOMAIN partition : Whole(partition[i])
      BY <2>1, <2>2, <3>1
    <3>3. Kept \subseteq Kept' /\ line \in Kept'
      BY <2>1, <2>2, <3>1 DEF Kept
    <3>4. Readable
      BY <3>2 DEF Readable
    <3>5. ASSUME NEW s \in Sources
          PROVE  /\ RecordsIn(partition, s) \subseteq RecordsIn(partition', s)
                 /\ line.source = s => Len(partition) + 1 \in RecordsIn(partition', s)
      BY <2>1, <2>2, <3>2 DEF RecordsIn
    <3>6. QED
      BY <3>3, <3>4, <3>5
  <2>7. TornLines' = TornLines
    BY <2>1, <2>2 DEF TornLines
  <2>8. Kept \subseteq Kept' /\ (Whole(line) => line \in Kept')
    BY <2>1, <2>2 DEF Kept
  <2>9. LosesOne(line)
    BY <2>7, <2>8 DEF LosesOne
  <2>5. QED
    BY <2>3, <2>4, <2>6, <2>9 DEF AppendEffect
<1>4. CASE /\ Len(partition) > 0 /\ Len(partition') = Len(partition)
           /\ partition[Len(partition)] = Half
           /\ \/ partition'[Len(partition)] = Garbage
              \/ line = Half /\ partition'[Len(partition)] = Half
           /\ \A i \in 1 .. Len(partition) : i # Len(partition) => partition'[i] = partition[i]
  <2>1. DOMAIN partition' = DOMAIN partition /\ Len(partition) \in DOMAIN partition
    <3>1. Len(partition') = Len(partition) /\ Len(partition) > 0
      BY <1>4
    <3>2. Len(partition) \in 1 .. Len(partition)
      BY <1>2, <3>1
    <3>3. QED
      BY <1>2, <3>1, <3>2
  <2>7. ~Whole(Half) /\ ~Whole(Garbage) /\ Half # Garbage
    BY DEF Whole, Half, Garbage
  <2>2. \A i \in DOMAIN partition :
          partition'[i] = partition[i] \/ (~Whole(partition'[i]) /\ ~Whole(partition[i]))
    BY <1>2, <1>4, <2>7
  <2>3. ~Readable'
    BY <1>4, <2>1, <2>7 DEF Readable
  <2>4. \A s \in Sources : \A i \in RecordsIn(partition', s) : i \in RecordsIn(partition, s)
    <3>1. SUFFICES ASSUME NEW s \in Sources, NEW i \in RecordsIn(partition', s)
                   PROVE  i \in RecordsIn(partition, s)
      OBVIOUS
    <3>2. i \in DOMAIN partition /\ Whole(partition'[i]) /\ partition'[i].source = s
      BY <2>1 DEF RecordsIn
    <3>3. QED
      BY <2>2, <3>2 DEF RecordsIn
  <2>5. \A r \in Kept' : r \in Kept
    BY <2>1, <2>2 DEF Kept
  <2>8. Kept \subseteq Kept'
    BY <2>1, <2>2 DEF Kept
  <2>9. ASSUME partition'[Len(partition)] = Garbage
        PROVE  LosesOne(line)
    <3>1. Len(partition) \notin TornLines
      BY <1>4, <2>7 DEF TornLines
    <3>2. TornLines' = TornLines \cup {Len(partition)}
      BY <1>2, <1>4, <2>1, <2>7, <2>9 DEF TornLines
    <3>3. QED
      BY <2>8, <3>1, <3>2 DEF LosesOne
  <2>10. ASSUME line = Half, partition'[Len(partition)] = Half
         PROVE  LosesOne(line)
    <3>1. \A i \in DOMAIN partition : partition'[i] = partition[i]
      BY <1>2, <1>4, <2>10
    <3>2. TornLines' = TornLines
      BY <2>1, <3>1 DEF TornLines
    <3>3. QED
      BY <2>7, <2>8, <2>10, <3>2 DEF LosesOne
  <2>6. QED
    BY <1>4, <2>3, <2>4, <2>5, <2>9, <2>10 DEF AppendEffect
<1>5. QED
  BY <1>1, <1>3, <1>4 DEF Extends

\* Half a line turns nothing into a record, and a partition that ends in it does not parse.
LEMMA HalfIs ==
  ASSUME TypeOK, partition' = Appended(partition, Half)
  PROVE  /\ AppendEffect(Half) /\ ~Readable'
         /\ \A s \in Sources : RecordsIn(partition', s) \subseteq RecordsIn(partition, s)
<1>1. AppendEffect(Half)
  BY HalfTyped, AppendingIs
<1>2. \A s \in Sources : RecordsIn(partition', s) \subseteq RecordsIn(partition, s)
  BY <1>1, HalfTyped DEF AppendEffect
<1>3. ~Readable'
  <2>1. SUFFICES ASSUME Readable' PROVE FALSE
    OBVIOUS
  <2>2. Half \in Kept'
    BY <1>1, <2>1 DEF AppendEffect
  <2>3. QED
    BY <2>2, HalfTyped DEF Kept
<1>4. QED
  BY <1>1, <1>2, <1>3

\* A purge replaces each record by itself without a text that had expired.
RewriteEffect(cutoff) ==
  /\ Readable'
  /\ \A s \in Sources : RecordsIn(partition', s) = RecordsIn(partition, s)
  /\ \A r \in Kept : \E q \in Kept' : q.id = r.id /\ q.sha = r.sha
  /\ \A q \in Kept' : q.text # NoText =>
       q \in Kept /\ q.ts # Unparsable /\ q.ts > cutoff

LEMMA RewritingIs ==
  ASSUME TypeOK, Readable, NEW cutoff \in Int,
         partition' = [i \in DOMAIN partition |-> Stripped(partition[i], cutoff)]
  PROVE  RewriteEffect(cutoff)
<1>1. DOMAIN partition' = DOMAIN partition
  OBVIOUS
<1>2. \A i \in DOMAIN partition : partition[i] \in TraceRecord /\ Whole(partition[i])
  BY WholeIs DEF TypeOK, Readable
<1>3. \A i \in DOMAIN partition : partition'[i] = Stripped(partition[i], cutoff)
  OBVIOUS
<1>4. ASSUME NEW i \in DOMAIN partition
      PROVE  /\ partition'[i] \in TraceRecord
             /\ partition'[i].id = partition[i].id
             /\ partition'[i].source = partition[i].source
             /\ partition'[i].sha = partition[i].sha
             /\ partition'[i].text # NoText =>
                  partition'[i] = partition[i] /\ partition[i].ts # Unparsable /\ partition[i].ts > cutoff
  <2>1. partition[i] \in TraceRecord /\ partition'[i] = Stripped(partition[i], cutoff)
    BY <1>2, <1>3
  <2>2. Stripped(partition[i], cutoff) \in TraceRecord
    BY <2>1, StrippedIs
  <2>3. /\ Stripped(partition[i], cutoff).id = partition[i].id
        /\ Stripped(partition[i], cutoff).source = partition[i].source
        /\ Stripped(partition[i], cutoff).sha = partition[i].sha
    BY <2>1, StrippedIs
  <2>4. /\ Stripped(partition[i], cutoff) = partition[i] \/ Stripped(partition[i], cutoff).text = NoText
        /\ Stripped(partition[i], cutoff).text # NoText =>
             partition[i].ts # Unparsable /\ partition[i].ts > cutoff
    BY <2>1, StrippedIs
  <2>5. QED
    BY <2>1, <2>2, <2>3, <2>4
<1>5. \A i \in DOMAIN partition : Whole(partition'[i])
  BY <1>4, WholeIs DEF Line
<1>6. Readable'
  BY <1>1, <1>5 DEF Readable
<1>7. \A s \in Sources : RecordsIn(partition', s) = RecordsIn(partition, s)
  BY <1>1, <1>2, <1>4, <1>5 DEF RecordsIn
<1>8. Kept = {partition[i] : i \in DOMAIN partition} /\ Kept' = {partition'[i] : i \in DOMAIN partition}
  BY <1>1, <1>2, <1>5 DEF Kept
<1>9. \A r \in Kept : \E q \in Kept' : q.id = r.id /\ q.sha = r.sha
  BY <1>4, <1>8
<1>10. \A q \in Kept' : q.text # NoText => q \in Kept /\ q.ts # Unparsable /\ q.ts > cutoff
  BY <1>4, <1>8
<1>11. QED
  BY <1>6, <1>7, <1>9, <1>10 DEF RewriteEffect

LEMMA KeptType == TypeOK => \A r \in Kept : r \in TraceRecord
  BY WholeIs DEF TypeOK, Kept

(***************************************************************************)
(* One task at a time.                                                     *)
(***************************************************************************)
LEMMA InOneProcess ==
  ASSUME TypeOK, Processes = {Gate}
  PROVE  /\ \A t \in Tasks : Home[t] = Gate
         /\ \A p \in Processes : Free(p) => \A t \in Tasks : ~Running(t)
         /\ \A t \in Tasks : FreeFor(t) => \A u \in Tasks \ {t} : ~Running(u)
  BY TraceAssumption DEF Free, FreeFor

LEMMA RunningIs == \A t : Running(t) <=> Emits(t) \/ Rewrites(t) \/ task[t].pc = "saving"
  BY DEF Running, Emits, Rewrites

\* Nothing that a task relies on changes, nor does any task that runs on.
LEMMA TasksAside ==
  ASSUME TypeOK, TasksOK, partition' = partition, cursor' = cursor,
         spent'["records"] \in Nat, spent["records"] <= spent'["records"],
         \A t \in Tasks : Running(t)' => task'[t] = task[t]
  PROVE  TasksOK'
<1>1. \A t \in Tasks : Running(t)' => Running(t)
  BY DEF Running
<1>2. OneRunning'
  BY <1>1 DEF TasksOK, OneRunning
<1>3. \A t \in Tasks : (Emits(t)' \/ Rewrites(t)') => task'[t] = task[t]
  BY DEF Running, Emits, Rewrites
<1>4. EmissionOK'
  BY <1>3 DEF TasksOK, EmissionOK, Emits
<1>5. ASSUME NEW t \in Tasks, Rewrites(t)'
      PROVE  task'[t] = task[t] /\ Rewrites(t) /\ task[t].mark.before \in Nat
  <2>1. task'[t] = task[t] /\ Rewrites(t)
    BY <1>3, <1>5 DEF Rewrites
  <2>2. task[t] \in Rewrite
    BY <2>1, TaskTypes DEF TypeOK, Rewrites
  <2>3. QED
    BY <2>1, <2>2 DEF Rewrite, Mark
<1>6. RewriteOK'
  BY <1>5 DEF TasksOK, RewriteOK, TypeOK, Readable
<1>7. QED
  BY <1>2, <1>4, <1>6 DEF TasksOK

\* No task is between two calls.
LEMMA TasksQuiet ==
  ASSUME \A t \in Tasks : ~Running(t)'
  PROVE  TasksOK'
  BY DEF TasksOK, OneRunning, EmissionOK, RewriteOK, Running, Emits, Rewrites

\* One task is, and what it holds is right.
LEMMA TasksOne ==
  ASSUME NEW t \in Tasks, \A u \in Tasks \ {t} : ~Running(u)',
         Emits(t)' => /\ task'[t].seen \subseteq cursor'
                      /\ task'[t].todo \cap (task'[t].seen \cup task'[t].new) = {},
         Rewrites(t)' =>
           /\ Readable'
           /\ task'[t].next = [i \in DOMAIN partition' |->
                                 Stripped(partition'[i], task'[t].mark.cutoff)]
           /\ task'[t].mark.before <= spent'["records"]
  PROVE  TasksOK'
  BY DEF TasksOK, OneRunning, EmissionOK, RewriteOK, Running, Emits, Rewrites

LEMMA TasksPoll ==
  ASSUME TypeOK, TypeOK', TasksOK, Processes = {Gate}, NEW t \in Pollers,
         \/ StartPoll(t) \/ Snapshot(t) \/ SourceFails(t)
         \/ ReadCursor(t) \/ MissCursor(t) \/ RefuseCursor(t)
         \/ Emit(t) \/ EmitFails(t) \/ SaveCursor(t)
  PROVE  TasksOK'
<1>1. t \in Tasks /\ task \in [Tasks -> TaskState] /\ spent["records"] \in Nat
  BY DEF TypeOK, Tasks
<1>2. \A u \in Tasks : Running(t) /\ Running(u) => u = t
  BY <1>1 DEF TasksOK, OneRunning
<1>3. CASE StartPoll(t)
  <2>1. \A u \in Tasks : ~Running(u)
    BY <1>1, <1>3, InOneProcess DEF StartPoll
  <2>2. \A u \in Tasks : ~Running(u)'
    BY <1>1, <1>3, <2>1 DEF StartPoll, Running
  <2>3. QED
    BY <2>2, TasksQuiet
<1>4. CASE Snapshot(t) \/ SourceFails(t) \/ RefuseCursor(t)
  <2>1. \A u \in Tasks : Running(u)' => task'[u] = task[u]
    BY <1>1, <1>4 DEF Snapshot, SourceFails, RefuseCursor, Running, Idle
  <2>2. partition' = partition /\ cursor' = cursor
    BY <1>4 DEF Snapshot, SourceFails, RefuseCursor
  <2>3. spent'["records"] = spent["records"]
    BY <1>4, SpendType DEF Snapshot, SourceFails, RefuseCursor
  <2>4. QED
    BY <1>1, <2>1, <2>2, <2>3, TasksAside
<1>5. CASE ReadCursor(t) \/ MissCursor(t)
  <2>1. \A u \in Tasks \ {t} : ~Running(u)'
    BY <1>1, <1>5, InOneProcess DEF ReadCursor, MissCursor, Running
  <2>2. PICK seen \in {cursor, {}} :
          task'[t] = [pc |-> "emitting", seen |-> seen, new |-> {},
                      todo |-> task[t].items \ seen, costDone |-> FALSE]
    <3>1. CASE ReadCursor(t)
      BY <1>1, <3>1 DEF ReadCursor
    <3>2. CASE MissCursor(t)
      <4>1. task'[t] = [pc |-> "emitting", seen |-> {}, new |-> {},
                        todo |-> task[t].items, costDone |-> FALSE]
        BY <1>1, <3>2 DEF MissCursor
      <4>2. task[t].items \ {} = task[t].items
        OBVIOUS
      <4>3. QED
        BY <4>1, <4>2
    <3>3. QED
      BY <1>5, <3>1, <3>2
  <2>3. cursor' = cursor /\ ~Rewrites(t)'
    BY <1>5, <2>2 DEF ReadCursor, MissCursor, Rewrites
  <2>4. /\ task'[t].seen \subseteq cursor'
        /\ task'[t].todo \cap (task'[t].seen \cup task'[t].new) = {}
    BY <2>2, <2>3
  <2>5. QED
    BY <1>1, <2>1, <2>3, <2>4, TasksOne
<1>6. CASE Emit(t)
  <2>1. PICK s \in task[t].todo, cost \in BOOLEAN, record \in TraceRecord :
          /\ s \in Sources /\ task[t] \in Emission
          /\ task' = [task EXCEPT ![t] = AfterEmit(task[t], s, cost)]
    BY <1>6, EmitIs
  <2>2. /\ task'[t].pc = "emitting" /\ task'[t].seen = task[t].seen
        /\ task'[t].todo = task[t].todo \ {s} /\ task'[t].new = task[t].new \cup {s}
    BY <1>1, <2>1, AfterEmitIs
  <2>3. Emits(t) /\ Running(t) /\ cursor' = cursor
    BY <1>6 DEF Emit, Emits, Running
  <2>4. \A u \in Tasks \ {t} : ~Running(u)'
    BY <1>1, <1>2, <2>1, <2>3 DEF Running
  <2>5. /\ task[t].seen \subseteq cursor
        /\ task[t].todo \cap (task[t].seen \cup task[t].new) = {}
    BY <1>1, <2>3 DEF TasksOK, EmissionOK
  <2>6. /\ task'[t].seen \subseteq cursor'
        /\ task'[t].todo \cap (task'[t].seen \cup task'[t].new) = {}
    BY <2>2, <2>3, <2>5
  <2>7. ~Rewrites(t)'
    BY <2>2 DEF Rewrites
  <2>8. QED
    BY <1>1, <2>4, <2>6, <2>7, TasksOne
<1>7. CASE EmitFails(t) \/ SaveCursor(t)
  <2>1. Running(t) /\ task' = [task EXCEPT ![t] = Idle]
    BY <1>7 DEF EmitFails, SaveCursor, Running
  <2>2. \A u \in Tasks : ~Running(u)'
    BY <1>1, <1>2, <2>1 DEF Running, Idle
  <2>3. QED
    BY <2>2, TasksQuiet
<1>8. QED
  BY <1>3, <1>4, <1>5, <1>6, <1>7

LEMMA TasksPurge ==
  ASSUME TypeOK, TypeOK', TasksOK, Processes = {Gate}, NEW t \in Purgers,
         PurgeRead(t) \/ PurgeMisreads(t) \/ PurgeRename(t) \/ PurgeFails(t)
  PROVE  TasksOK'
<1>1. t \in Tasks /\ task \in [Tasks -> TaskState] /\ spent["records"] \in Nat
  BY DEF TypeOK, Tasks
<1>2. \A u \in Tasks : Running(t) /\ Running(u) => u = t
  BY <1>1 DEF TasksOK, OneRunning
<1>3. CASE PurgeRead(t)
  <2>1. PICK mark \in Mark :
          /\ mark.before = spent["records"] /\ Readable
          /\ LET next == [i \in DOMAIN partition |-> Stripped(partition[i], mark.cutoff)] IN
             \/ UNCHANGED task
             \/ task' = [task EXCEPT ![t] = [pc |-> "rewriting", next |-> next, mark |-> mark]]
    BY <1>3, PurgeReadIs
  <2>2. spent'["records"] = spent["records"] /\ partition' = partition /\ cursor' = cursor
    BY <1>3, SpendType DEF PurgeRead
  <2>3. \A u \in Tasks \ {t} : ~Running(u)
    BY <1>1, <1>3, InOneProcess DEF PurgeRead
  <2>4. CASE UNCHANGED task
    BY <1>1, <2>2, <2>4, TasksAside
  <2>5. ASSUME task' = [task EXCEPT ![t] = [pc |-> "rewriting", mark |-> mark,
                  next |-> [i \in DOMAIN partition |-> Stripped(partition[i], mark.cutoff)]]]
        PROVE  TasksOK'
    <3>1. \A u \in Tasks \ {t} : ~Running(u)'
      BY <1>1, <2>3, <2>5 DEF Running
    <3>2. /\ task'[t].pc = "rewriting" /\ task'[t].mark = mark
          /\ task'[t].next = [i \in DOMAIN partition |-> Stripped(partition[i], mark.cutoff)]
      BY <1>1, <2>5
    <3>3. ~Emits(t)' /\ Readable'
      BY <2>1, <2>2, <3>2 DEF Emits, Readable
    <3>4. task'[t].next = [i \in DOMAIN partition' |->
                             Stripped(partition'[i], task'[t].mark.cutoff)]
      BY <2>2, <3>2
    <3>5. task'[t].mark.before <= spent'["records"]
      BY <1>1, <2>1, <2>2, <3>2
    <3>6. QED
      BY <1>1, <3>1, <3>3, <3>4, <3>5, TasksOne
  <2>6. QED
    BY <2>1, <2>4, <2>5
<1>4. CASE PurgeRename(t) \/ PurgeFails(t)
  <2>1. Running(t) /\ task' = [task EXCEPT ![t] = Idle]
    BY <1>4 DEF PurgeRename, PurgeFails, Running
  <2>2. \A u \in Tasks : ~Running(u)'
    BY <1>1, <1>2, <2>1 DEF Running, Idle
  <2>3. QED
    BY <2>2, TasksQuiet
<1>5. CASE PurgeMisreads(t)
  <2>1. partition' = partition /\ cursor' = cursor /\ task' = task
    BY <1>5 DEF PurgeMisreads
  <2>2. spent'["records"] = spent["records"]
    BY <1>5, MisreadIs
  <2>3. QED
    BY <1>1, <2>1, <2>2, TasksAside
<1>6. QED
  BY <1>3, <1>4, <1>5

LEMMA TasksStep ==
  ASSUME TypeOK, TypeOK', TasksOK, Processes = {Gate}, [Next]_vars
  PROVE  TasksOK'
<1>1. task \in [Tasks -> TaskState] /\ spent["records"] \in Nat
  BY DEF TypeOK
<1>2. ASSUME partition' = partition, cursor' = cursor, task' = task, spent' = spent
      PROVE  TasksOK'
  BY <1>1, <1>2, TasksAside
<1>3. CASE Tick \/ (\E s \in Sources : Work(s)) \/ UNCHANGED vars
  BY <1>2, <1>3 DEF Tick, Work, vars
<1>4. ASSUME NEW p \in Processes, NEW text, NEW ts, Write(p, text, ts)
      PROVE  TasksOK'
  <2>1. \A t \in Tasks : ~Running(t)
    BY <1>4, InOneProcess DEF Write
  <2>2. \A t \in Tasks : ~Running(t)'
    BY <1>4, <2>1 DEF Write, Running
  <2>3. QED
    BY <2>2, TasksQuiet
<1>5. CASE Sink \/ \E p \in Processes, text \in Texts : Capture(p, text)
  BY <1>4, <1>5, TraceAssumption DEF Sink, Capture
<1>6. ASSUME NEW p \in Processes, NEW doc, Restart(p, doc)
      PROVE  TasksOK'
  <2>1. \A t \in Tasks : task'[t] = Idle
    BY <1>6, InOneProcess DEF Restart
  <2>2. \A t \in Tasks : ~Running(t)'
    BY <2>1 DEF Running, Idle
  <2>3. QED
    BY <2>2, TasksQuiet
<1>7. CASE \E p \in Processes : WriteFails(p)
  <2>1. \A t \in Tasks : ~Running(t)
    BY <1>7, InOneProcess DEF WriteFails
  <2>2. \A t \in Tasks : ~Running(t)'
    BY <1>7, <2>1 DEF WriteFails, Running
  <2>3. QED
    BY <2>2, TasksQuiet
<1>8. CASE Scramble
  <2>1. partition' = partition /\ cursor' = cursor /\ task' = task
    BY <1>8 DEF Scramble
  <2>2. spent'["records"] = spent["records"]
    BY <1>8, SpendType DEF Scramble
  <2>3. QED
    BY <1>1, <2>1, <2>2, TasksAside
<1>9. QED
  BY <1>3, <1>5, <1>6, <1>7, <1>8, TasksPoll, TasksPurge DEF Next

(***************************************************************************)
(* Every source once.                                                      *)
(***************************************************************************)
\* A step that turns no source into a record, nor accounts for one.  It may uncover one
\* that has been recorded, and is counted then.
Conserves ==
  /\ \A s \in Sources : RecordsIn(partition', s) \subseteq RecordsIn(partition, s)
  /\ Readable' => /\ Readable
                  /\ \A s \in Sources : RecordsIn(partition, s) \subseteq RecordsIn(partition', s)
  /\ Accounted' \subseteq Accounted
  /\ spoilt' \in Nat /\ spoilt <= spoilt'
  /\ Covered \subseteq Covered' \/ spoilt + 1 <= spoilt'

LEMMA RecordsFinite ==
  ASSUME TypeOK
  PROVE  \A s : /\ IsFiniteSet(RecordsIn(partition, s))
                /\ Cardinality(RecordsIn(partition, s)) \in Nat
                /\ Len(partition) + 1 \notin RecordsIn(partition, s)
<1> SUFFICES ASSUME NEW s
             PROVE  /\ IsFiniteSet(RecordsIn(partition, s))
                    /\ Cardinality(RecordsIn(partition, s)) \in Nat
                    /\ Len(partition) + 1 \notin RecordsIn(partition, s)
  OBVIOUS
<1>1. Len(partition) \in Nat /\ DOMAIN partition = 1 .. Len(partition)
  BY DEF TypeOK
<1>2. IsFiniteSet(1 .. Len(partition))
  BY <1>1, FS_Interval
<1>3. RecordsIn(partition, s) \subseteq 1 .. Len(partition)
  BY <1>1 DEF RecordsIn
<1>4. IsFiniteSet(RecordsIn(partition, s))
  BY <1>2, <1>3, FS_Subset
<1>5. Cardinality(RecordsIn(partition, s)) \in Nat
  BY <1>4, FS_CardinalityType
<1>6. Len(partition) + 1 \notin RecordsIn(partition, s)
  BY <1>1, <1>3
<1>7. QED
  BY <1>4, <1>5, <1>6

LEMMA ConservesKeeps ==
  ASSUME TypeOK, Recorded, Counted, Conserves
  PROVE  Recorded' /\ Counted'
<1>1. Recorded'
  BY DEF Recorded, Conserves
<1>2. ASSUME NEW s \in Sources
      PROVE  /\ Cardinality(RecordsIn(partition', s)) <= spoilt' + 1
             /\ s \notin Covered' => Cardinality(RecordsIn(partition', s)) <= spoilt'
  <2>1. IsFiniteSet(RecordsIn(partition, s)) /\ Cardinality(RecordsIn(partition, s)) \in Nat
    BY RecordsFinite
  <2>2. RecordsIn(partition', s) \subseteq RecordsIn(partition, s)
    BY DEF Conserves
  <2>3. /\ IsFiniteSet(RecordsIn(partition', s))
        /\ Cardinality(RecordsIn(partition', s)) <= Cardinality(RecordsIn(partition, s))
    BY <2>1, <2>2, FS_Subset
  <2>4. Cardinality(RecordsIn(partition', s)) \in Nat
    BY <2>3, FS_CardinalityType
  <2>5. /\ Cardinality(RecordsIn(partition, s)) <= spoilt + 1
        /\ s \notin Covered => Cardinality(RecordsIn(partition, s)) <= spoilt
    BY DEF Counted
  <2>6. /\ spoilt \in Nat /\ spoilt' \in Nat /\ spoilt <= spoilt'
        /\ Covered \subseteq Covered' \/ spoilt + 1 <= spoilt'
    BY DEF TypeOK, Conserves
  <2>7. Cardinality(RecordsIn(partition', s)) <= spoilt' + 1
    BY <2>1, <2>3, <2>4, <2>5, <2>6
  <2>8. ASSUME s \notin Covered'
        PROVE  Cardinality(RecordsIn(partition', s)) <= spoilt'
    <3>1. s \notin Covered \/ spoilt + 1 <= spoilt'
      BY <2>6, <2>8
    <3>2. QED
      BY <2>1, <2>3, <2>4, <2>5, <2>6, <3>1
  <2>9. QED
    BY <2>7, <2>8
<1>3. QED
  BY <1>1, <1>2 DEF Counted

\* A task that holds what it held, and a cursor as it was, account for the same.
LEMMA SameAccounts ==
  ASSUME cursor' = cursor, \A t \in Tasks : Emits(t)' <=> Emits(t),
         \A t \in Tasks : Emits(t) => task'[t] = task[t]
  PROVE  Accounted' = Accounted /\ Covered' = Covered
<1>1. {u \in Tasks : Emits(u)'} = {u \in Tasks : Emits(u)}
  OBVIOUS
<1>2. Accounted' = Accounted
  BY DEF Accounted, Emits
<1>3. CASE \E t \in Tasks : Emits(t)
  <2>1. Covered = UNION {task[t].seen \cup task[t].new : t \in {u \in Tasks : Emits(u)}}
    BY <1>3 DEF Covered
  <2>2. Covered' = UNION {task'[t].seen \cup task'[t].new : t \in {u \in Tasks : Emits(u)'}}
    BY <1>3 DEF Covered
  <2>3. QED
    BY <1>1, <1>2, <2>1, <2>2
<1>4. CASE ~(\E t \in Tasks : Emits(t))
  BY <1>2, <1>4 DEF Covered
<1>5. QED
  BY <1>3, <1>4

\* While one task emits it is what it has seen and emitted that is covered.
LEMMA OneCovers ==
  ASSUME NEW t \in Tasks, Emits(t), \A u \in Tasks : Emits(u) => u = t
  PROVE  Covered = task[t].seen \cup task[t].new /\ Accounted = cursor \cup task[t].new
<1>1. {u \in Tasks : Emits(u)} = {t}
  OBVIOUS
<1>2. Covered = UNION {task[u].seen \cup task[u].new : u \in {t}}
  BY <1>1 DEF Covered
<1>3. Accounted = cursor \cup (UNION {task[u].new : u \in {t}})
  BY <1>1 DEF Accounted
<1>4. QED
  BY <1>2, <1>3

LEMMA NoneCovers ==
  ASSUME \A t \in Tasks : ~Emits(t)
  PROVE  Covered = cursor /\ Accounted = cursor
<1>1. {u \in Tasks : Emits(u)} = {}
  OBVIOUS
<1>2. Accounted = cursor \cup (UNION {task[u].new : u \in {}})
  BY <1>1 DEF Accounted
<1>3. QED
  BY <1>2 DEF Covered

LEMMA ConservesAside ==
  ASSUME TypeOK, partition' = partition, spoilt' = spoilt,
         Accounted' \subseteq Accounted, Covered \subseteq Covered'
  PROVE  Conserves
  BY DEF TypeOK, Conserves, Readable

\* Half a line takes nothing away but what it covers.
LEMMA ConservesHalf ==
  ASSUME TypeOK, TypeOK', partition' = partition \/ partition' = Appended(partition, Half),
         Accounted' \subseteq Accounted, spoilt <= spoilt',
         Covered \subseteq Covered' \/ spoilt + 1 <= spoilt'
  PROVE  Conserves
<1>1. CASE partition' = partition
  BY <1>1 DEF TypeOK, Conserves, Readable
<1>2. CASE partition' = Appended(partition, Half)
  <2>1. ~Readable' /\ \A s \in Sources : RecordsIn(partition', s) \subseteq RecordsIn(partition, s)
    BY <1>2, HalfIs
  <2>2. QED
    BY <2>1 DEF TypeOK, Conserves
<1>3. QED
  BY <1>1, <1>2

LEMMA SourcesPoll ==
  ASSUME TypeOK, TypeOK', TasksOK, Recorded, Counted, Processes = {Gate}, NEW t \in Pollers,
         \/ StartPoll(t) \/ Snapshot(t) \/ SourceFails(t)
         \/ ReadCursor(t) \/ MissCursor(t) \/ RefuseCursor(t)
         \/ EmitFails(t) \/ SaveCursor(t)
  PROVE  Recorded' /\ Counted'
<1>1. t \in Tasks /\ task \in [Tasks -> TaskState] /\ spoilt \in Nat
  BY DEF TypeOK, Tasks
<1>2. CASE StartPoll(t) \/ Snapshot(t) \/ SourceFails(t) \/ RefuseCursor(t)
  <2>1. \A u \in Tasks : (Emits(u)' <=> Emits(u)) /\ (Emits(u) => task'[u] = task[u])
    BY <1>1, <1>2 DEF StartPoll, Snapshot, SourceFails, RefuseCursor, Emits, Idle
  <2>2. cursor' = cursor /\ partition' = partition /\ spoilt' = spoilt
    BY <1>2 DEF StartPoll, Snapshot, SourceFails, RefuseCursor
  <2>3. Accounted' = Accounted /\ Covered' = Covered
    BY <2>1, <2>2, SameAccounts
  <2>4. QED
    BY <2>2, <2>3, ConservesAside, ConservesKeeps
<1>3. CASE ReadCursor(t) \/ MissCursor(t)
  <2>1. /\ \A u \in Tasks \ {t} : ~Emits(u) /\ task'[u] = task[u]
        /\ ~Emits(t) /\ Emits(t)' /\ task'[t].new = {}
        /\ ReadCursor(t) => task'[t].seen = cursor
    BY <1>1, <1>3, InOneProcess DEF ReadCursor, MissCursor, Emits, Running
  <2>2. /\ cursor' = cursor /\ partition' = partition
        /\ ReadCursor(t) => spoilt' = spoilt
        /\ MissCursor(t) => spoilt' = spoilt + 1
    BY <1>3 DEF ReadCursor, MissCursor
  <2>3. Covered = cursor /\ Accounted = cursor
    BY <2>1, NoneCovers
  <2>4. \A u \in Tasks : Emits(u)' => u = t
    BY <2>1 DEF Emits
  <2>5. Covered' = task'[t].seen \cup task'[t].new /\ Accounted' = cursor' \cup task'[t].new
    <3>1. {u \in Tasks : Emits(u)'} = {t}
      BY <1>1, <2>1, <2>4
    <3>2. Covered' = UNION {task'[u].seen \cup task'[u].new : u \in {t}}
      BY <3>1 DEF Covered
    <3>3. Accounted' = cursor' \cup (UNION {task'[u].new : u \in {t}})
      BY <3>1 DEF Accounted
    <3>4. QED
      BY <3>2, <3>3
  <2>6. Accounted' \subseteq Accounted
    BY <2>1, <2>2, <2>3, <2>5
  <2>7. spoilt <= spoilt' /\ (Covered \subseteq Covered' \/ spoilt + 1 <= spoilt')
    BY <1>1, <1>3, <2>1, <2>2, <2>3, <2>5
  <2>8. QED
    BY <2>2, <2>6, <2>7, ConservesHalf, ConservesKeeps
<1>4. CASE EmitFails(t)
  <2>1. /\ cursor' = cursor /\ spoilt' = spoilt + 1
        /\ partition' = partition \/ partition' = Appended(partition, Half)
        /\ task' = [task EXCEPT ![t] = Idle]
    BY <1>4 DEF EmitFails
  <2>2. Accounted' \subseteq Accounted
    BY <1>1, <2>1 DEF Accounted, Emits, Idle
  <2>3. spoilt <= spoilt' /\ spoilt + 1 <= spoilt'
    BY <1>1, <2>1
  <2>4. QED
    BY <2>1, <2>2, <2>3, ConservesHalf, ConservesKeeps
<1>5. CASE SaveCursor(t)
  <2>1. /\ Emits(t) /\ partition' = partition /\ spoilt' = spoilt
        /\ cursor' = IF task[t].new = {} THEN cursor ELSE task[t].seen \cup task[t].new
        /\ task' = [task EXCEPT ![t] = Idle]
    BY <1>5 DEF SaveCursor, Emits
  <2>2. task[t].seen \subseteq cursor
    BY <1>1, <2>1 DEF TasksOK, EmissionOK
  <2>3. \A u \in Tasks : Emits(u) => u = t
    BY <1>1, <2>1 DEF TasksOK, OneRunning, Emits, Running
  <2>4. Covered = task[t].seen \cup task[t].new /\ Accounted = cursor \cup task[t].new
    BY <1>1, <2>1, <2>3, OneCovers
  <2>5. \A u \in Tasks : ~Emits(u)'
    BY <1>1, <2>1, <2>3 DEF Emits, Idle
  <2>6. Covered' = cursor' /\ Accounted' = cursor'
    <3>1. {u \in Tasks : Emits(u)'} = {}
      BY <2>5
    <3>2. Accounted' = cursor' \cup (UNION {task'[u].new : u \in {}})
      BY <3>1 DEF Accounted
    <3>3. Covered' = cursor'
      BY <2>5 DEF Covered
    <3>4. QED
      BY <3>2, <3>3
  <2>7. Accounted' \subseteq Accounted /\ Covered \subseteq Covered'
    BY <2>1, <2>2, <2>4, <2>6
  <2>8. QED
    BY <2>1, <2>7, ConservesAside, ConservesKeeps
<1>6. QED
  BY <1>2, <1>3, <1>4, <1>5

LEMMA SourcesEmit ==
  ASSUME TypeOK, TypeOK', TasksOK, Recorded, Counted, NEW t \in Pollers, Emit(t)
  PROVE  Recorded' /\ Counted'
<1>1. t \in Tasks /\ task \in [Tasks -> TaskState] /\ spoilt \in Nat
  BY DEF TypeOK, Tasks
<1>2. PICK s \in task[t].todo, cost \in BOOLEAN, record \in TraceRecord :
        /\ s \in Sources /\ record.source = s
        /\ partition' = Appended(partition, record)
        /\ task[t] \in Emission
        /\ task' = [task EXCEPT ![t] = AfterEmit(task[t], s, cost)]
  BY EmitIs
<1>3. /\ task'[t].pc = "emitting" /\ task'[t].new = task[t].new \cup {s}
      /\ task'[t].seen = task[t].seen
      /\ \A u \in Tasks \ {t} : task'[u] = task[u]
  BY <1>1, <1>2, AfterEmitIs
<1>4. Emits(t) /\ cursor' = cursor /\ spoilt' = spoilt
  BY DEF Emit, Emits
<1>11. \A u \in Tasks : Emits(u) => u = t
  BY <1>1, <1>4 DEF TasksOK, OneRunning, Emits, Running
<1>12. Covered = task[t].seen \cup task[t].new
  BY <1>1, <1>4, <1>11, OneCovers
<1>13. Covered' = task'[t].seen \cup task'[t].new
  <2>1. Emits(t)' /\ {u \in Tasks : Emits(u)'} = {t}
    BY <1>1, <1>3, <1>11 DEF Emits
  <2>2. Covered' = UNION {task'[u].seen \cup task'[u].new : u \in {t}}
    BY <1>1, <2>1 DEF Covered
  <2>3. QED
    BY <2>2
<1>5. Accounted' = Accounted \cup {s} /\ Covered' = Covered \cup {s}
  <2>1. Accounted' = Accounted \cup {s}
    BY <1>1, <1>3, <1>4 DEF Accounted, Emits
  <2>2. QED
    BY <1>3, <1>12, <1>13, <2>1
<1>6. s \notin Covered
  BY <1>1, <1>2, <1>4, <1>12 DEF TasksOK, EmissionOK
<1>7. AppendEffect(record)
  BY <1>2, AppendingIs, WholeIs DEF Line
<1>8. Recorded'
  BY <1>2, <1>5, <1>7 DEF Recorded, AppendEffect
<1>9. ASSUME NEW q \in Sources
      PROVE  /\ Cardinality(RecordsIn(partition', q)) <= spoilt' + 1
             /\ q \notin Covered' => Cardinality(RecordsIn(partition', q)) <= spoilt'
  <2> DEFINE old == RecordsIn(partition, q)
             new == RecordsIn(partition', q)
             more == IF q = s THEN old \cup {Len(partition) + 1} ELSE old
  <2>1. IsFiniteSet(old) /\ Cardinality(old) \in Nat /\ Len(partition) + 1 \notin old
    BY RecordsFinite
  <2>2. new \subseteq more
    BY <1>2, <1>7 DEF AppendEffect
  <2>3. Cardinality(old) <= spoilt + 1 /\ (q \notin Covered => Cardinality(old) <= spoilt)
    BY DEF Counted
  <2> HIDE DEF old, new
  <2>4. /\ IsFiniteSet(old \cup {Len(partition) + 1})
        /\ Cardinality(old \cup {Len(partition) + 1}) = Cardinality(old) + 1
    BY <2>1, FS_AddElement
  <2>5. IsFiniteSet(more) /\ Cardinality(more) \in Nat
    BY <2>1, <2>4
  <2>6. IsFiniteSet(new) /\ Cardinality(new) <= Cardinality(more)
    BY <2>2, <2>5, FS_Subset
  <2>7. Cardinality(new) \in Nat
    BY <2>6, FS_CardinalityType
  <2>8. CASE q = s
    <3>1. Cardinality(more) = Cardinality(old) + 1 /\ q \notin Covered /\ q \in Covered'
      BY <1>5, <1>6, <2>4, <2>8
    <3>2. Cardinality(old) <= spoilt
      BY <2>3, <3>1
    <3>3. Cardinality(new) <= spoilt' + 1
      BY <1>1, <1>4, <2>1, <2>6, <2>7, <3>1, <3>2
    <3>4. QED
      BY <3>1, <3>3 DEF new
  <2>9. CASE q # s
    <3>1. more = old /\ (q \notin Covered' => q \notin Covered)
      BY <1>5, <2>9
    <3>2. Cardinality(new) <= spoilt' + 1 /\ (q \notin Covered' => Cardinality(new) <= spoilt')
      BY <1>1, <1>4, <2>1, <2>3, <2>6, <2>7, <3>1
    <3>3. QED
      BY <3>2 DEF new
  <2>10. QED
    BY <2>8, <2>9
<1>10. QED
  BY <1>8, <1>9 DEF Counted

LEMMA SourcesRestart ==
  ASSUME TypeOK, TypeOK', TasksOK, Recorded, Counted, Processes = {Gate},
         NEW p \in Processes, NEW doc, Restart(p, doc)
  PROVE  Recorded' /\ Counted'
<1>1. task \in [Tasks -> TaskState] /\ spoilt \in Nat /\ spoilt' \in Nat
  BY DEF TypeOK
<1>2. (\A t \in Tasks : task'[t] = Idle) /\ cursor' = cursor
  BY InOneProcess DEF Restart
<1>3. Accounted' \subseteq Accounted
  BY <1>2 DEF Accounted, Emits, Idle
<1> DEFINE emitting == {t \in Pollers : Home[t] = p /\ task[t].pc = "emitting"}
<1>4. IsFiniteSet(emitting) /\ Cardinality(emitting) \in Nat /\ spoilt' = spoilt + Cardinality(emitting)
  <2>1. IsFiniteSet(emitting)
    BY TraceAssumption, FS_Subset
  <2>2. Cardinality(emitting) \in Nat
    BY <2>1, FS_CardinalityType
  <2>3. spoilt' = spoilt + Cardinality(emitting)
    BY DEF Restart
  <2>4. QED
    BY <2>1, <2>2, <2>3
<1>5. ASSUME emitting = {}
      PROVE  Covered' = Covered
  <2>1. ASSUME NEW t \in Tasks, Emits(t)
        PROVE  FALSE
    <3>1. t \notin Purgers /\ Home[t] = p
      BY <2>1, InOneProcess DEF TypeOK, Emits
    <3>2. t \in emitting
      BY <2>1, <3>1 DEF Tasks, Emits
    <3>3. QED
      BY <1>5, <3>2
  <2>2. ~(\E t \in Tasks : Emits(t)) /\ ~(\E t \in Tasks : Emits(t)')
    BY <1>2, <2>1 DEF Emits, Idle
  <2>3. QED
    BY <1>2, <2>2 DEF Covered
<1> HIDE DEF emitting
<1>6. Covered \subseteq Covered' \/ spoilt + 1 <= spoilt'
  <2>1. emitting # {} => Cardinality(emitting) # 0
    BY <1>4, FS_EmptySet
  <2>2. QED
    BY <1>1, <1>4, <1>5, <2>1
<1>7. spoilt <= spoilt'
  BY <1>1, <1>4
<1>8. partition' = partition \/ partition' = Appended(partition, Half)
  BY DEF Restart
<1>9. QED
  BY <1>3, <1>6, <1>7, <1>8, ConservesHalf, ConservesKeeps

\* What a purge writes is what it read, without the expired texts.
LEMMA PurgeWrites ==
  ASSUME TypeOK, TasksOK, NEW t \in Purgers, PurgeRename(t)
  PROVE  /\ RewriteEffect(task[t].mark.cutoff) /\ Readable
         /\ task[t].mark \in Mark /\ task[t].mark.before <= spent["records"]
<1>1. t \in Tasks /\ task[t] \in TaskState /\ Rewrites(t)
  BY DEF TypeOK, Tasks, PurgeRename, Rewrites
<1>2. task[t] \in Rewrite
  BY <1>1, TaskTypes DEF Rewrites
<1>3. task[t].mark \in Mark /\ task[t].mark.cutoff \in Int
  BY <1>2 DEF Rewrite, Mark
<1>4. /\ Readable /\ task[t].mark.before <= spent["records"]
      /\ task[t].next = [i \in DOMAIN partition |-> Stripped(partition[i], task[t].mark.cutoff)]
  BY <1>1 DEF TasksOK, RewriteOK
<1>5. partition' = [i \in DOMAIN partition |-> Stripped(partition[i], task[t].mark.cutoff)]
  BY <1>4 DEF PurgeRename
<1>6. RewriteEffect(task[t].mark.cutoff)
  BY <1>3, <1>4, <1>5, RewritingIs
<1>7. QED
  BY <1>3, <1>4, <1>6

LEMMA SourcesStep ==
  ASSUME TypeOK, TypeOK', TasksOK, Recorded, Counted, Processes = {Gate}, [Next]_vars
  PROVE  Recorded' /\ Counted'
<1>1. task \in [Tasks -> TaskState] /\ spoilt \in Nat
  BY DEF TypeOK
<1>2. ASSUME partition' = partition, cursor' = cursor, task' = task, spoilt' = spoilt
      PROVE  Recorded' /\ Counted'
  <2>1. Accounted' = Accounted /\ Covered' = Covered
    BY <1>2, SameAccounts DEF Emits
  <2>2. QED
    BY <1>2, <2>1, ConservesAside, ConservesKeeps
<1>3. CASE Tick \/ (\E s \in Sources : Work(s)) \/ UNCHANGED vars
  BY <1>2, <1>3 DEF Tick, Work, vars
<1>4. ASSUME NEW p \in Processes, NEW text \in Texts \cup {NoText}, NEW ts \in {now, Unparsable},
             Write(p, text, ts)
      PROVE  Recorded' /\ Counted'
  <2>1. PICK record \in TraceRecord :
          partition' = Appended(partition, record) /\ record.source = None
    BY <1>4, WriteType
  <2>2. AppendEffect(record) /\ record.source \notin Sources
    BY <2>1, AppendingIs, WholeIs, TraceAssumption DEF Line
  <2>3. /\ \A s \in Sources : RecordsIn(partition', s) \subseteq RecordsIn(partition, s)
        /\ Readable' => /\ Readable
                        /\ \A s \in Sources : RecordsIn(partition, s) \subseteq RecordsIn(partition', s)
    BY <2>2 DEF AppendEffect
  <2>4. cursor' = cursor /\ task' = task /\ spoilt' = spoilt
    BY <1>4 DEF Write
  <2>5. Accounted' = Accounted /\ Covered' = Covered
    BY <2>4, SameAccounts DEF Emits
  <2>6. Conserves
    BY <1>1, <2>3, <2>4, <2>5 DEF Conserves
  <2>7. QED
    BY <2>6, ConservesKeeps
<1>5. CASE Sink \/ \E p \in Processes, text \in Texts : Capture(p, text)
  BY <1>4, <1>5, TraceAssumption DEF Sink, Capture
<1>6. ASSUME NEW t \in Purgers, PurgeRead(t) \/ PurgeMisreads(t) \/ PurgeRename(t) \/ PurgeFails(t)
      PROVE  Recorded' /\ Counted'
  <2>1. t \in Tasks /\ task[t].pc \in {"idle", "rewriting"}
    BY DEF TypeOK, Tasks
  <2>2. /\ ~Emits(t) /\ ~Emits(t)' /\ \A u \in Tasks \ {t} : task'[u] = task[u]
        /\ cursor' = cursor /\ spoilt' = spoilt
    BY <1>1, <1>6, <2>1 DEF PurgeRead, PurgeMisreads, PurgeRename, PurgeFails, Emits, Idle
  <2>3. Accounted' = Accounted /\ Covered' = Covered
    <3>1. \A u \in Tasks : (Emits(u)' <=> Emits(u)) /\ (Emits(u) => task'[u] = task[u])
      BY <2>1, <2>2 DEF Emits
    <3>2. QED
      BY <2>2, <3>1, SameAccounts
  <2>4. CASE partition' = partition
    BY <2>2, <2>3, <2>4, ConservesAside, ConservesKeeps
  <2>5. CASE PurgeRename(t)
    <3>1. RewriteEffect(task[t].mark.cutoff)
      BY <2>5, PurgeWrites
    <3>2. Conserves
      BY <1>1, <2>2, <2>3, <2>5, <3>1, PurgeWrites DEF RewriteEffect, Conserves
    <3>3. QED
      BY <3>2, ConservesKeeps
  <2>6. QED
    BY <1>6, <2>4, <2>5 DEF PurgeRead, PurgeMisreads, PurgeFails
<1>7. CASE Scramble
  <2>1. partition' = partition /\ cursor' = cursor /\ task' = task /\ spoilt' = spoilt
    BY <1>7 DEF Scramble
  <2>2. QED
    BY <1>2, <2>1
<1>8. CASE \E p \in Processes : WriteFails(p)
  <2>1. /\ partition' = Appended(partition, Half)
        /\ cursor' = cursor /\ task' = task /\ spoilt' = spoilt
    BY <1>8 DEF WriteFails
  <2>2. Accounted' = Accounted /\ Covered' = Covered
    BY <2>1, SameAccounts DEF Emits
  <2>3. QED
    BY <1>1, <2>1, <2>2, ConservesHalf, ConservesKeeps
<1>9. QED
  BY <1>3, <1>5, <1>6, <1>7, <1>8, SourcesPoll, SourcesEmit, SourcesRestart DEF Next

(***************************************************************************)
(* What receipts name, and what purges have removed.                       *)
(***************************************************************************)
KeptOK == MarksBefore /\ IsFiniteSet(bound) /\ BoundTraceKept /\ ExpiredTextGone

LEMMA CountedSets ==
  ASSUME TypeOK, IsFiniteSet(bound)
  PROVE  /\ IsFiniteSet(LostTraces) /\ Cardinality(LostTraces) \in Nat
         /\ IsFiniteSet(TornLines) /\ Cardinality(TornLines) \in Nat
<1>1. IsFiniteSet(LostTraces)
  BY FS_Subset DEF LostTraces
<1>2. Len(partition) \in Nat /\ TornLines \subseteq 1 .. Len(partition)
  BY DEF TypeOK, TornLines
<1>3. IsFiniteSet(TornLines)
  <2>1. IsFiniteSet(1 .. Len(partition))
    BY <1>2, FS_Interval
  <2>2. QED
    BY <1>2, <2>1, FS_Subset
<1>4. QED
  BY <1>1, <1>3, FS_CardinalityType

\* As many lines are cut short as before, and no more receipts have lost their trace.
LEMMA NoneLost ==
  ASSUME TypeOK, IsFiniteSet(bound), BoundTraceKept, IsFiniteSet(bound'), TypeOK',
         LostTraces' \subseteq LostTraces, TornLines' = TornLines
  PROVE  BoundTraceKept'
<1>1. Cardinality(LostTraces') <= Cardinality(LostTraces)
  BY CountedSets, FS_Subset
<1>2. Cardinality(LostTraces') \in Nat
  BY CountedSets, FS_Subset, FS_CardinalityType
<1>3. Cardinality(TornLines') = Cardinality(TornLines)
  OBVIOUS
<1>4. Cardinality(LostTraces') <= Cardinality(TornLines')
  BY <1>1, <1>2, <1>3, CountedSets DEF BoundTraceKept
<1>5. QED
  BY <1>4 DEF BoundTraceKept

\* A line cut short has cost the trace that was written behind it.
LEMMA OneLost ==
  ASSUME TypeOK, IsFiniteSet(bound), BoundTraceKept, NEW b, NEW i,
         LostTraces' \subseteq LostTraces \cup {b},
         i \notin TornLines, TornLines' = TornLines \cup {i}
  PROVE  BoundTraceKept'
<1>1. /\ IsFiniteSet(LostTraces \cup {b}) /\ Cardinality(LostTraces \cup {b}) \in Nat
      /\ Cardinality(LostTraces \cup {b}) <= Cardinality(LostTraces) + 1
  <2>1. CASE b \in LostTraces
    <3>1. LostTraces \cup {b} = LostTraces
      BY <2>1
    <3>2. IsFiniteSet(LostTraces) /\ Cardinality(LostTraces) \in Nat
      BY CountedSets
    <3>3. Cardinality(LostTraces) <= Cardinality(LostTraces) + 1
      BY <3>2
    <3>4. QED
      BY <3>1, <3>2, <3>3
  <2>2. CASE b \notin LostTraces
    <3>1. /\ IsFiniteSet(LostTraces \cup {b})
          /\ Cardinality(LostTraces \cup {b}) = Cardinality(LostTraces) + 1
      BY <2>2, CountedSets, FS_AddElement
    <3>2. QED
      BY <3>1, CountedSets
  <2>3. QED
    BY <2>1, <2>2
<1>2. /\ Cardinality(LostTraces') \in Nat
      /\ Cardinality(LostTraces') <= Cardinality(LostTraces \cup {b})
  BY <1>1, FS_Subset, FS_CardinalityType
<1>3. Cardinality(TornLines \cup {i}) = Cardinality(TornLines) + 1
  BY CountedSets, FS_AddElement
<1>4. Cardinality(LostTraces) <= Cardinality(TornLines)
  BY DEF BoundTraceKept
<1>5. Cardinality(LostTraces') <= Cardinality(TornLines \cup {i})
  BY <1>1, <1>2, <1>3, <1>4, CountedSets
<1>6. QED
  BY <1>5 DEF BoundTraceKept

LEMMA KeptAside ==
  ASSUME TypeOK, TypeOK', KeptOK, partition' = partition, bound' = bound, purges' = purges,
         spent["records"] <= spent'["records"]
  PROVE  KeptOK'
<1>1. \A mark \in purges : mark.before \in Nat
  BY DEF TypeOK, Mark
<1>2. spent["records"] \in Nat /\ spent'["records"] \in Nat
  BY DEF TypeOK
<1>3. MarksBefore'
  BY <1>1, <1>2 DEF KeptOK, MarksBefore
<1>4. Kept' = Kept /\ TornLines' = TornLines
  BY DEF Kept, TornLines
<1>5. LostTraces' = LostTraces
  BY <1>4 DEF LostTraces, Resolves
<1>6. BoundTraceKept' /\ IsFiniteSet(bound')
  BY <1>4, <1>5 DEF KeptOK, BoundTraceKept
<1>7. ExpiredTextGone'
  BY <1>4 DEF KeptOK, ExpiredTextGone
<1>8. QED
  BY <1>3, <1>6, <1>7 DEF KeptOK

\* The record of a step is none that an earlier purge has seen.
LEMMA KeptAppend ==
  ASSUME TypeOK, TypeOK', KeptOK, NEW line \in Line, AppendEffect(line), purges' = purges,
         spent["records"] <= spent'["records"],
         Whole(line) => line.id = 0 \/ line.id = spent["records"] + 1,
         bound' = bound \/ (Whole(line) /\ bound' = bound \cup {<<line.id, line.sha>>})
  PROVE  KeptOK'
<1>1. \A mark \in purges : mark.before \in Nat
  BY DEF TypeOK, Mark
<1>2. spent["records"] \in Nat /\ spent'["records"] \in Nat
  BY DEF TypeOK
<1>3. MarksBefore'
  BY <1>1, <1>2 DEF KeptOK, MarksBefore
<1> DEFINE named == <<line.id, line.sha>>
<1>4. IsFiniteSet(bound) /\ IsFiniteSet(bound')
  BY FS_AddElement DEF KeptOK
<1>9. named[1] = line.id /\ named[2] = line.sha
  OBVIOUS
<1> HIDE DEF named
<1>10. bound' = bound \/ (Whole(line) /\ bound' = bound \cup {named})
  BY DEF named
<1>11. Kept \subseteq Kept' /\ LosesOne(line)
  BY DEF AppendEffect, LosesOne
<1>12. \A b \in LostTraces' : b \in LostTraces \/ b = named
  BY <1>10, <1>11 DEF LostTraces, Resolves
<1>6. BoundTraceKept'
  <2>1. CASE (Whole(line) => line \in Kept') /\ TornLines' = TornLines
    <3>1. Whole(line) => Resolves(named)'
      BY <1>9, <2>1 DEF Resolves
    <3>2. \A b \in LostTraces' : b \in LostTraces
      BY <1>10, <1>11, <3>1 DEF LostTraces, Resolves
    <3>3. QED
      BY <1>4, <2>1, <3>2, NoneLost DEF KeptOK
  <2>2. CASE Len(partition) \notin TornLines /\ TornLines' = TornLines \cup {Len(partition)}
    <3>1. LostTraces' \subseteq LostTraces \cup {named}
      BY <1>12
    <3>2. QED
      BY <1>4, <2>2, <3>1, OneLost DEF KeptOK
  <2>3. QED
    BY <1>11, <2>1, <2>2 DEF LosesOne
<1>5. ASSUME NEW mark \in purges', NEW r \in Kept', mark.scanned > 0,
             r.id \in 1 .. mark.before, r.text # NoText
      PROVE  r.ts # Unparsable /\ r.ts > mark.cutoff
  <2>1. mark \in purges /\ mark.before \in Nat /\ mark.before <= spent["records"]
    BY <1>1, <1>5 DEF KeptOK, MarksBefore
  <2>2. r \in Kept \/ (Whole(line) /\ r = line)
    BY DEF AppendEffect
  <2>3. ~(Whole(line) /\ r = line)
    BY <1>2, <1>5, <2>1
  <2>4. r \in Kept
    BY <2>2, <2>3
  <2>5. QED
    BY <1>5, <2>1, <2>4 DEF KeptOK, ExpiredTextGone
<1>7. ExpiredTextGone'
  BY <1>5 DEF ExpiredTextGone
<1>8. QED
  BY <1>3, <1>4, <1>6, <1>7 DEF KeptOK

LEMMA KeptPurge ==
  ASSUME TypeOK, TypeOK', TasksOK, KeptOK, NEW t \in Purgers,
         PurgeRead(t) \/ PurgeMisreads(t) \/ PurgeRename(t) \/ PurgeFails(t)
  PROVE  KeptOK'
<1>1. spent["records"] \in Nat /\ spent'["records"] \in Nat
  BY DEF TypeOK
<1>2. CASE PurgeFails(t)
  <2>1. spent'["records"] = spent["records"]
    BY <1>2, SpendType DEF PurgeFails
  <2>2. QED
    BY <1>1, <1>2, <2>1, KeptAside DEF PurgeFails
<1>3. CASE PurgeRead(t)
  <2>1. PICK mark \in Mark :
          /\ mark.before = spent["records"] /\ Readable
          /\ LET next == [i \in DOMAIN partition |-> Stripped(partition[i], mark.cutoff)] IN
             \/ next = partition /\ purges' = purges \cup {mark}
             \/ UNCHANGED purges
    BY <1>3, PurgeReadIs
  <2>2. spent'["records"] = spent["records"] /\ partition' = partition /\ bound' = bound
    BY <1>3, SpendType DEF PurgeRead
  <2>3. CASE UNCHANGED purges
    BY <1>1, <2>2, <2>3, KeptAside
  <2>4. ASSUME partition = [i \in DOMAIN partition |-> Stripped(partition[i], mark.cutoff)],
               purges' = purges \cup {mark}
        PROVE  KeptOK'
    <3>1. partition' = [i \in DOMAIN partition |-> Stripped(partition[i], mark.cutoff)]
      BY <2>2, <2>4
    <3>2. RewriteEffect(mark.cutoff)
      BY <2>1, <3>1, RewritingIs DEF Mark
    <3>3. Kept' = Kept /\ TornLines' = TornLines
      BY <2>2 DEF Kept, TornLines
    <3>4. MarksBefore'
      BY <1>1, <2>1, <2>2, <2>4 DEF KeptOK, MarksBefore
    <3>5. BoundTraceKept' /\ IsFiniteSet(bound')
      <4>1. LostTraces' = LostTraces
        BY <2>2, <3>3 DEF LostTraces, Resolves
      <4>2. QED
        BY <2>2, <3>3, <4>1 DEF KeptOK, BoundTraceKept
    <3>6. \A r \in Kept : r.text # NoText => r.ts # Unparsable /\ r.ts > mark.cutoff
      BY <3>2, <3>3 DEF RewriteEffect
    <3>7. ExpiredTextGone'
      BY <2>4, <3>3, <3>6 DEF KeptOK, ExpiredTextGone
    <3>8. QED
      BY <3>4, <3>5, <3>7 DEF KeptOK
  <2>5. QED
    BY <2>1, <2>3, <2>4
<1>4. CASE PurgeRename(t)
  <2> DEFINE mark == task[t].mark
  <2>1. RewriteEffect(mark.cutoff) /\ Readable /\ mark \in Mark /\ mark.before <= spent["records"]
    BY <1>4, PurgeWrites
  <2>2. purges' = purges \cup {mark} /\ bound' = bound /\ spent' = spent
    BY <1>4 DEF PurgeRename
  <2> HIDE DEF mark
  <2>3. MarksBefore'
    BY <2>1, <2>2 DEF KeptOK, MarksBefore
  <2>4. BoundTraceKept' /\ IsFiniteSet(bound')
    <3>1. TornLines = {}
      BY <2>1 DEF Readable, TornLines, Whole, Garbage
    <3>2. Cardinality(LostTraces) <= 0
      BY <3>1, FS_EmptySet DEF KeptOK, BoundTraceKept
    <3>3. LostTraces = {}
      BY <3>2, CountedSets, FS_EmptySet DEF KeptOK
    <3>4. ASSUME NEW b \in bound
          PROVE  \E q \in Kept' : q.id = b[1] /\ q.sha = b[2]
      <4>1. PICK r \in Kept : r.id = b[1] /\ r.sha = b[2]
        BY <3>3 DEF LostTraces, Resolves
      <4>2. QED
        BY <2>1, <4>1 DEF RewriteEffect
    <3>5. LostTraces' = {}
      BY <2>2, <3>4 DEF LostTraces, Resolves
    <3>6. TornLines' = {}
      BY <2>1 DEF RewriteEffect, Readable, TornLines, Whole, Garbage
    <3>7. QED
      BY <2>2, <3>5, <3>6, FS_EmptySet DEF KeptOK, BoundTraceKept
  <2>5. ExpiredTextGone'
    <3>1. ASSUME NEW m \in purges', NEW q \in Kept', m.scanned > 0,
                 q.id \in 1 .. m.before, q.text # NoText
          PROVE  q.ts # Unparsable /\ q.ts > m.cutoff
      <4>1. q \in Kept /\ q.ts # Unparsable /\ q.ts > mark.cutoff
        BY <2>1, <3>1 DEF RewriteEffect
      <4>2. CASE m = mark
        BY <4>1, <4>2
      <4>3. CASE m \in purges
        BY <3>1, <4>1, <4>3 DEF KeptOK, ExpiredTextGone
      <4>4. QED
        BY <2>2, <4>2, <4>3
    <3>2. QED
      BY <3>1 DEF ExpiredTextGone
  <2>6. QED
    BY <2>3, <2>4, <2>5 DEF KeptOK
<1>5. CASE PurgeMisreads(t)
  <2>1. PICK mark \in Mark : /\ mark.before = spent["records"] /\ mark.scanned = 0
                             /\ purges' = purges \cup {mark}
    BY <1>5, MisreadIs
  <2>2. spent'["records"] = spent["records"] /\ partition' = partition /\ bound' = bound
    BY <1>5, MisreadIs DEF PurgeMisreads
  <2>3. Kept' = Kept /\ TornLines' = TornLines
    BY <2>2 DEF Kept, TornLines
  <2>4. LostTraces' = LostTraces
    BY <2>2, <2>3 DEF LostTraces, Resolves
  <2>5. BoundTraceKept' /\ IsFiniteSet(bound')
    BY <2>2, <2>3, <2>4 DEF KeptOK, BoundTraceKept
  <2>6. MarksBefore'
    BY <1>1, <2>1, <2>2 DEF KeptOK, MarksBefore
  <2>7. ExpiredTextGone'
    BY <2>1, <2>3 DEF KeptOK, ExpiredTextGone
  <2>8. QED
    BY <2>5, <2>6, <2>7 DEF KeptOK
<1>6. QED
  BY <1>2, <1>3, <1>4, <1>5

LEMMA KeptStep ==
  ASSUME TypeOK, TypeOK', TasksOK, KeptOK, [Next]_vars
  PROVE  KeptOK'
<1>1. spent["records"] \in Nat /\ spent'["records"] \in Nat
  BY DEF TypeOK
<1>2. ASSUME NEW p \in Processes, NEW text \in Texts \cup {NoText}, NEW ts \in {now, Unparsable},
             Write(p, text, ts)
      PROVE  KeptOK'
  <2>1. PICK record \in TraceRecord :
          /\ partition' = Appended(partition, record)
          /\ bound' = bound \cup {<<record.id, record.sha>>}
          /\ record.id = spent["records"] + 1
    BY <1>2, WriteType
  <2>2. record \in Line /\ AppendEffect(record)
    BY <2>1, AppendingIs, WholeIs DEF Line
  <2>3. purges' = purges /\ spent'["records"] = spent["records"] + 1
    BY <1>2, SpendType DEF Write
  <2>4. Whole(record)
    BY <2>2, WholeIs
  <2>5. spent["records"] <= spent'["records"]
    BY <1>1, <2>3
  <2>6. QED
    BY <2>1, <2>2, <2>3, <2>4, <2>5, KeptAppend
<1>3. CASE Sink \/ \E p \in Processes, text \in Texts : Capture(p, text)
  BY <1>2, <1>3, TraceAssumption DEF Sink, Capture
<1>4. CASE Tick \/ (\E s \in Sources : Work(s)) \/ UNCHANGED vars
  BY <1>1, <1>4, KeptAside DEF Tick, Work, vars
<1>5. ASSUME NEW t \in Pollers, Emit(t)
      PROVE  KeptOK'
  <2>1. PICK s \in task[t].todo, cost \in BOOLEAN, record \in TraceRecord :
          record.id = 0 /\ partition' = Appended(partition, record)
    BY <1>5, EmitIs
  <2>2. record \in Line /\ AppendEffect(record)
    BY <2>1, AppendingIs, WholeIs DEF Line
  <2>3. purges' = purges /\ bound' = bound /\ spent' = spent
    BY <1>5 DEF Emit
  <2>4. QED
    BY <1>1, <2>1, <2>2, <2>3, KeptAppend
<1>6. ASSUME NEW t \in Pollers,
             \/ StartPoll(t) \/ Snapshot(t) \/ SourceFails(t)
             \/ ReadCursor(t) \/ MissCursor(t) \/ RefuseCursor(t) \/ SaveCursor(t)
      PROVE  KeptOK'
  <2>1. partition' = partition /\ bound' = bound /\ purges' = purges
    BY <1>6 DEF StartPoll, Snapshot, SourceFails, ReadCursor, MissCursor, RefuseCursor, SaveCursor
  <2>2. spent["records"] <= spent'["records"]
    BY <1>1, <1>6, SpendType
    DEF StartPoll, Snapshot, SourceFails, ReadCursor, MissCursor, RefuseCursor, SaveCursor
  <2>3. QED
    BY <2>1, <2>2, KeptAside
<1>7. ASSUME partition' = partition \/ partition' = Appended(partition, Half),
             bound' = bound, purges' = purges, spent["records"] <= spent'["records"]
      PROVE  KeptOK'
  <2>1. CASE partition' = partition
    BY <1>7, <2>1, KeptAside
  <2>2. CASE partition' = Appended(partition, Half)
    <3>1. AppendEffect(Half)
      BY <2>2, HalfIs
    <3>2. QED
      BY <1>7, <3>1, HalfTyped, KeptAppend
  <2>3. QED
    BY <1>7, <2>1, <2>2
<1>8. ASSUME NEW p \in Processes, NEW doc, Restart(p, doc)
      PROVE  KeptOK'
  <2>1. /\ bound' = bound /\ purges' = purges
        /\ partition' = partition \/ partition' = Appended(partition, Half)
    BY <1>8 DEF Restart
  <2>2. spent["records"] <= spent'["records"]
    BY <1>8, SpendType DEF Restart
  <2>3. QED
    BY <1>7, <2>1, <2>2
<1>9. CASE \/ \E t \in Pollers : EmitFails(t)
           \/ \E p \in Processes : WriteFails(p)
           \/ Scramble
  <2>1. /\ bound' = bound /\ purges' = purges
        /\ partition' = partition \/ partition' = Appended(partition, Half)
    BY <1>9 DEF EmitFails, WriteFails, Scramble
  <2>2. spent["records"] <= spent'["records"]
    BY <1>9, SpendType DEF EmitFails, WriteFails, Scramble
  <2>3. QED
    BY <1>7, <2>1, <2>2
<1>10. QED
  BY <1>3, <1>4, <1>5, <1>6, <1>8, <1>9, KeptPurge DEF Next

(***************************************************************************)
(* The theorems.                                                           *)
(***************************************************************************)
IInv == TypeOK /\ TasksOK /\ Recorded /\ Counted /\ KeptOK

LEMMA InvariantInit == Init => IInv
<1> SUFFICES ASSUME Init PROVE IInv
  OBVIOUS
<1>1. TypeOK
  BY TypeInit
<1>2. \A t \in Tasks : task[t] = Idle /\ task[t].pc = "idle"
  BY IdleTyped DEF Init
<1>3. TasksOK
  BY <1>2 DEF TasksOK, OneRunning, EmissionOK, RewriteOK, Running, Emits, Rewrites
<1>4. Accounted = {} /\ spoilt = 0
  BY <1>2, NoneCovers DEF Init, Emits
<1>5. \A s : RecordsIn(partition, s) = {}
  BY DEF Init, RecordsIn
<1>6. Recorded
  BY <1>4 DEF Recorded
<1>7. Cardinality({}) = 0
  BY FS_EmptySet
<1>8. Counted
  BY <1>4, <1>5, <1>7 DEF Counted
<1>9. KeptOK
  <2>1. LostTraces = {} /\ TornLines = {} /\ bound = {} /\ purges = {}
    BY DEF Init, LostTraces, TornLines
  <2>2. QED
    BY <2>1, FS_EmptySet DEF KeptOK, MarksBefore, BoundTraceKept, ExpiredTextGone
<1>10. QED
  BY <1>1, <1>3, <1>6, <1>8, <1>9 DEF IInv

LEMMA Invariant == ASSUME Processes = {Gate} PROVE Spec => []IInv
<1>1. IInv /\ [Next]_vars => IInv'
  BY TypeStep, TasksStep, SourcesStep, KeptStep DEF IInv
<1>2. QED
  BY InvariantInit, <1>1, PTL DEF Spec

(* A source the cursor accounts for has its record, as long as the         *)
(* partition parses: a poll saves the cursor last, and no other poll of    *)
(* the process has come between its reading and its saving.                *)
THEOREM NoSourceSkipped == ASSUME Processes = {Gate} PROVE Spec => []NoSilentGap
<1>1. IInv => NoSilentGap
  <2>1. \A s : RecordsOf(s) = RecordsIn(partition, s)
    BY DEF RecordsOf, RecordsIn
  <2>2. QED
    BY <2>1 DEF IInv, TypeOK, Recorded, NoSilentGap, Accounted
<1>2. QED
  BY Invariant, <1>1, PTL

(* A source is recorded once, and once more at most for each poll that     *)
(* failed or died when it had read the cursor, or whose reading failed.    *)
THEOREM NoRepeats == ASSUME Processes = {Gate} PROVE Spec => []RepeatsOnlyAfterFailure
<1>1. IInv => RepeatsOnlyAfterFailure
  <2>1. SUFFICES ASSUME IInv, NEW s \in Sources
                 PROVE  Cardinality(RecordsOf(s)) <= 1 + spoilt
    BY DEF RepeatsOnlyAfterFailure
  <2>2. RecordsOf(s) = RecordsIn(partition, s)
    BY DEF RecordsOf, RecordsIn
  <2>3. Cardinality(RecordsIn(partition, s)) \in Nat /\ spoilt \in Nat
    BY <2>1, RecordsFinite DEF IInv, TypeOK
  <2>4. Cardinality(RecordsIn(partition, s)) <= spoilt + 1
    BY <2>1 DEF IInv, Counted
  <2>5. QED
    BY <2>2, <2>3, <2>4
<1>2. QED
  BY Invariant, <1>1, PTL

(* The record a receipt names stays in the partition with its hash, through *)
(* purges, failures and deaths, but for one behind each line cut short.    *)
THEOREM BoundRecordsStay == ASSUME Processes = {Gate} PROVE Spec => []BoundTraceKept
<1>1. IInv => BoundTraceKept
  BY DEF IInv, KeptOK
<1>2. QED
  BY Invariant, <1>1, PTL

(* A purge that examined records leaves no text among them that had        *)
(* expired, or is of no known age, and no step brings one back: what a     *)
(* purge is about to write is never older than the partition.              *)
THEOREM ExpiredStaysGone == ASSUME Processes = {Gate} PROVE Spec => []ExpiredTextGone
<1>1. IInv => ExpiredTextGone
  BY DEF IInv, KeptOK
<1>2. QED
  BY Invariant, <1>1, PTL
=============================================================================

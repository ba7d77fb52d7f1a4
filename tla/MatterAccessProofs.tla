-------------------------- MODULE MatterAccessProofs --------------------------
(***************************************************************************)
(* Who may approve, for every firm, roster, ledger and clock: the registry *)
(* is typed and always runs under the document it compiled; a restart      *)
(* decides as the process before it did; what a caller was told of a grant *)
(* or a revoke holds; and nobody decides whom the firm did not name.       *)
(*                                                                         *)
(* All rest on what one more line does to the fold of the ledger           *)
(* (FoldAppend): an epoch line changes no event, and an event is put under *)
(* the epoch that was in force, which is the one the process runs under    *)
(* (Agreement).                                                            *)
(***************************************************************************)
EXTENDS MatterAccess, FiniteSetTheorems, WellFoundedInduction, TLAPS

(***************************************************************************)
(* The fold.                                                               *)
(***************************************************************************)

\* Some position is the last of a set of positions, and Latest is that one.
LEMMA LatestIs ==
  ASSUME NEW n \in Nat, NEW S \in SUBSET (1 .. n), S # {}
  PROVE  Latest(S) \in S /\ \A j \in S : j <= Latest(S)
<1> DEFINE Upto(i) == i .. n
           Left == {Upto(i) : i \in S}
<1>1. Left \subseteq SUBSET (1 .. n) /\ Left # {}
  <2>1. \A i \in S : Upto(i) \in SUBSET (1 .. n)
    OBVIOUS
  <2>2. QED
    BY <2>1
<1>2. IsFiniteSet(1 .. n)
  BY FS_Interval
<1>3. PICK least \in Left : \A y \in Left : ~ (<<y, least>> \in StrictSubsetOrdering(1 .. n))
  <2>1. IsWellFoundedOn(StrictSubsetOrdering(1 .. n), FiniteSubsetsOf(1 .. n))
    BY FS_StrictSubsetOrderingWellFounded
  <2>2. Left \subseteq FiniteSubsetsOf(1 .. n)
    BY <1>1, <1>2, FS_FiniteSubsetsOfFinite
  <2> HIDE DEF Left
  <2>3. QED
    BY <1>1, <2>1, <2>2, WFMin
<1>4. PICK last \in S : least = Upto(last)
  OBVIOUS
<1>5. \A j \in S : j <= last
  <2>1. SUFFICES ASSUME NEW j \in S, last < j
                 PROVE  FALSE
    OBVIOUS
  <2>2. Upto(j) \in Left /\ Upto(j) \subseteq least /\ last \in least /\ last \notin Upto(j)
    BY <1>4, <2>1
  <2>3. Upto(j) \in SUBSET (1 .. n) /\ least \in SUBSET (1 .. n) /\ Upto(j) # least
    BY <1>1, <2>2
  <2> HIDE DEF Left, Upto
  <2>4. <<Upto(j), least>> \in StrictSubsetOrdering(1 .. n)
    BY <2>2, <2>3 DEF StrictSubsetOrdering
  <2>5. QED
    BY <1>3, <2>2, <2>4
<1>6. QED
  BY <1>5 DEF Latest

\* What the two kinds of line hold.
LEMMA LineHolds ==
  ASSUME NEW line \in Line
  PROVE  /\ line.reason = "epoch" => line.document \in Documents
         /\ line.reason # "epoch" =>
              /\ line.reason \in {"grant", "revoke"} /\ line.pair \in Pairs
              /\ line.actor \in Users /\ line.expiry \in Nat
  BY DEF Line

LEMMA EpochAtType ==
  ASSUME NEW lines \in Seq(Line), NEW n \in 0 .. Len(lines)
  PROVE  EpochAt(lines, n) \in Epoch
<1> DEFINE loads == {i \in 1 .. n : lines[i].reason = "epoch"}
<1>1. CASE loads = {}
  BY <1>1 DEF EpochAt, Epoch
<1>2. CASE loads # {}
  <2>1. Latest(loads) \in loads
    <3>1. loads \in SUBSET (1 .. n) /\ n \in Nat
      OBVIOUS
    <3> HIDE DEF loads
    <3>2. QED
      BY <1>2, <3>1, LatestIs
  <2>2. lines[Latest(loads)] \in Line /\ lines[Latest(loads)].reason = "epoch"
    BY <2>1
  <2>3. QED
    BY <1>2, <2>2, LineHolds DEF EpochAt, Epoch
<1>3. QED
  BY <1>1, <1>2

\* A pair with events has a last one.
LEMMA LastEvent ==
  ASSUME NEW lines \in Seq(Line), NEW pair \in Pairs, EventLines(lines, pair) # {}
  PROVE  LET last == Latest(EventLines(lines, pair)) IN
         /\ last \in 1 .. Len(lines)
         /\ lines[last] \in Line /\ lines[last].reason # "epoch" /\ lines[last].pair = pair
<1>1. EventLines(lines, pair) \in SUBSET (1 .. Len(lines)) /\ Len(lines) \in Nat
  BY DEF EventLines
<1>2. Latest(EventLines(lines, pair)) \in EventLines(lines, pair)
  BY <1>1, LatestIs
<1>3. QED
  BY <1>2 DEF EventLines

LEMMA FoldType ==
  ASSUME NEW lines \in Seq(Line)
  PROVE  Fold(lines) \in [Pairs -> Event \cup {NoEvent}]
<1>1. ASSUME NEW pair \in Pairs
      PROVE  Fold(lines)[pair] \in Event \cup {NoEvent}
  <2>1. CASE EventLines(lines, pair) = {}
    BY <2>1 DEF Fold
  <2>2. CASE EventLines(lines, pair) # {}
    <3> DEFINE last == Latest(EventLines(lines, pair))
    <3>1. /\ last \in 1 .. Len(lines) /\ lines[last] \in Line
          /\ lines[last].reason # "epoch"
      BY <2>2, LastEvent
    <3>2. lines[last].reason \in {"grant", "revoke"} /\ lines[last].expiry \in Nat
      BY <3>1, LineHolds
    <3>3. EpochAt(lines, last) \in Epoch
      BY <3>1, EpochAtType
    <3>4. Fold(lines)[pair] = [kind |-> lines[last].reason, epoch |-> EpochAt(lines, last),
                               expiry |-> lines[last].expiry]
      BY <2>2 DEF Fold
    <3> HIDE DEF last
    <3>5. QED
      BY <3>2, <3>3, <3>4 DEF Event
  <2>3. QED
    BY <2>1, <2>2
<1>2. QED
  BY <1>1 DEF Fold

\* The epoch in force at a position is not changed by what is written after it.
LEMMA EpochBefore ==
  ASSUME NEW lines \in Seq(Line), NEW line \in Line, NEW n \in 0 .. Len(lines)
  PROVE  EpochAt(Append(lines, line), n) = EpochAt(lines, n)
<1> DEFINE more == Append(lines, line)
<1>1. \A i \in 1 .. n : more[i] = lines[i]
  OBVIOUS
<1> DEFINE loads == {i \in 1 .. n : lines[i].reason = "epoch"}
           loadsOfMore == {i \in 1 .. n : more[i].reason = "epoch"}
<1> HIDE DEF more
<1>2. loads = loadsOfMore
  BY <1>1
<1>3. loads # {} => more[Latest(loads)] = lines[Latest(loads)]
  <2>1. HAVE loads # {}
  <2>2. Latest(loads) \in loads
    <3>1. loads \in SUBSET (1 .. n) /\ n \in Nat
      OBVIOUS
    <3> HIDE DEF loads
    <3>2. QED
      BY <2>1, <3>1, LatestIs
  <2>3. QED
    BY <1>1, <2>2
<1>4. EpochAt(more, n) = EpochAt(lines, n)
  BY <1>2, <1>3 DEF EpochAt
<1>5. QED
  BY <1>4 DEF more

\* One more line: an epoch line opens its document's epoch and changes no event; any
\* other changes the event of its pair alone, under the epoch that was in force.
LEMMA FoldAppend ==
  ASSUME NEW lines \in Seq(Line), NEW line \in Line
  PROVE  LET more == Append(lines, line) IN
         /\ line.reason = "epoch" =>
              /\ Fold(more) = Fold(lines)
              /\ EpochAt(more, Len(more)) = line.document
         /\ line.reason # "epoch" =>
              /\ Fold(more) = [Fold(lines) EXCEPT ![line.pair] =
                   [kind |-> line.reason, epoch |-> EpochAt(lines, Len(lines)), expiry |-> line.expiry]]
              /\ EpochAt(more, Len(more)) = EpochAt(lines, Len(lines))
<1> DEFINE more == Append(lines, line)
           n == Len(lines)
<1>1. /\ more \in Seq(Line) /\ n \in Nat /\ Len(more) = n + 1 /\ more[n + 1] = line
      /\ \A i \in 1 .. n : more[i] = lines[i]
  OBVIOUS
<1>2. \A k \in 0 .. n : EpochAt(more, k) = EpochAt(lines, k)
  BY EpochBefore
<1> HIDE DEF more, n
<1>3. 1 .. (n + 1) = (1 .. n) \cup {n + 1}
  BY <1>1
<1>4. \A S \in SUBSET (1 .. n + 1) : n + 1 \in S => Latest(S) = n + 1
  <2>1. TAKE S \in SUBSET (1 .. n + 1)
  <2>2. HAVE n + 1 \in S
  <2>3. n + 1 \in Nat /\ S # {}
    BY <1>1, <2>2
  <2>4. Latest(S) \in S /\ n + 1 <= Latest(S)
    <3> DEFINE end == n + 1
    <3>1. end \in Nat /\ S \in SUBSET (1 .. end) /\ S # {} /\ end \in S
      BY <2>2, <2>3
    <3> HIDE DEF end
    <3>2. Latest(S) \in S /\ end <= Latest(S)
      BY <3>1, LatestIs
    <3>3. QED
      BY <3>2 DEF end
  <2>5. Latest(S) \in 1 .. n + 1
    BY <2>4
  <2>6. QED
    BY <1>1, <2>4, <2>5
<1>5. \A pair \in Pairs :
        EventLines(more, pair) = IF line.reason # "epoch" /\ line.pair = pair
                                 THEN EventLines(lines, pair) \cup {n + 1} ELSE EventLines(lines, pair)
  BY <1>1, <1>3 DEF EventLines, n
<1>6. ASSUME NEW pair \in Pairs, EventLines(more, pair) = EventLines(lines, pair)
      PROVE  Fold(more)[pair] = Fold(lines)[pair]
  <2>1. CASE EventLines(lines, pair) = {}
    BY <1>6, <2>1 DEF Fold
  <2>2. CASE EventLines(lines, pair) # {}
    <3> DEFINE last == Latest(EventLines(lines, pair))
    <3>1. last \in 1 .. n
      BY <2>2, LastEvent DEF n
    <3>2. more[last] = lines[last] /\ EpochAt(more, last) = EpochAt(lines, last)
      BY <1>1, <1>2, <3>1
    <3>3. /\ Fold(more)[pair] = [kind |-> more[last].reason, epoch |-> EpochAt(more, last),
                                 expiry |-> more[last].expiry]
          /\ Fold(lines)[pair] = [kind |-> lines[last].reason, epoch |-> EpochAt(lines, last),
                                  expiry |-> lines[last].expiry]
      BY <1>6, <2>2 DEF Fold
    <3>4. QED
      BY <3>2, <3>3
  <2>3. QED
    BY <2>1, <2>2
<1>7. Fold(more) = [pair \in Pairs |-> Fold(more)[pair]] /\ Fold(lines) = [pair \in Pairs |-> Fold(lines)[pair]]
  BY DEF Fold
<1>8. CASE line.reason = "epoch"
  <2>1. \A pair \in Pairs : Fold(more)[pair] = Fold(lines)[pair]
    BY <1>5, <1>6, <1>8
  <2>2. Fold(more) = Fold(lines)
    BY <1>7, <2>1
  <2> DEFINE loads == {i \in 1 .. n + 1 : more[i].reason = "epoch"}
  <2>3. n + 1 \in loads /\ loads \in SUBSET (1 .. n + 1)
    BY <1>1, <1>8
  <2>4. Latest(loads) = n + 1 /\ loads # {}
    <3> HIDE DEF loads
    <3> QED
      BY <1>4, <2>3
  <2>5. EpochAt(more, n + 1) = line.document
    BY <1>1, <2>4 DEF EpochAt
  <2>6. QED
    BY <1>1, <1>8, <2>2, <2>5 DEF more
<1>9. CASE line.reason # "epoch"
  <2> DEFINE event == [kind |-> line.reason, epoch |-> EpochAt(lines, n), expiry |-> line.expiry]
             loads == {i \in 1 .. n : lines[i].reason = "epoch"}
             loadsOfMore == {i \in 1 .. n + 1 : more[i].reason = "epoch"}
  <2>1. loads = loadsOfMore
    BY <1>1, <1>3, <1>9
  <2>2. loads # {} => more[Latest(loads)] = lines[Latest(loads)]
    <3>1. HAVE loads # {}
    <3>2. loads \in SUBSET (1 .. n)
      OBVIOUS
    <3>3. Latest(loads) \in 1 .. n
      <4> HIDE DEF loads
      <4> QED
        BY <1>1, <3>1, <3>2, LatestIs
    <3>4. QED
      BY <1>1, <3>3
  <2>3. EpochAt(more, n + 1) = EpochAt(lines, n)
    BY <2>1, <2>2 DEF EpochAt
  <2>4. more[n + 1] = line /\ EpochAt(more, n + 1) = EpochAt(lines, n) /\ line.pair \in Pairs
    BY <1>1, <1>9, <2>3, LineHolds
  <2>5. Fold(more)[line.pair] = event
    <3> DEFINE own == EventLines(more, line.pair)
    <3>1. n + 1 \in own /\ own \in SUBSET (1 .. n + 1)
      BY <1>1, <1>5, <1>9, <2>4 DEF EventLines
    <3>2. Latest(own) = n + 1 /\ own # {}
      <4> HIDE DEF own
      <4> QED
        BY <1>4, <3>1
    <3>3. QED
      BY <2>4, <3>2 DEF Fold
  <2>6. \A pair \in Pairs : pair # line.pair => Fold(more)[pair] = Fold(lines)[pair]
    BY <1>5, <1>6
  <2> HIDE DEF event
  <2>7. Fold(more) = [Fold(lines) EXCEPT ![line.pair] = event]
    BY <1>7, <2>4, <2>5, <2>6
  <2>8. QED
    BY <1>1, <1>9, <2>3, <2>7 DEF more, n, event
<1>10. QED
  BY <1>8, <1>9

(***************************************************************************)
(* Type correctness.                                                       *)
(***************************************************************************)
LEMMA StartsAre ==
  ASSUME NEW document, NEW directory, <<document, directory>> \in Starts
  PROVE  /\ document \in Documents /\ directory \in Directories
         /\ Compiles(Says[document], Found[directory])
  BY DEF Starts

LEMMA DownType == GateDown \in Gate /\ ~GateDown.up
  BY DEF GateDown, Gate, Epoch

\* A boot that finds a torn ledger leaves a process that denies everything; the others
\* one that runs under the document as it is.
LEMMA BootTypes ==
  ASSUME TypeOK, NEW directory \in Directories, <<roster, directory>> \in Starts
  PROVE  /\ DenyAll(directory) \in Gate /\ DenyAll(directory).up /\ DenyAll(directory).corrupt
         /\ DenyAll(directory).baseline = roster /\ DenyAll(directory).directory = directory
         /\ Registry(roster, directory) \in Gate
         /\ Registry(roster, directory).up /\ ~Registry(roster, directory).corrupt
         /\ Registry(roster, directory).baseline = roster
         /\ Registry(roster, directory).directory = directory
         /\ Registry(roster, directory).epoch = roster
         /\ Registry(roster, directory).events = Fold(chain)
<1>1. roster \in Documents /\ roster \in Epoch /\ chain \in Seq(Line)
  BY DEF TypeOK, Epoch
<1>2. Fold(chain) \in [Pairs -> Event \cup {NoEvent}]
  BY <1>1, FoldType
<1>3. Registry(roster, directory) \in Gate
  BY <1>1, <1>2 DEF Registry, Gate
<1>4. DenyAll(directory) \in Gate
  BY <1>1, DownType DEF DenyAll, Gate
<1>5. /\ DenyAll(directory).up /\ DenyAll(directory).corrupt
      /\ DenyAll(directory).baseline = roster /\ DenyAll(directory).directory = directory
  BY DownType DEF DenyAll, Gate
<1>6. QED
  BY <1>3, <1>4, <1>5 DEF Registry

LEMMA ChangeLineType ==
  ASSUME NEW pair \in Pairs, NEW actor \in Users, NEW expiry \in Nat
  PROVE  /\ ChangeLine("grant", pair, actor, expiry) \in Line
         /\ ChangeLine("revoke", pair, actor, expiry) \in Line
  BY DEF ChangeLine, Line

\* A grant or a revoke, by what it does.
LEMMA ChangeTypes ==
  ASSUME TypeOK, Decides, NEW pair \in Pairs, NEW actor \in Users, NEW expiry \in Nat, NEW result,
         NEW kind \in {"grant", "revoke"},
         Appended(result, ChangeLine(kind, pair, actor, expiry)),
         Applied(result, pair, kind, expiry), UNCHANGED <<roster, torn, clock>>
  PROVE  TypeOK'
<1>1. /\ gate \in Gate /\ gate.baseline \in Documents /\ gate.epoch \in Epoch
      /\ <<gate.baseline, gate.directory>> \in Starts /\ gate.epoch = gate.baseline
      /\ gate.up /\ ~gate.corrupt
  BY StartsAre DEF TypeOK, Decides, Gate
<1>2. ChangeLine(kind, pair, actor, expiry) \in Line
  BY ChangeLineType
<1>3. chain' \in Seq(Line) /\ faults' \in Nat
  BY <1>2 DEF Appended, TypeOK
<1>4. [kind |-> kind, epoch |-> gate.epoch, expiry |-> expiry] \in Event
  BY <1>1 DEF Event
<1>5. [kind |-> kind, document |-> gate.baseline, expiry |-> expiry] \in Answer
  BY <1>1 DEF Answer
<1>6. CASE result = "ok"
  <2> DEFINE event == [kind |-> kind, epoch |-> gate.epoch, expiry |-> expiry]
  <2>1. event \in Event
    BY <1>4
  <2> HIDE DEF event
  <2>2. gate' = [gate EXCEPT !.events[pair] = event]
    BY <1>6 DEF Applied, event
  <2>3. /\ gate' \in Gate /\ gate'.up /\ ~gate'.corrupt /\ gate'.baseline = gate.baseline
        /\ gate'.directory = gate.directory /\ gate'.epoch = gate.epoch
    BY <1>1, <2>1, <2>2 DEF Gate
  <2>4. answered' \in [Pairs -> Answer \cup {NoEvent}]
    BY <1>5, <1>6 DEF Applied, TypeOK
  <2>5. QED
    BY <1>1, <1>3, <2>3, <2>4 DEF TypeOK
<1>7. CASE result # "ok"
  <2>1. gate' = [gate EXCEPT !.failed = TRUE]
    BY <1>7 DEF Applied
  <2>2. /\ gate' \in Gate /\ gate'.up /\ ~gate'.corrupt /\ gate'.baseline = gate.baseline
        /\ gate'.directory = gate.directory /\ gate'.epoch = gate.epoch
    BY <1>1, <2>1 DEF Gate
  <2>3. answered' \in [Pairs -> Answer \cup {NoEvent}]
    BY <1>7 DEF Applied, TypeOK
  <2>4. QED
    BY <1>1, <1>3, <2>2, <2>3 DEF TypeOK
<1>8. QED
  BY <1>6, <1>7

\* A boot leaves no gate, or one that denies everything, or one with a new registry;
\* it appends the document's epoch or nothing.
LEMMA BootDoes ==
  ASSUME TypeOK, NEW directory \in Directories, NEW result, Boot(directory, result)
  PROVE  /\ <<roster, directory>> \in Starts
         /\ UNCHANGED <<roster, torn, clock, answered>>
         /\ faults' \in Nat
         /\ [reason |-> "epoch", document |-> roster] \in Line
         /\ \/ gate' = DenyAll(directory) /\ chain' = chain
            \/ gate' = GateDown /\ chain' = chain
            \/ /\ gate' = GateDown \/ gate' = Registry(roster, directory)
               /\ chain' = Append(chain, [reason |-> "epoch", document |-> roster])
<1>1. roster \in Documents /\ faults \in Nat
  BY DEF TypeOK
<1>2. [reason |-> "epoch", document |-> roster] \in Line
  BY <1>1 DEF Line
<1>3. QED
  BY <1>1, <1>2 DEF Boot, Appended

LEMMA TypeStep == TypeOK /\ [Next]_vars => TypeOK'
<1> SUFFICES ASSUME TypeOK, [Next]_vars
             PROVE  TypeOK'
  OBVIOUS
<1>1. ASSUME NEW pair \in Pairs, NEW actor \in Users, NEW result, NEW expiry \in 1 .. MaxTime,
             Grant(pair, actor, expiry, result)
      PROVE  TypeOK'
  BY <1>1, ChangeTypes, BoundAssumption DEF Grant, Decides
<1>2. ASSUME NEW pair \in Pairs, NEW actor \in Users, NEW result, Revoke(pair, actor, result)
      PROVE  TypeOK'
  BY <1>2, ChangeTypes DEF Revoke, Decides
<1>3. ASSUME NEW directory \in Directories, NEW result, Boot(directory, result)
      PROVE  TypeOK'
  <2>1. /\ gate' = DenyAll(directory) \/ gate' = GateDown \/ gate' = Registry(roster, directory)
        /\ gate' \in Gate /\ chain' \in Seq(Line)
    <3>1. gate' = DenyAll(directory) \/ gate' = GateDown \/ gate' = Registry(roster, directory)
      BY <1>3, BootDoes
    <3>2. DenyAll(directory) \in Gate /\ GateDown \in Gate /\ Registry(roster, directory) \in Gate
      BY <1>3, BootDoes, BootTypes, DownType
    <3>3. chain' \in Seq(Line)
      <4>1. chain \in Seq(Line)
        BY DEF TypeOK
      <4>2. \E line \in Line : chain' = chain \/ chain' = Append(chain, line)
        BY <1>3, BootDoes
      <4>3. QED
        BY <4>1, <4>2
    <3>4. QED
      BY <3>1, <3>2, <3>3
  <2>2. /\ gate'.up => gate'.baseline = roster /\ gate'.directory = directory
        /\ gate'.up /\ ~gate'.corrupt => gate'.epoch = gate'.baseline
    BY <1>3, <2>1, BootDoes, BootTypes, DownType
  <2>3. QED
    BY <1>3, <2>1, <2>2, BootDoes DEF TypeOK
<1>4. ASSUME Stop \/ PowerLoss
      PROVE  TypeOK'
  <2>1. gate' = GateDown
    BY <1>4 DEF Stop, PowerLoss
  <2>2. faults' \in Nat /\ torn' \in BOOLEAN
    <3>1. faults' = faults \/ faults' = faults + 1
      BY <1>4 DEF Stop, PowerLoss
    <3>2. torn' = torn \/ torn' = TRUE
      BY <1>4 DEF Stop, PowerLoss
    <3>3. faults \in Nat /\ torn \in BOOLEAN
      BY DEF TypeOK
    <3>4. faults' \in Nat
      BY <3>1, <3>3
    <3>5. QED
      BY <3>2, <3>3, <3>4
  <2>3. UNCHANGED <<roster, chain, clock, answered>>
    BY <1>4 DEF Stop, PowerLoss
  <2>4. QED
    BY <2>1, <2>2, <2>3, DownType DEF TypeOK
<1>5. ASSUME NEW document \in Documents, EditRoster(document)
      PROVE  TypeOK'
  BY <1>5 DEF EditRoster, TypeOK
<1>6. ASSUME NEW time \in 0 .. MaxTime, SetClock(time)
      PROVE  TypeOK'
  BY <1>6, BoundAssumption DEF SetClock, TypeOK
<1>7. CASE TruncateTail
  BY <1>7 DEF TruncateTail, TypeOK
<1>8. CASE UNCHANGED vars
  BY <1>8 DEF vars, TypeOK
<1>9. QED
  BY <1>1, <1>2, <1>3, <1>4, <1>5, <1>6, <1>7, <1>8 DEF Next, RefusesToStart

\* Every variable stays in its type; a process runs under a document that compiled
\* against what Paperclip listed, and, unless it denies everything, under its epoch.
THEOREM TypeCorrect == Spec => []TypeOK
<1>1. Init => TypeOK
  <2>1. Init => chain \in Seq(Line) /\ answered \in [Pairs -> Answer \cup {NoEvent}]
    BY DEF Init
  <2>2. Init => gate \in Gate /\ ~gate.up
    BY DownType DEF Init
  <2>3. Init => roster \in Documents /\ torn \in BOOLEAN /\ clock \in Nat /\ faults \in Nat
    <3>1. Init => roster \in Documents /\ clock = 0 /\ faults = 0
      BY Zenon DEF Init
    <3>2. Init => torn \in BOOLEAN
      BY Zenon DEF Init
    <3>3. QED
      BY <3>1, <3>2
  <2>4. QED
    BY <2>1, <2>2, <2>3 DEF TypeOK
<1>2. QED
  BY <1>1, TypeStep, PTL DEF Spec

(***************************************************************************)
(* Memory, ledger and answers.                                             *)
(***************************************************************************)

\* The answer a caller got and the event a fold yields say the same.
Matches(answer, event) ==
  /\ event # NoEvent
  /\ event.kind = answer.kind /\ event.expiry = answer.expiry /\ event.epoch = answer.document

\* The process runs under the last epoch of the ledger; until an append fails, its
\* events are the fold; and where the caller holds an answer, they are, even after
\* an append for another pair failed, because a failure takes back the answer of its
\* own pair.
Agreement ==
  /\ Decides => gate.epoch = EpochAt(chain, Len(chain))
  /\ Decides /\ ~gate.failed => gate.events = Fold(chain)
  /\ \A pair \in Pairs : answered[pair] # NoEvent =>
       /\ Matches(answered[pair], Fold(chain)[pair])
       /\ Decides => gate.events[pair] = Fold(chain)[pair]

EventUnder(epoch, kind, expiry) == [kind |-> kind, epoch |-> epoch, expiry |-> expiry]
AnswerUnder(document, kind, expiry) == [kind |-> kind, document |-> document, expiry |-> expiry]

\* What a change does when its append succeeds, is stored but throws, or is lost.
ChangeEffect(pair, actor, expiry, kind, result) ==
  /\ Decides' /\ gate'.epoch = gate.epoch /\ gate'.baseline = gate.baseline
  /\ \/ /\ chain' = Append(chain, ChangeLine(kind, pair, actor, expiry))
        /\ Fold(chain') = [Fold(chain) EXCEPT ![pair] =
                             EventUnder(EpochAt(chain, Len(chain)), kind, expiry)]
        /\ EpochAt(chain', Len(chain')) = EpochAt(chain, Len(chain))
     \/ result # "ok" /\ chain' = chain
  /\ \/ /\ result = "ok" /\ gate'.failed = gate.failed
        /\ gate'.events = [gate.events EXCEPT ![pair] = EventUnder(gate.epoch, kind, expiry)]
        /\ answered' = [answered EXCEPT ![pair] = AnswerUnder(gate.epoch, kind, expiry)]
     \/ /\ gate'.failed /\ gate'.events = gate.events
        /\ answered' = [answered EXCEPT ![pair] = NoEvent]

LEMMA ChangeDoes ==
  ASSUME TypeOK, Decides, NEW pair \in Pairs, NEW actor \in Users, NEW expiry \in Nat, NEW result,
         NEW kind \in {"grant", "revoke"},
         Appended(result, ChangeLine(kind, pair, actor, expiry)),
         Applied(result, pair, kind, expiry)
  PROVE  ChangeEffect(pair, actor, expiry, kind, result)
<1> DEFINE line  == ChangeLine(kind, pair, actor, expiry)
           event == EventUnder(EpochAt(chain, Len(chain)), kind, expiry)
<1>1. /\ line \in Line /\ line.reason = kind /\ line.reason # "epoch" /\ line.pair = pair
      /\ line.expiry = expiry
  BY ChangeLineType DEF ChangeLine
<1>2. chain \in Seq(Line) /\ gate \in Gate /\ gate.up /\ ~gate.corrupt /\ gate.epoch = gate.baseline
  BY DEF TypeOK, Decides
<1>3. chain' = Append(chain, line) =>
        /\ Fold(chain') = [Fold(chain) EXCEPT ![pair] = event]
        /\ EpochAt(chain', Len(chain')) = EpochAt(chain, Len(chain))
  <2> HIDE DEF line
  <2>1. HAVE chain' = Append(chain, line)
  <2>2. QED
    BY <1>1, <1>2, <2>1, FoldAppend DEF EventUnder
<1>4. chain' = Append(chain, line) \/ (result # "ok" /\ chain' = chain)
  BY DEF Appended
<1>5. CASE result = "ok"
  <2> DEFINE new == EventUnder(gate.epoch, kind, expiry)
  <2>1. gate' = [gate EXCEPT !.events[pair] = new]
    BY <1>5 DEF Applied, EventUnder
  <2>2. answered' = [answered EXCEPT ![pair] = AnswerUnder(gate.epoch, kind, expiry)]
    BY <1>2, <1>5 DEF Applied, AnswerUnder
  <2> HIDE DEF new, line, event
  <2>3. /\ gate'.up = gate.up /\ gate'.corrupt = gate.corrupt /\ gate'.epoch = gate.epoch
        /\ gate'.baseline = gate.baseline /\ gate'.failed = gate.failed
        /\ gate'.events = [gate.events EXCEPT ![pair] = new]
    BY <1>2, <2>1 DEF Gate
  <2>4. Decides'
    BY <1>2, <2>3 DEF Decides
  <2>5. QED
    BY <1>3, <1>4, <1>5, <2>2, <2>3, <2>4 DEF ChangeEffect, new, line, event
<1>6. CASE result # "ok"
  <2>1. gate' = [gate EXCEPT !.failed = TRUE] /\ answered' = [answered EXCEPT ![pair] = NoEvent]
    BY <1>6 DEF Applied
  <2> HIDE DEF line, event
  <2>2. /\ gate'.up = gate.up /\ gate'.corrupt = gate.corrupt /\ gate'.epoch = gate.epoch
        /\ gate'.baseline = gate.baseline /\ gate'.failed = TRUE
        /\ gate'.events = gate.events
    BY <1>2, <2>1 DEF Gate
  <2>3. Decides'
    BY <1>2, <2>2 DEF Decides
  <2>4. QED
    BY <1>3, <1>4, <1>6, <2>1, <2>2, <2>3 DEF ChangeEffect, line, event
<1>7. QED
  BY <1>5, <1>6

LEMMA ChangeAgrees ==
  ASSUME TypeOK, Agreement, Decides, NEW pair \in Pairs, NEW actor \in Users, NEW expiry \in Nat,
         NEW result, NEW kind \in {"grant", "revoke"},
         Appended(result, ChangeLine(kind, pair, actor, expiry)),
         Applied(result, pair, kind, expiry)
  PROVE  Agreement'
<1> DEFINE event  == EventUnder(EpochAt(chain, Len(chain)), kind, expiry)
           answer == AnswerUnder(gate.epoch, kind, expiry)
<1>1. /\ gate \in Gate /\ gate.events \in [Pairs -> Event \cup {NoEvent}]
      /\ answered \in [Pairs -> Answer \cup {NoEvent}]
      /\ chain \in Seq(Line) /\ Fold(chain) \in [Pairs -> Event \cup {NoEvent}]
  BY FoldType DEF TypeOK, Gate
<1>0. ChangeEffect(pair, actor, expiry, kind, result)
  BY ChangeDoes
<1>2. /\ Decides' /\ gate'.epoch = gate.epoch
      /\ gate.epoch = EpochAt(chain, Len(chain))
      /\ ~gate.failed => gate.events = Fold(chain)
      /\ \A other \in Pairs : answered[other] # NoEvent =>
           Matches(answered[other], Fold(chain)[other]) /\ gate.events[other] = Fold(chain)[other]
  BY <1>0 DEF Agreement, ChangeEffect
<1>3. \/ /\ Fold(chain') = [Fold(chain) EXCEPT ![pair] = event]
         /\ EpochAt(chain', Len(chain')) = EpochAt(chain, Len(chain))
      \/ result # "ok" /\ chain' = chain
  BY <1>0 DEF ChangeEffect
<1>4. \/ /\ result = "ok" /\ gate'.failed = gate.failed
         /\ gate'.events = [gate.events EXCEPT ![pair] = event]
         /\ answered' = [answered EXCEPT ![pair] = answer]
      \/ /\ gate'.failed /\ gate'.events = gate.events
         /\ answered' = [answered EXCEPT ![pair] = NoEvent]
  BY <1>2, <1>0 DEF ChangeEffect
<1>5. event \in Event /\ event # NoEvent /\ Matches(answer, event)
  <2>1. gate.epoch \in Epoch
    BY <1>1 DEF Gate
  <2>2. event \in Event
    BY <1>2, <2>1 DEF Event, EventUnder
  <2>3. event # NoEvent
    BY <2>2, NoEventAssumption
  <2>4. QED
    BY <1>2, <2>2, <2>3 DEF Matches, EventUnder, AnswerUnder
<1> HIDE DEF event, answer
<1>6. EpochAt(chain', Len(chain')) = EpochAt(chain, Len(chain))
  BY <1>3
<1>7. ~gate'.failed => gate'.events = Fold(chain')
  BY <1>2, <1>3, <1>4
<1>8. ASSUME NEW other \in Pairs, answered'[other] # NoEvent
      PROVE  Matches(answered'[other], Fold(chain')[other]) /\ gate'.events[other] = Fold(chain')[other]
  <2>1. CASE other = pair
    <3>1. /\ answered'[pair] = answer /\ gate'.events[pair] = event /\ Fold(chain')[pair] = event
      BY <1>1, <1>3, <1>4, <1>8, <2>1
    <3>2. QED
      BY <1>5, <2>1, <3>1
  <2>2. CASE other # pair
    <3>1. answered'[other] = answered[other] /\ gate'.events[other] = gate.events[other]
      BY <1>1, <1>4, <2>2
    <3>2. Fold(chain')[other] = Fold(chain)[other]
      BY <1>1, <1>3, <2>2
    <3>3. QED
      BY <1>2, <1>8, <3>1, <3>2
  <2>3. QED
    BY <2>1, <2>2
<1>9. QED
  BY <1>2, <1>6, <1>7, <1>8 DEF Agreement, Matches

\* A process that starts has the fold of the ledger, and its own epoch line last.
LEMMA BootAgrees ==
  ASSUME TypeOK, Agreement, NEW directory \in Directories, NEW result, Boot(directory, result)
  PROVE  Agreement'
<1> DEFINE line == [reason |-> "epoch", document |-> roster]
<1>1. chain \in Seq(Line) /\ answered' = answered
  BY BootDoes DEF TypeOK
<1>2. line \in Line /\ line.reason = "epoch" /\ line.document = roster
  BY BootDoes
<1>3. \/ ~Decides' /\ chain' = chain
      \/ /\ ~Decides' \/ gate' = Registry(roster, directory)
         /\ chain' = Append(chain, line)
  BY BootDoes, BootTypes, DownType DEF Decides
<1>4. gate' = Registry(roster, directory) => gate'.epoch = roster /\ gate'.events = Fold(chain)
  BY DEF Registry
<1> HIDE DEF line
<1>5. chain' = Append(chain, line) =>
        Fold(chain') = Fold(chain) /\ EpochAt(chain', Len(chain')) = roster
  BY <1>1, <1>2, FoldAppend
<1>6. Fold(chain') = Fold(chain)
  BY <1>3, <1>5
<1>7. Decides' => gate'.epoch = EpochAt(chain', Len(chain')) /\ gate'.events = Fold(chain')
  BY <1>3, <1>4, <1>5
<1>8. \A pair \in Pairs : answered[pair] # NoEvent => Matches(answered[pair], Fold(chain)[pair])
  BY DEF Agreement
<1>9. QED
  BY <1>1, <1>6, <1>7, <1>8 DEF Agreement, Matches

LEMMA AgreementStep == TypeOK /\ Agreement /\ [Next]_vars => Agreement'
<1> SUFFICES ASSUME TypeOK, Agreement, [Next]_vars
             PROVE  Agreement'
  OBVIOUS
<1>1. ASSUME NEW pair \in Pairs, NEW actor \in Users, NEW result, NEW expiry \in 1 .. MaxTime,
             Grant(pair, actor, expiry, result)
      PROVE  Agreement'
  BY <1>1, ChangeAgrees, BoundAssumption DEF Grant, Decides
<1>2. ASSUME NEW pair \in Pairs, NEW actor \in Users, NEW result, Revoke(pair, actor, result)
      PROVE  Agreement'
  BY <1>2, ChangeAgrees DEF Revoke, Decides
<1>3. ASSUME NEW directory \in Directories, NEW result, Boot(directory, result)
      PROVE  Agreement'
  BY <1>3, BootAgrees
<1>4. ASSUME Stop \/ PowerLoss
      PROVE  Agreement'
  <2>1. ~Decides' /\ chain' = chain /\ answered' = answered
    BY <1>4, DownType DEF Stop, PowerLoss, Decides
  <2>2. QED
    BY <2>1 DEF Agreement, Matches
<1>5. ASSUME gate' = gate, chain' = chain, answered' = answered
      PROVE  Agreement'
  BY <1>5 DEF Agreement, Matches, Decides
<1>6. \/ \E document \in Documents : EditRoster(document)
      \/ \E time \in 0 .. MaxTime : SetClock(time)
      \/ TruncateTail
      \/ \E directory \in Directories : RefusesToStart(directory)
      \/ UNCHANGED vars
      => gate' = gate /\ chain' = chain /\ answered' = answered
  BY DEF EditRoster, SetClock, TruncateTail, RefusesToStart, vars
<1>7. QED
  BY <1>1, <1>2, <1>3, <1>4, <1>5, <1>6 DEF Next

LEMMA AgreementInvariant == Spec => [](TypeOK /\ Agreement)
<1>1. Init => Agreement
  <2>1. Init => ~Decides /\ \A pair \in Pairs : answered[pair] = NoEvent
    BY DownType DEF Init, Decides
  <2>2. QED
    BY <2>1 DEF Agreement
<1>2. QED
  BY <1>1, TypeCorrect, AgreementStep, PTL DEF Spec

\* Unless an append of its life threw, a process decides as one that starts now and
\* folds the ledger would, however often the gate restarted before.
THEOREM RestartsAgree == Spec => []RestartAgrees
<1>1. Agreement => RestartAgrees
  BY DEF Agreement, RestartAgrees
<1>2. QED
  BY <1>1, AgreementInvariant, PTL

\* A revoke that was answered holds until a later grant, or until a gate runs with
\* another document that lists the pair.
THEOREM RevokesHold == Spec => []RevokeHolds
<1>1. ASSUME TypeOK, Agreement
      PROVE  RevokeHolds
  <2>1. SUFFICES ASSUME NEW pair \in Pairs, answered[pair] # NoEvent, answered[pair].kind = "revoke",
                        gate.up, gate.baseline \in Enforced, NEW b \in Boundaries,
                        CheckApprover(pair[1], b, {pair[2]})
                 PROVE  gate.baseline # answered[pair].document /\ BaselineGrants(pair)
    BY DEF RevokeHolds
  <2>2. HasDecisionAuthority(pair[1], b) /\ IsEntitled(pair[1], pair[2])
    BY <2>1 DEF CheckApprover
  <2>3. Decides /\ gate.epoch = gate.baseline
    <3>1. Decides
      BY <2>1, <2>2 DEF HasDecisionAuthority, Decides
    <3>2. QED
      BY <1>1, <3>1 DEF TypeOK, Decides
  <2>4. pair = <<pair[1], pair[2]>>
    BY DEF Pairs
  <2>5. Matches(answered[pair], gate.events[pair])
    BY <2>1, <2>3, <1>1 DEF Agreement
  <2>6. QED
    BY <2>1, <2>2, <2>3, <2>4, <2>5 DEF IsEntitled, Matches
<1>2. QED
  BY <1>1, AgreementInvariant, PTL

\* A grant that was answered holds exactly until it expires, or as long as the roster
\* lists the pair.
THEOREM GrantsHold == Spec => []GrantUntilExpiry
<1>1. ASSUME TypeOK, Agreement
      PROVE  GrantUntilExpiry
  <2>1. SUFFICES ASSUME NEW pair \in Pairs, answered[pair] # NoEvent, answered[pair].kind = "grant",
                        Decides
                 PROVE  IsEntitled(pair[1], pair[2])
                          <=> clock < answered[pair].expiry \/ BaselineGrants(pair)
    BY DEF GrantUntilExpiry
  <2>2. pair = <<pair[1], pair[2]>>
    BY DEF Pairs
  <2>3. Matches(answered[pair], gate.events[pair])
    BY <2>1, <1>1 DEF Agreement
  <2>4. QED
    BY <2>1, <2>2, <2>3 DEF IsEntitled, Matches, Decides
<1>2. QED
  BY <1>1, AgreementInvariant, PTL

(***************************************************************************)
(* Nobody whom the firm did not name.                                      *)
(***************************************************************************)

(***************************************************************************)
(* Nobody whom the firm did not name.                                      *)
(***************************************************************************)

\* Of one match, the first is the only one.
LEMMA OnlyMatch ==
  ASSUME NEW n \in Nat, NEW S \in SUBSET (1 .. n), ResolvesExactlyOne(S)
  PROVE  S = {First(S)}
<1>1. IsFiniteSet(S)
  <2>1. IsFiniteSet(1 .. n)
    BY FS_Interval
  <2>2. QED
    BY <2>1, FS_Subset
<1>2. PICK x : S = {x}
  BY <1>1, FS_Singleton DEF ResolvesExactlyOne
<1>3. x \in 1 .. n
  BY <1>2
<1>4. First(S) = x
  BY <1>2, <1>3 DEF First
<1>5. QED
  BY <1>2, <1>4

\* The only user with an address that resolves to one, and the only matter with such
\* an identifier.
LEMMA OnlyResolved ==
  ASSUME NEW f \in Directories
  PROVE  /\ \A address : ResolvesExactlyOne(UsersByEmail(Found[f], Lower(address))) =>
              {Found[f].members[i].id : i \in UsersByEmail(Found[f], Lower(address))}
                = {UserOf(Found[f], address)}
         /\ \A identifier : ResolvesExactlyOne(IssuesByIdentifier(Found[f], identifier)) =>
              {Found[f].issues[i].id : i \in IssuesByIdentifier(Found[f], identifier)}
                = {MatterOf(Found[f], identifier)}
<1> DEFINE found == Found[f]
<1>1. /\ found.members \in Seq(Range(found.members))
      /\ found.issues \in Seq(Range(found.issues))
  BY RosterAssumption
<1>2. /\ Len(found.members) \in Nat /\ DOMAIN found.members = 1 .. Len(found.members)
      /\ Len(found.issues) \in Nat /\ DOMAIN found.issues = 1 .. Len(found.issues)
  BY <1>1
<1> HIDE DEF found
<1>3. ASSUME NEW address, ResolvesExactlyOne(UsersByEmail(found, Lower(address)))
      PROVE  {found.members[i].id : i \in UsersByEmail(found, Lower(address))} = {UserOf(found, address)}
  <2> DEFINE matches == UsersByEmail(found, Lower(address))
  <2>1. matches \in SUBSET (1 .. Len(found.members))
    BY <1>2 DEF UsersByEmail
  <2>2. ResolvesExactlyOne(matches) /\ UserOf(found, address) = found.members[First(matches)].id
    BY <1>3 DEF UserOf
  <2> HIDE DEF matches
  <2>3. matches = {First(matches)}
    BY <1>2, <2>1, <2>2, OnlyMatch
  <2>4. {found.members[i].id : i \in matches} = {UserOf(found, address)}
    BY <2>2, <2>3
  <2>5. QED
    BY <2>4 DEF matches
<1>4. ASSUME NEW identifier, ResolvesExactlyOne(IssuesByIdentifier(found, identifier))
      PROVE  {found.issues[i].id : i \in IssuesByIdentifier(found, identifier)} = {MatterOf(found, identifier)}
  <2> DEFINE matches == IssuesByIdentifier(found, identifier)
  <2>1. matches \in SUBSET (1 .. Len(found.issues))
    BY <1>2 DEF IssuesByIdentifier
  <2>2. ResolvesExactlyOne(matches) /\ MatterOf(found, identifier) = found.issues[First(matches)].id
    BY <1>4 DEF MatterOf
  <2> HIDE DEF matches
  <2>3. matches = {First(matches)}
    BY <1>2, <2>1, <2>2, OnlyMatch
  <2>4. {found.issues[i].id : i \in matches} = {MatterOf(found, identifier)}
    BY <2>2, <2>3
  <2>5. QED
    BY <2>4 DEF matches
<1>5. QED
  BY <1>3, <1>4 DEF found

\* Nobody granted himself a matter, and a grant in memory is on the ledger.
GrantsWritten ==
  /\ \A i \in 1 .. Len(chain) : chain[i].reason = "grant" => chain[i].actor # chain[i].pair[1]
  /\ Decides => \A pair \in Pairs :
       gate.events[pair] # NoEvent /\ gate.events[pair].kind = "grant" =>
         \E i \in 1 .. Len(chain) :
           /\ chain[i].reason = "grant" /\ chain[i].pair = pair
           /\ chain[i].expiry = gate.events[pair].expiry

\* What a fold holds is on the lines it folds.
LEMMA FoldIsWritten ==
  ASSUME NEW lines \in Seq(Line), NEW pair \in Pairs, Fold(lines)[pair] # NoEvent
  PROVE  \E i \in 1 .. Len(lines) :
           /\ lines[i].reason = Fold(lines)[pair].kind /\ lines[i].pair = pair
           /\ lines[i].expiry = Fold(lines)[pair].expiry
<1> DEFINE last == Latest(EventLines(lines, pair))
<1>1. EventLines(lines, pair) # {}
  BY DEF Fold
<1>2. last \in 1 .. Len(lines) /\ lines[last].pair = pair
  BY <1>1, LastEvent
<1>3. Fold(lines)[pair] = [kind |-> lines[last].reason, epoch |-> EpochAt(lines, last),
                           expiry |-> lines[last].expiry]
  BY <1>1 DEF Fold
<1> HIDE DEF last
<1>4. QED
  BY <1>2, <1>3

\* A line more, with what was there before.
LEMMA OneLineMore ==
  ASSUME NEW lines \in Seq(Line), NEW line, NEW more, more = Append(lines, line)
  PROVE  /\ Len(more) = Len(lines) + 1 /\ more[Len(more)] = line
         /\ \A i \in 1 .. Len(lines) : more[i] = lines[i] /\ i \in 1 .. Len(more)
         /\ \A i \in 1 .. Len(more) : i \in 1 .. Len(lines) \/ i = Len(more)
         /\ Len(more) \in 1 .. Len(more)
  OBVIOUS

LEMMA ChangeGranted ==
  ASSUME TypeOK, GrantsWritten, Decides, NEW pair \in Pairs, NEW actor \in Users,
         NEW expiry \in Nat, NEW result, NEW kind \in {"grant", "revoke"},
         kind = "grant" => actor # pair[1],
         Appended(result, ChangeLine(kind, pair, actor, expiry)),
         Applied(result, pair, kind, expiry)
  PROVE  GrantsWritten'
<1> DEFINE line == ChangeLine(kind, pair, actor, expiry)
           event == EventUnder(gate.epoch, kind, expiry)
<1>1. chain \in Seq(Line) /\ gate.events \in [Pairs -> Event \cup {NoEvent}]
  BY DEF TypeOK, Gate
<1>2. /\ line.reason = kind /\ line.pair = pair /\ line.expiry = expiry /\ line.actor = actor
      /\ event.kind = kind /\ event.expiry = expiry
  BY DEF ChangeLine, EventUnder
<1>3. ChangeEffect(pair, actor, expiry, kind, result)
  BY ChangeDoes
<1>4. /\ chain' = Append(chain, line) \/ (result # "ok" /\ chain' = chain)
      /\ \/ result = "ok" /\ gate'.events = [gate.events EXCEPT ![pair] = event]
         \/ gate'.events = gate.events
  BY <1>3 DEF ChangeEffect
<1> HIDE DEF line, event
<1>5. /\ \A i \in 1 .. Len(chain) : chain'[i] = chain[i] /\ i \in 1 .. Len(chain')
      /\ \A i \in 1 .. Len(chain') :
           i \in 1 .. Len(chain) \/ (chain' = Append(chain, line) /\ chain'[i] = line)
      /\ result = "ok" => Len(chain') \in 1 .. Len(chain') /\ chain'[Len(chain')] = line
  <2>1. CASE chain' = chain /\ result # "ok"
    BY <2>1
  <2>2. CASE chain' = Append(chain, line)
    BY <1>1, <2>2, OneLineMore
  <2>3. QED
    BY <1>4, <2>1, <2>2
<1>6. \A i \in 1 .. Len(chain') : chain'[i].reason = "grant" => chain'[i].actor # chain'[i].pair[1]
  BY <1>2, <1>5 DEF GrantsWritten
<1>7. ASSUME NEW other \in Pairs, gate'.events[other] # NoEvent, gate'.events[other].kind = "grant"
      PROVE  \E i \in 1 .. Len(chain') :
               /\ chain'[i].reason = "grant" /\ chain'[i].pair = other
               /\ chain'[i].expiry = gate'.events[other].expiry
  <2>1. CASE gate'.events[other] = gate.events[other]
    <3>1. PICK i \in 1 .. Len(chain) :
            /\ chain[i].reason = "grant" /\ chain[i].pair = other
            /\ chain[i].expiry = gate.events[other].expiry
      BY <1>7, <2>1 DEF GrantsWritten
    <3>2. QED
      BY <1>5, <2>1, <3>1
  <2>2. CASE gate'.events[other] # gate.events[other]
    <3>1. other = pair /\ result = "ok" /\ gate'.events[other] = event
      BY <1>1, <1>4, <2>2
    <3>2. QED
      BY <1>2, <1>5, <1>7, <3>1
  <2>3. QED
    BY <2>1, <2>2
<1>8. QED
  BY <1>6, <1>7 DEF GrantsWritten

LEMMA BootGranted ==
  ASSUME TypeOK, GrantsWritten, NEW directory \in Directories, NEW result, Boot(directory, result)
  PROVE  GrantsWritten'
<1> DEFINE line == [reason |-> "epoch", document |-> roster]
<1>1. chain \in Seq(Line)
  BY DEF TypeOK
<1>2. line.reason = "epoch"
  OBVIOUS
<1>3. \/ ~Decides' /\ chain' = chain
      \/ /\ ~Decides' \/ gate' = Registry(roster, directory)
         /\ chain' = Append(chain, line)
  BY BootDoes, BootTypes, DownType DEF Decides
<1>4. gate' = Registry(roster, directory) => gate'.events = Fold(chain)
  BY DEF Registry
<1> HIDE DEF line
<1>5. /\ \A i \in 1 .. Len(chain) : chain'[i] = chain[i] /\ i \in 1 .. Len(chain')
      /\ \A i \in 1 .. Len(chain') : i \in 1 .. Len(chain) \/ chain'[i] = line
  <2>1. CASE chain' = chain
    BY <2>1
  <2>2. CASE chain' = Append(chain, line)
    BY <1>1, <2>2, OneLineMore
  <2>3. QED
    BY <1>3, <2>1, <2>2
<1>6. \A i \in 1 .. Len(chain') : chain'[i].reason = "grant" => chain'[i].actor # chain'[i].pair[1]
  BY <1>2, <1>5 DEF GrantsWritten
<1>7. ASSUME Decides', NEW pair \in Pairs, gate'.events[pair] # NoEvent,
             gate'.events[pair].kind = "grant"
      PROVE  \E i \in 1 .. Len(chain') :
               /\ chain'[i].reason = "grant" /\ chain'[i].pair = pair
               /\ chain'[i].expiry = gate'.events[pair].expiry
  <2>1. gate'.events = Fold(chain)
    BY <1>3, <1>4, <1>7
  <2>2. PICK i \in 1 .. Len(chain) :
          /\ chain[i].reason = Fold(chain)[pair].kind /\ chain[i].pair = pair
          /\ chain[i].expiry = Fold(chain)[pair].expiry
    BY <1>1, <1>7, <2>1, FoldIsWritten
  <2>3. QED
    BY <1>5, <1>7, <2>1, <2>2
<1>8. QED
  BY <1>6, <1>7 DEF GrantsWritten

LEMMA GrantedStep == TypeOK /\ GrantsWritten /\ [Next]_vars => GrantsWritten'
<1> SUFFICES ASSUME TypeOK, GrantsWritten, [Next]_vars
             PROVE  GrantsWritten'
  OBVIOUS
<1>1. ASSUME NEW pair \in Pairs, NEW actor \in Users, NEW result, NEW expiry \in 1 .. MaxTime,
             Grant(pair, actor, expiry, result)
      PROVE  GrantsWritten'
  BY <1>1, ChangeGranted, BoundAssumption DEF Grant, Decides
<1>2. ASSUME NEW pair \in Pairs, NEW actor \in Users, NEW result, Revoke(pair, actor, result)
      PROVE  GrantsWritten'
  BY <1>2, ChangeGranted DEF Revoke, Decides
<1>3. ASSUME NEW directory \in Directories, NEW result, Boot(directory, result)
      PROVE  GrantsWritten'
  BY <1>3, BootGranted
<1>4. ASSUME Stop \/ PowerLoss
      PROVE  GrantsWritten'
  <2>1. ~Decides' /\ chain' = chain
    BY <1>4, DownType DEF Stop, PowerLoss, Decides
  <2>2. QED
    BY <2>1 DEF GrantsWritten
<1>5. ASSUME gate' = gate, chain' = chain
      PROVE  GrantsWritten'
  BY <1>5 DEF GrantsWritten, Decides
<1>6. \/ \E document \in Documents : EditRoster(document)
      \/ \E time \in 0 .. MaxTime : SetClock(time)
      \/ TruncateTail
      \/ \E directory \in Directories : RefusesToStart(directory)
      \/ UNCHANGED vars
      => gate' = gate /\ chain' = chain
  BY DEF EditRoster, SetClock, TruncateTail, RefusesToStart, vars
<1>7. QED
  BY <1>1, <1>2, <1>3, <1>4, <1>5, <1>6 DEF Next

\* What a document that compiles gives to whom is written in it, for that user and
\* that matter alone.
LEMMA CompiledIsNamed ==
  ASSUME <<gate.baseline, gate.directory>> \in Starts, NEW user
  PROVE  /\ \A boundary \in Boundaries :
              <<user, boundary>> \in Baseline.authority => NamedForBoundary(user, boundary)
         /\ \A matter : BaselineGrants(<<user, matter>>) => NamedForMatter(user, matter)
<1> DEFINE text == Says[gate.baseline]
           found == Found[gate.directory]
<1>1. /\ gate.directory \in Directories /\ Compiles(text, found)
      /\ Baseline = CompileMatterAccess(text, found)
  BY StartsAre DEF Compiled, Baseline
<1>2. /\ \A address : ResolvesExactlyOne(UsersByEmail(found, Lower(address))) =>
           OnlyUser(Lower(address), UserOf(found, address))
      /\ \A identifier : ResolvesExactlyOne(IssuesByIdentifier(found, identifier)) =>
           OnlyMatter(identifier, MatterOf(found, identifier))
  BY <1>1, OnlyResolved DEF OnlyUser, OnlyMatter
<1> HIDE DEF found
<1>3. ASSUME NEW boundary \in Boundaries, <<user, boundary>> \in CompileMatterAccess(text, found).authority
      PROVE  NamedForBoundary(user, boundary)
  <2>1. PICK b \in Boundaries : \E i \in DOMAIN text.authority[b] :
          <<user, boundary>> = <<UserOf(found, text.authority[b][i]), b>>
    BY <1>3 DEF CompileMatterAccess
  <2>2. PICK i \in DOMAIN text.authority[b] :
          <<user, boundary>> = <<UserOf(found, text.authority[b][i]), b>>
    BY <2>1
  <2>3. b = boundary /\ user = UserOf(found, text.authority[boundary][i])
    BY <2>2
  <2>4. ResolvesExactlyOne(UsersByEmail(found, Lower(text.authority[boundary][i])))
    BY <1>1, <2>2, <2>3 DEF Compiles
  <2>5. text.authority[boundary][i] \in Range(text.authority[boundary])
    BY <2>2, <2>3 DEF Range
  <2>6. OnlyUser(Lower(text.authority[boundary][i]), user)
    BY <1>2, <2>3, <2>4
  <2>7. QED
    BY <2>5, <2>6 DEF NamedForBoundary
<1>4. ASSUME NEW matter, <<user, matter>> \in CompileMatterAccess(text, found).pairs
      PROVE  NamedForMatter(user, matter)
  <2>1. PICK i \in DOMAIN text.rows : \E k \in DOMAIN text.rows[i].matters :
          <<user, matter>> = <<UserOf(found, text.rows[i].email), MatterOf(found, text.rows[i].matters[k])>>
    BY <1>4 DEF CompileMatterAccess
  <2>2. PICK k \in DOMAIN text.rows[i].matters :
          <<user, matter>> = <<UserOf(found, text.rows[i].email), MatterOf(found, text.rows[i].matters[k])>>
    BY <2>1
  <2>3. /\ user = UserOf(found, text.rows[i].email)
        /\ matter = MatterOf(found, text.rows[i].matters[k])
    BY <2>2
  <2>4. /\ ResolvesExactlyOne(UsersByEmail(found, Lower(text.rows[i].email)))
        /\ ResolvesExactlyOne(IssuesByIdentifier(found, text.rows[i].matters[k]))
    BY <1>1, <2>2 DEF Compiles
  <2>5. text.rows[i] \in Range(text.rows) /\ text.rows[i].matters[k] \in Range(text.rows[i].matters)
    BY <2>2 DEF Range
  <2>6. /\ OnlyUser(Lower(text.rows[i].email), user)
        /\ OnlyMatter(text.rows[i].matters[k], matter)
    BY <1>2, <2>3, <2>4
  <2>7. QED
    BY <2>5, <2>6 DEF NamedForMatter
<1>5. QED
  BY <1>1, <1>3, <1>4 DEF BaselineGrants

\* Who passes the approver check is the only user an address of the enforced document
\* names, for the boundary and for each matter, or was granted the matter by another
\* user, on the ledger, to this hour.
THEOREM OnlyTheNamedDecide == Spec => []OnlyTheNamed
<1>1. Init => GrantsWritten
  <2>1. Init => ~Decides /\ chain = <<>>
    BY DownType DEF Init, Decides
  <2>2. QED
    BY <2>1 DEF GrantsWritten
<1>2. ASSUME TypeOK, GrantsWritten
      PROVE  OnlyTheNamed
  <2>1. SUFFICES ASSUME NEW user \in Users, NEW boundary \in Boundaries, NEW matter \in Matters,
                        gate.up, gate.baseline \in Enforced,
                        CheckApprover(user, boundary, {matter})
                 PROVE  /\ NamedForBoundary(user, boundary)
                        /\ NamedForMatter(user, matter) \/ GrantedByAnother(user, matter)
    BY DEF OnlyTheNamed
  <2>2. HasDecisionAuthority(user, boundary) /\ IsEntitled(user, matter)
    BY <2>1 DEF CheckApprover
  <2>3. Decides /\ <<gate.baseline, gate.directory>> \in Starts
    <3>1. Decides
      BY <2>1, <2>2 DEF HasDecisionAuthority, Decides
    <3>2. QED
      BY <1>2, <3>1 DEF TypeOK, Decides
  <2>4. NamedForBoundary(user, boundary)
    BY <2>2, <2>3, CompiledIsNamed DEF HasDecisionAuthority
  <2>5. BaselineGrants(<<user, matter>>) => NamedForMatter(user, matter)
    BY <2>3, CompiledIsNamed
  <2>6. ~BaselineGrants(<<user, matter>>) => GrantedByAnother(user, matter)
    <3> DEFINE last == gate.events[<<user, matter>>]
    <3>1. HAVE ~BaselineGrants(<<user, matter>>)
    <3>2. last # NoEvent /\ last.kind = "grant" /\ clock < last.expiry
      BY <2>2, <3>1 DEF IsEntitled
    <3>3. <<user, matter>> \in Pairs
      BY DEF Pairs
    <3>4. PICK i \in 1 .. Len(chain) :
            /\ chain[i].reason = "grant" /\ chain[i].pair = <<user, matter>>
            /\ chain[i].expiry = last.expiry
      BY <1>2, <2>3, <3>2, <3>3 DEF GrantsWritten
    <3>5. chain[i].actor # user
      BY <1>2, <3>4 DEF GrantsWritten
    <3> HIDE DEF last
    <3>6. QED
      BY <3>2, <3>4, <3>5 DEF GrantedByAnother
  <2>7. QED
    BY <2>4, <2>5, <2>6
<1>3. QED
  BY <1>1, <1>2, GrantedStep, TypeCorrect, PTL DEF Spec
===============================================================================

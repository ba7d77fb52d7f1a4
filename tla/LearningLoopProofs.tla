--------------------------- MODULE LearningLoopProofs ---------------------------
(***************************************************************************)
(* What the learning loop's files hold, for any number of lessons, edits,  *)
(* texts, parties, commands, kills and launches.                           *)
(*                                                                         *)
(* InstalledBeforeApproved holds for commands in any number at once.  The  *)
(* other theorems are about commands that run one at a time: two at once   *)
(* save over each other (LearningLoop_together.cfg).                       *)
(*                                                                         *)
(* A save truncates a file before it fills it.  The invariants therefore   *)
(* are about what a file holds when no command is in between, and about    *)
(* what the command will write (LedgerGood, ProposalsGood of either); a    *)
(* kill in between is cut, and then nothing more is said.                  *)
(***************************************************************************)
EXTENDS LearningLoop, FiniteSetTheorems, WellFoundedInduction, TLAPS

LessonSteps == {"open ledger", "write ledger", "open memory", "write memory", "append archive"}
OverlaySteps == {"save previous", "open overlay", "write overlay"}
EditSteps == OverlaySteps \cup {"open proposals", "write proposals"}

UniqueIds(records) ==
  \A i, j \in DOMAIN records : records[i].id = records[j].id => i = j
UniqueTexts(lessons) ==
  \A i, j \in DOMAIN lessons : lessons[i].text = lessons[j].text => i = j

\* The record of a card is among the records.
Stands(card, records) == \E i \in DOMAIN records : records[i].id = card[2] /\ records[i].text = card[3]

\* A ledger, or what a command will make of it, holds what people said yes to, what they
\* have seen, what was decided, and the parties the launcher knows.
LedgerGood(lessons, yes, seen, said, known) ==
  /\ UniqueIds(lessons) /\ UniqueTexts(lessons)
  /\ \A i \in DOMAIN lessons :
       lessons[i].status = "accepted" => <<"lesson", lessons[i].text>> \in yes
  /\ \A c \in seen : c[1] = "lesson" => Stands(c, lessons)
  /\ \A d \in said : d[1] = "lesson" => d \in Decisions("lesson", lessons)
  /\ known \subseteq LedgerEntities(lessons)

ProposalsGood(edits, seen, said) ==
  /\ UniqueIds(edits)
  /\ \A c \in seen : c[1] = "edit" => Stands(c, edits)
  /\ \A d \in said : d[1] = "edit" => d \in Decisions("edit", edits)

\* A command, and the file it rewrites.
SaveOK(c, file, yes, seen, said, known) ==
  /\ c.step # "write ledger" => LedgerGood(file, yes, seen, said, known)
  /\ c.step = "write ledger" => file = <<>>
  /\ c.step \in LessonSteps =>
       /\ LedgerGood(c.lessons, yes, seen, said, known)
       /\ LedgerEntities(file) \subseteq LedgerEntities(c.lessons)
       /\ \A card \in c.card : card[1] = "lesson" /\ Stands(card, c.lessons)
  /\ c.step \in {"open memory", "write memory", "append archive"} => file = c.lessons

EditOK(c, file, yes, seen, said) ==
  /\ c.step # "write proposals" => ProposalsGood(file, seen, said)
  /\ c.step = "write proposals" => file = <<>>
  /\ c.step \in EditSteps =>
       /\ ProposalsGood(c.edits, seen, said)
       /\ \A i \in DOMAIN file : Stands(<<"edit", file[i].id, file[i].text>>, c.edits)
  /\ c.step \in OverlaySteps => <<"edit", c.text>> \in yes

LessonsOK == \A p \in Commands : SaveOK(command[p], ledger, approved, cards, decided, launch.known)
EditsOK == \A p \in Commands : EditOK(command[p], proposals, approved, cards, decided)

\* What is shown to every matter, or may be by the next launch, was approved.
ShownOK ==
  /\ \A t \in memory \cup context : <<"lesson", t>> \in approved
  /\ \A s \in Skills : overlay[s] \in Texts => <<"edit", overlay[s]>> \in approved
  /\ \A s \in Skills : active[s] \in Texts => <<"edit", active[s]>> \in approved

\* A memory file that passed the launcher's screen still would.
ScreenOK ==
  /\ launch.step = "import" /\ launch.clean => \A t \in memory : Clean(t, launch.known)
  /\ launch.step = "none" => \A t \in context : Clean(t, launch.known)

\* Outside a save the memory file is what the ledger says.
MemoryOK == ~half /\ (\A p \in Commands : command[p].step \notin MidSave) => memory = Hot(ledger)

FilesOK == ~cut => LessonsOK /\ EditsOK /\ ShownOK /\ ScreenOK /\ MemoryOK

(***************************************************************************)
(* Records.                                                                *)
(***************************************************************************)
LEMMA MaxIs ==
  ASSUME NEW S \in SUBSET Nat, IsFiniteSet(S), S # {}
  PROVE  Max(S) \in S /\ \A j \in S : j <= Max(S)
<1> DEFINE Upto(i) == {j \in S : i <= j}
           Left == {Upto(i) : i \in S}
<1>1. Left \subseteq SUBSET S /\ Left # {}
  <2>1. \A i \in S : Upto(i) \in SUBSET S
    OBVIOUS
  <2>2. QED
    BY <2>1
<1>2. PICK least \in Left : \A y \in Left : ~ (<<y, least>> \in StrictSubsetOrdering(S))
  <2>1. IsWellFoundedOn(StrictSubsetOrdering(S), FiniteSubsetsOf(S))
    BY FS_StrictSubsetOrderingWellFounded
  <2>2. Left \subseteq FiniteSubsetsOf(S)
    BY <1>1, FS_FiniteSubsetsOfFinite
  <2> HIDE DEF Left
  <2>3. QED
    BY <1>1, <2>1, <2>2, WFMin
<1>3. PICK last \in S : least = Upto(last)
  OBVIOUS
<1>4. \A j \in S : j <= last
  <2>1. SUFFICES ASSUME NEW j \in S, last < j
                 PROVE  FALSE
    OBVIOUS
  <2>4. Upto(j) \in Left
    OBVIOUS
  <2>5. j \in Nat /\ last \in Nat
    OBVIOUS
  <2>6. Upto(j) \subseteq least
    <3>1. \A k \in S : k \in Nat /\ (j <= k => last <= k)
      BY <2>1, <2>5
    <3>2. Upto(j) \subseteq Upto(last)
      BY <3>1
    <3>3. QED
      BY <1>3, <3>2
  <2>7. last \in least /\ last \notin Upto(j)
    BY <1>3, <2>1, <2>5
  <2>2. Upto(j) \in Left /\ Upto(j) \subseteq least /\ last \in least /\ last \notin Upto(j)
    BY <2>4, <2>6, <2>7
  <2>3. Upto(j) \in SUBSET S /\ least \in SUBSET S /\ Upto(j) # least
    BY <1>1, <2>2
  <2> HIDE DEF Left, Upto
  <2>8. <<Upto(j), least>> \in StrictSubsetOrdering(S)
    BY <2>2, <2>3 DEF StrictSubsetOrdering
  <2>9. QED
    BY <1>2, <2>2, <2>8
<1>5. \A y \in S : last >= y
  BY <1>4
<1>6. QED
  BY <1>5 DEF Max

\* The next id is none of the records'.
LEMMA FreshId ==
  ASSUME NEW records, IsFiniteSet(DOMAIN records),
         \A i \in DOMAIN records : records[i].id \in Nat
  PROVE  /\ NextId(records) \in Nat \ {0}
         /\ \A i \in DOMAIN records : records[i].id # NextId(records)
<1> DEFINE ids == {records[i].id : i \in DOMAIN records}
           S == {0} \cup ids
<1>1. IsFiniteSet(ids)
  <2> DEFINE f == [i \in DOMAIN records |-> records[i].id]
  <2>1. f \in Surjection(DOMAIN records, ids)
    BY DEF Surjection
  <2> HIDE DEF f, ids
  <2>2. QED
    BY <2>1, FS_Surjection
<1>2. IsFiniteSet(S)
  <2> HIDE DEF ids
  <2>1. IsFiniteSet(ids \cup {0})
    BY <1>1, FS_AddElement
  <2>2. S = ids \cup {0}
    OBVIOUS
  <2>3. QED
    BY <2>1, <2>2
<1>3. S \in SUBSET Nat /\ S # {}
  OBVIOUS
<1>4. NextId(records) = 1 + Max(S)
  BY DEF NextId
<1>5. \A i \in DOMAIN records : records[i].id \in S
  OBVIOUS
<1> HIDE DEF S
<1>6. Max(S) \in Nat /\ \A j \in S : j \in Nat /\ j <= Max(S)
  BY <1>2, <1>3, MaxIs
<1>7. QED
  BY <1>4, <1>5, <1>6

LEMMA WithIdIs ==
  ASSUME NEW records, NEW id, HasId(records, id)
  PROVE  \E i \in DOMAIN records : records[i].id = id /\ WithId(records, id) = records[i]
  BY DEF HasId, WithId

LEMMA DecisionsAre ==
  ASSUME NEW kind, NEW records, NEW d
  PROVE  d \in Decisions(kind, records) <=>
           \E i \in DOMAIN records : /\ records[i].status \in {"accepted", "approved", "rejected"}
                                     /\ d = <<kind, records[i].id, records[i].status>>
  BY DEF Decisions

\* Records that differ from others in the status alone, and only where it was open.
Redecided(old, new) ==
  /\ DOMAIN new = DOMAIN old
  /\ \A i \in DOMAIN old :
       /\ new[i].id = old[i].id /\ new[i].text = old[i].text
       /\ new[i].status = old[i].status \/ old[i].status \notin {"accepted", "approved", "rejected"}

LEMMA RedecidedKeeps ==
  ASSUME NEW old, NEW new, Redecided(old, new)
  PROVE  /\ UniqueIds(old) => UniqueIds(new)
         /\ UniqueTexts(old) => UniqueTexts(new)
         /\ \A c : Stands(c, old) => Stands(c, new)
         /\ \A kind : \A d : d \in Decisions(kind, old) => d \in Decisions(kind, new)
<1>1. UniqueIds(old) => UniqueIds(new)
  BY DEF Redecided, UniqueIds
<1>2. UniqueTexts(old) => UniqueTexts(new)
  BY DEF Redecided, UniqueTexts
<1>3. \A c : Stands(c, old) => Stands(c, new)
  BY DEF Redecided, Stands
<1>4. ASSUME NEW kind, NEW d, d \in Decisions(kind, old)
      PROVE  d \in Decisions(kind, new)
  <2>1. PICK i \in DOMAIN old : /\ old[i].status \in {"accepted", "approved", "rejected"}
                                /\ d = <<kind, old[i].id, old[i].status>>
    BY <1>4, DecisionsAre
  <2>2. i \in DOMAIN new /\ new[i].status = old[i].status /\ new[i].id = old[i].id
    BY <2>1 DEF Redecided
  <2>3. QED
    BY <2>1, <2>2, DecisionsAre
<1>5. QED
  BY <1>1, <1>2, <1>3, <1>4

LEMMA LedgerChange ==
  ASSUME NEW old, NEW new, NEW yes, NEW seen, NEW said, NEW known,
         LedgerGood(old, yes, seen, said, known), Redecided(old, new),
         \A i \in DOMAIN old : new[i].entities = old[i].entities,
         \A i \in DOMAIN old : new[i].status = "accepted" =>
           old[i].status = "accepted" \/ <<"lesson", old[i].text>> \in yes
  PROVE  LedgerGood(new, yes, seen, said, known)
<1>1. UniqueIds(new) /\ UniqueTexts(new)
  BY RedecidedKeeps DEF LedgerGood
<1>2. \A i \in DOMAIN new : new[i].status = "accepted" => <<"lesson", new[i].text>> \in yes
  BY DEF LedgerGood, Redecided
<1>3. \A c \in seen : c[1] = "lesson" => Stands(c, new)
  BY RedecidedKeeps DEF LedgerGood
<1>4. \A d \in said : d[1] = "lesson" => d \in Decisions("lesson", new)
  BY RedecidedKeeps DEF LedgerGood
<1>5. known \subseteq LedgerEntities(new)
  BY DEF LedgerGood, LedgerEntities, Redecided
<1>6. QED
  BY <1>1, <1>2, <1>3, <1>4, <1>5 DEF LedgerGood

LEMMA ProposalsChange ==
  ASSUME NEW old, NEW new, NEW seen, NEW said,
         ProposalsGood(old, seen, said), Redecided(old, new)
  PROVE  ProposalsGood(new, seen, said)
<1>1. UniqueIds(new)
  BY RedecidedKeeps DEF ProposalsGood
<1>2. \A c \in seen : c[1] = "edit" => Stands(c, new)
  BY RedecidedKeeps DEF ProposalsGood
<1>3. \A d \in said : d[1] = "edit" => d \in Decisions("edit", new)
  BY RedecidedKeeps DEF ProposalsGood
<1>4. QED
  BY <1>1, <1>2, <1>3 DEF ProposalsGood

\* One more record, of a new id, that nobody has decided on.
LEMMA AppendKeeps ==
  ASSUME NEW S, NEW records \in Seq(S), NEW record \in S, record.status = "pending",
         \A i \in DOMAIN records : records[i].id # record.id
  PROVE  /\ UniqueIds(records) => UniqueIds(Append(records, record))
         /\ \A c : Stands(c, records) => Stands(c, Append(records, record))
         /\ Stands(<<"lesson", record.id, record.text>>, Append(records, record))
         /\ \A kind : \A d : d \in Decisions(kind, records) => d \in Decisions(kind, Append(records, record))
         /\ UniqueTexts(records) /\ (\A i \in DOMAIN records : records[i].text # record.text) =>
              UniqueTexts(Append(records, record))
<1> DEFINE n == Len(records) + 1
           new == Append(records, record)
<1>1. /\ n \in DOMAIN new /\ new[n] = record /\ DOMAIN records \subseteq DOMAIN new
      /\ \A i \in DOMAIN new : i \in DOMAIN records \/ i = n
      /\ \A i \in DOMAIN records : new[i] = records[i]
  OBVIOUS
<1> HIDE DEF n, new
<1>2. UniqueIds(records) => UniqueIds(new)
  BY <1>1 DEF UniqueIds
<1>3. \A c : Stands(c, records) => Stands(c, new)
  BY <1>1 DEF Stands
<1>4. Stands(<<"lesson", record.id, record.text>>, new)
  BY <1>1 DEF Stands
<1>5. ASSUME NEW kind, NEW d, d \in Decisions(kind, records)
      PROVE  d \in Decisions(kind, new)
  BY <1>1, <1>5, DecisionsAre
<1>6. UniqueTexts(records) /\ (\A i \in DOMAIN records : records[i].text # record.text) =>
        UniqueTexts(new)
  BY <1>1 DEF UniqueTexts
<1>7. QED
  BY <1>2, <1>3, <1>4, <1>5, <1>6 DEF new

LEMMA LedgerAppend ==
  ASSUME NEW lessons \in Seq(Lesson), NEW lesson \in Lesson,
         NEW yes, NEW seen, NEW said, NEW known,
         LedgerGood(lessons, yes, seen, said, known), lesson.status = "pending",
         \A i \in DOMAIN lessons : lessons[i].id # lesson.id /\ lessons[i].text # lesson.text
  PROVE  LedgerGood(Append(lessons, lesson), yes, seen, said, known)
<1> DEFINE new == Append(lessons, lesson)
<1>1. /\ UniqueIds(lessons) /\ UniqueTexts(lessons)
      /\ \A c \in seen : c[1] = "lesson" => Stands(c, lessons)
      /\ \A d \in said : d[1] = "lesson" => d \in Decisions("lesson", lessons)
  BY DEF LedgerGood
<1>2. /\ UniqueIds(new) /\ UniqueTexts(new)
      /\ \A c \in seen : c[1] = "lesson" => Stands(c, new)
      /\ \A d \in said : d[1] = "lesson" => d \in Decisions("lesson", new)
  <2>1. UniqueIds(lessons) => UniqueIds(new)
    BY AppendKeeps
  <2>2. UniqueTexts(lessons) => UniqueTexts(new)
    BY AppendKeeps
  <2>3. \A c : Stands(c, lessons) => Stands(c, new)
    BY AppendKeeps
  <2>4. \A d : d \in Decisions("lesson", lessons) => d \in Decisions("lesson", new)
    BY AppendKeeps
  <2>5. QED
    BY <1>1, <2>1, <2>2, <2>3, <2>4
<1>3. /\ \A i \in DOMAIN new : new[i] = lesson \/ (i \in DOMAIN lessons /\ new[i] = lessons[i])
      /\ \A i \in DOMAIN lessons : i \in DOMAIN new /\ new[i] = lessons[i]
  OBVIOUS
<1> HIDE DEF new
<1>4. \A i \in DOMAIN new : new[i].status = "accepted" => <<"lesson", new[i].text>> \in yes
  BY <1>3 DEF LedgerGood
<1>5. known \subseteq LedgerEntities(new)
  BY <1>3 DEF LedgerGood, LedgerEntities
<1>6. LedgerGood(new, yes, seen, said, known)
  BY <1>2, <1>4, <1>5 DEF LedgerGood
<1>7. QED
  BY <1>6 DEF new

LEMMA ProposalsAppend ==
  ASSUME NEW edits \in Seq(Proposal), NEW edit \in Proposal, NEW seen, NEW said,
         ProposalsGood(edits, seen, said), edit.status = "pending",
         \A i \in DOMAIN edits : edits[i].id # edit.id
  PROVE  ProposalsGood(Append(edits, edit), seen, said)
<1> DEFINE new == Append(edits, edit)
<1>1. UniqueIds(edits) => UniqueIds(new)
  BY AppendKeeps
<1>2. \A c : Stands(c, edits) => Stands(c, new)
  BY AppendKeeps
<1>3. \A d : d \in Decisions("edit", edits) => d \in Decisions("edit", new)
  BY AppendKeeps
<1> HIDE DEF new
<1>4. ProposalsGood(new, seen, said)
  BY <1>1, <1>2, <1>3 DEF ProposalsGood
<1>5. QED
  BY <1>4 DEF new

(***************************************************************************)
(* Types.                                                                  *)
(***************************************************************************)
CommandTyped ==
  /\ command \in [Commands -> Work]
  /\ \A p \in Commands : command[p].step \in OverlaySteps =>
       command[p].skill \in Skills /\ command[p].text \in Texts

LEMMA TypeParts ==
  ASSUME TypeOK
  PROVE  /\ CommandTyped /\ ledger \in Seq(Lesson) /\ proposals \in Seq(Proposal)
         /\ \A p \in Commands : command[p] \in Work
  BY DEF TypeOK, CommandTyped, OverlaySteps

LEMMA LessonFields ==
  ASSUME NEW lessons \in Seq(Lesson), NEW i \in DOMAIN lessons
  PROVE  /\ lessons[i].id \in Nat \ {0} /\ lessons[i].text \in Texts
         /\ lessons[i].status \in LessonStatus /\ lessons[i].entities \subseteq Entities
<1>1. lessons[i] \in Lesson
  OBVIOUS
<1>2. QED
  BY <1>1 DEF Lesson

LEMMA ProposalFields ==
  ASSUME NEW edits \in Seq(Proposal), NEW i \in DOMAIN edits
  PROVE  /\ edits[i].id \in Nat \ {0} /\ edits[i].text \in Texts
         /\ edits[i].status \in ProposalStatus /\ edits[i].skill \in Skills
<1>1. edits[i] \in Proposal
  OBVIOUS
<1>2. QED
  BY <1>1 DEF Proposal

LEMMA CommandChange ==
  ASSUME CommandTyped, NEW p \in Commands, NEW work \in Work,
         work.step \in OverlaySteps => work.skill \in Skills /\ work.text \in Texts,
         command' = [command EXCEPT ![p] = work]
  PROVE  CommandTyped'
<1>1. command'[p] = work /\ \A q \in Commands \ {p} : command'[q] = command[q]
  BY DEF CommandTyped
<1>2. command' \in [Commands -> Work]
  BY DEF CommandTyped
<1>3. \A q \in Commands : command'[q].step \in OverlaySteps =>
        command'[q].skill \in Skills /\ command'[q].text \in Texts
  BY <1>1 DEF CommandTyped
<1>4. QED
  BY <1>2, <1>3 DEF CommandTyped

WithStep(c, step) == [c EXCEPT !.step = step]

LEMMA WithStepIs ==
  ASSUME NEW c \in Work, NEW step \in Steps
  PROVE  /\ WithStep(c, step) \in Work
         /\ WithStep(c, step).step = step /\ WithStep(c, step).lessons = c.lessons
         /\ WithStep(c, step).edits = c.edits /\ WithStep(c, step).card = c.card
         /\ WithStep(c, step).text = c.text /\ WithStep(c, step).skill = c.skill
<1>1. WithStep(c, step) \in Work
  BY DEF WithStep, Work
<1>2. QED
  BY DEF WithStep, Work

LEMMA ProceedIs ==
  ASSUME CommandTyped, NEW p \in Commands, NEW step \in Steps, Proceed(p, step)
  PROVE  command' = [command EXCEPT ![p] = WithStep(command[p], step)]
  BY DEF Proceed, WithStep, CommandTyped

LEMMA WorkFields ==
  ASSUME NEW c \in Work
  PROVE  /\ c.step \in Steps /\ c.lessons \in Seq(Lesson) /\ c.edits \in Seq(Proposal)
         /\ c.target \in Nat /\ c.card \subseteq Card
  BY DEF Work

LEMMA IdleIs == Idle \in Work /\ Idle.step = "none"
  BY DEF Idle, Work, Steps

LEMMA SavingIs ==
  ASSUME NEW lessons \in Seq(Lesson), NEW card \in SUBSET Card
  PROVE  /\ Saving(lessons, card) \in Work /\ Saving(lessons, card).step = "open ledger"
         /\ Saving(lessons, card).lessons = lessons /\ Saving(lessons, card).card = card
<1>1. Idle \in Work /\ "open ledger" \in Steps /\ "open proposals" \in Steps
  BY IdleIs DEF Steps
<1>2. Saving(lessons, card) \in Work
  BY <1>1 DEF Saving, Work
<1>3. QED
  BY <1>1, <1>2 DEF Saving, Work

LEMMA SavingEditsIs ==
  ASSUME NEW edits \in Seq(Proposal)
  PROVE  /\ SavingEdits(edits) \in Work /\ SavingEdits(edits).step = "open proposals"
         /\ SavingEdits(edits).edits = edits
<1>1. Idle \in Work /\ "open ledger" \in Steps /\ "open proposals" \in Steps
  BY IdleIs DEF Steps
<1>2. SavingEdits(edits) \in Work
  BY <1>1 DEF SavingEdits, Work
<1>3. QED
  BY <1>1, <1>2 DEF SavingEdits, Work

LEMMA StatusIs ==
  ASSUME NEW records, NEW id, NEW status
  PROVE  /\ DOMAIN WithStatus(records, id, status) = DOMAIN records
         /\ \A i \in DOMAIN records :
              WithStatus(records, id, status)[i] =
                IF records[i].id = id THEN [records[i] EXCEPT !.status = status] ELSE records[i]
  BY DEF WithStatus

LEMMA LessonStatusIs ==
  ASSUME NEW lessons \in Seq(Lesson), NEW id, NEW status \in LessonStatus
  PROVE  /\ WithStatus(lessons, id, status) \in Seq(Lesson)
         /\ DOMAIN WithStatus(lessons, id, status) = DOMAIN lessons
         /\ \A i \in DOMAIN lessons :
              /\ WithStatus(lessons, id, status)[i].id = lessons[i].id
              /\ WithStatus(lessons, id, status)[i].text = lessons[i].text
              /\ WithStatus(lessons, id, status)[i].entities = lessons[i].entities
              /\ WithStatus(lessons, id, status)[i].status =
                   IF lessons[i].id = id THEN status ELSE lessons[i].status
<1> DEFINE new == WithStatus(lessons, id, status)
<1>1. DOMAIN new = DOMAIN lessons
  BY StatusIs
<1>2. \A i \in DOMAIN lessons :
        new[i] = IF lessons[i].id = id THEN [lessons[i] EXCEPT !.status = status] ELSE lessons[i]
  BY StatusIs
<1> HIDE DEF new
<1>3. \A i \in DOMAIN lessons : lessons[i] \in Lesson
  OBVIOUS
<1>4. \A i \in DOMAIN lessons :
        /\ new[i] \in Lesson /\ new[i].id = lessons[i].id /\ new[i].text = lessons[i].text
        /\ new[i].entities = lessons[i].entities
        /\ new[i].status = IF lessons[i].id = id THEN status ELSE lessons[i].status
  BY <1>2, <1>3 DEF Lesson
<1>5. new \in Seq(Lesson)
  <2>1. new = [i \in 1 .. Len(lessons) |-> new[i]]
    BY <1>1 DEF new, WithStatus
  <2>2. \A i \in 1 .. Len(lessons) : new[i] \in Lesson
    BY <1>4
  <2>3. QED
    BY <2>1, <2>2
<1>6. QED
  BY <1>1, <1>4, <1>5 DEF new

LEMMA ProposalStatusIs ==
  ASSUME NEW edits \in Seq(Proposal), NEW id, NEW status \in ProposalStatus
  PROVE  /\ WithStatus(edits, id, status) \in Seq(Proposal)
         /\ DOMAIN WithStatus(edits, id, status) = DOMAIN edits
         /\ \A i \in DOMAIN edits :
              /\ WithStatus(edits, id, status)[i].id = edits[i].id
              /\ WithStatus(edits, id, status)[i].text = edits[i].text
              /\ WithStatus(edits, id, status)[i].status =
                   IF edits[i].id = id THEN status ELSE edits[i].status
<1> DEFINE new == WithStatus(edits, id, status)
<1>1. DOMAIN new = DOMAIN edits
  BY StatusIs
<1>2. \A i \in DOMAIN edits :
        new[i] = IF edits[i].id = id THEN [edits[i] EXCEPT !.status = status] ELSE edits[i]
  BY StatusIs
<1> HIDE DEF new
<1>3. \A i \in DOMAIN edits : edits[i] \in Proposal
  OBVIOUS
<1>4. \A i \in DOMAIN edits :
        /\ new[i] \in Proposal /\ new[i].id = edits[i].id /\ new[i].text = edits[i].text
        /\ new[i].status = IF edits[i].id = id THEN status ELSE edits[i].status
  BY <1>2, <1>3 DEF Proposal
<1>5. new \in Seq(Proposal)
  <2>1. new = [i \in 1 .. Len(edits) |-> new[i]]
    BY <1>1 DEF new, WithStatus
  <2>2. \A i \in 1 .. Len(edits) : new[i] \in Proposal
    BY <1>4
  <2>3. QED
    BY <2>1, <2>2
<1>6. QED
  BY <1>1, <1>4, <1>5 DEF new

LEMMA BlockedIs ==
  ASSUME NEW lessons \in Seq(Lesson), NEW id, NEW blocked, blocked \in BOOLEAN
  PROVE  /\ MarkBlocked(lessons, id, blocked) \in Seq(Lesson)
         /\ DOMAIN MarkBlocked(lessons, id, blocked) = DOMAIN lessons
         /\ \A i \in DOMAIN lessons :
              /\ MarkBlocked(lessons, id, blocked)[i].id = lessons[i].id
              /\ MarkBlocked(lessons, id, blocked)[i].text = lessons[i].text
              /\ MarkBlocked(lessons, id, blocked)[i].entities = lessons[i].entities
              /\ MarkBlocked(lessons, id, blocked)[i].status = lessons[i].status
<1> DEFINE new == MarkBlocked(lessons, id, blocked)
<1>1. DOMAIN new = DOMAIN lessons
  BY DEF MarkBlocked
<1>2. \A i \in DOMAIN lessons :
        new[i] = IF lessons[i].id = id THEN [lessons[i] EXCEPT !.blocked = blocked] ELSE lessons[i]
  BY DEF MarkBlocked
<1> HIDE DEF new
<1>3. \A i \in DOMAIN lessons : lessons[i] \in Lesson
  OBVIOUS
<1>4. \A i \in DOMAIN lessons :
        /\ new[i] \in Lesson /\ new[i].id = lessons[i].id /\ new[i].text = lessons[i].text
        /\ new[i].entities = lessons[i].entities /\ new[i].status = lessons[i].status
  BY <1>2, <1>3 DEF Lesson
<1>5. new \in Seq(Lesson)
  <2>1. new = [i \in 1 .. Len(lessons) |-> new[i]]
    BY <1>1 DEF new, MarkBlocked
  <2>2. \A i \in 1 .. Len(lessons) : new[i] \in Lesson
    BY <1>4
  <2>3. QED
    BY <2>1, <2>2
<1>6. QED
  BY <1>1, <1>4, <1>5 DEF new

(***************************************************************************)
(* What a command is about to write.                                       *)
(***************************************************************************)
LEMMA BeginIs ==
  ASSUME NEW p \in Commands, NEW work, Begin(p, work), CommandTyped
  PROVE  /\ command[p].step = "none" /\ command'[p] = work
         /\ command' = [command EXCEPT ![p] = work]
         /\ ledger' = ledger /\ memory' = memory /\ archive' = archive /\ proposals' = proposals
         /\ overlay' = overlay /\ previous' = previous /\ launch' = launch
         /\ context' = context /\ active' = active /\ installed' = installed
         /\ decided' = decided /\ cut' = cut /\ half' = half
  BY DEF Begin, CommandTyped, files, Running

LEMMA BeginType ==
  ASSUME TypeOK, NEW p \in Commands, NEW work \in Work, Begin(p, work), cards' = cards,
         work.step \in OverlaySteps => work.skill \in Skills /\ work.text \in Texts
  PROVE  TypeOK'
<1>1. CommandTyped
  BY TypeParts
<1>2. CommandTyped'
  BY <1>1, BeginIs, CommandChange
<1>3. /\ ledger' = ledger /\ memory' = memory /\ archive' = archive /\ proposals' = proposals
      /\ overlay' = overlay /\ previous' = previous /\ launch' = launch /\ context' = context
      /\ active' = active /\ cut' = cut /\ half' = half
  BY <1>1, BeginIs
<1>4. QED
  BY <1>2, <1>3 DEF TypeOK, CommandTyped, OverlaySteps

LEMMA ProposeIs ==
  ASSUME TypeOK, NEW p \in Commands, NEW text \in Texts, NEW entities \in SUBSET Entities,
         Propose(p, text, entities)
  PROVE  \E lesson \in Lesson :
           /\ lesson.status = "pending"
           /\ \A i \in DOMAIN ledger : ledger[i].id # lesson.id /\ ledger[i].text # lesson.text
           /\ <<"lesson", lesson.id, lesson.text>> \in Card
           /\ Append(ledger, lesson) \in Seq(Lesson)
           /\ Begin(p, Saving(Append(ledger, lesson), {<<"lesson", lesson.id, lesson.text>>}))
<1> DEFINE lesson == [id |-> NextId(ledger), text |-> text, status |-> "pending",
                      entities |-> entities, blocked |-> FALSE]
<1>0. ledger \in Seq(Lesson)
  BY TypeParts
<1>1. ledger \in Seq(Lesson) /\ \A i \in DOMAIN ledger : ledger[i].id \in Nat
  BY <1>0, LessonFields
<1>2. IsFiniteSet(DOMAIN ledger)
  <2>1. DOMAIN ledger = 1 .. Len(ledger) /\ Len(ledger) \in Nat
    BY <1>1
  <2>2. QED
    BY <2>1, FS_Interval
<1>3. NextId(ledger) \in Nat \ {0} /\ \A i \in DOMAIN ledger : ledger[i].id # NextId(ledger)
  BY <1>1, <1>2, FreshId
<1>4. lesson \in Lesson /\ lesson.status = "pending" /\ lesson.id = NextId(ledger) /\ lesson.text = text
  BY <1>3 DEF Lesson, LessonStatus
<1>5. \A i \in DOMAIN ledger : ledger[i].text # text
  BY DEF Propose
<1>6. Begin(p, Saving(Append(ledger, lesson), {<<"lesson", lesson.id, text>>}))
  BY DEF Propose
<1> HIDE DEF lesson
<1>7. Append(ledger, lesson) \in Seq(Lesson)
  BY <1>1, <1>4
<1>8. <<"lesson", lesson.id, lesson.text>> \in Card
  BY <1>3, <1>4 DEF Card
<1>9. QED
  BY <1>3, <1>4, <1>5, <1>6, <1>7, <1>8

\* A decision is of one lesson, which was pending, and may not be an acceptance after all.
LEMMA DecideIs ==
  ASSUME TypeOK, NEW p \in Commands, NEW card \in cards, NEW status \in {"accepted", "rejected"},
         Decide(p, card, status)
  PROVE  \E new \in Seq(Lesson) :
           /\ Begin(p, Saving(new, {})) /\ card[1] = "lesson"
           /\ UniqueIds(ledger) => Redecided(ledger, new)
           /\ \A i \in DOMAIN ledger :
                /\ new[i].entities = ledger[i].entities
                /\ new[i].status = "accepted" =>
                     ledger[i].status = "accepted" \/ (status = "accepted" /\ ledger[i].id = card[2])
<1> DEFINE marked == WithStatus(ledger, card[2], status)
<1>1. ledger \in Seq(Lesson) /\ status \in LessonStatus
  BY TypeParts DEF LessonStatus
<1>2. card[1] = "lesson" /\ HasId(ledger, card[2])
      /\ MayBecome(WithId(ledger, card[2]).status, status)
  BY DEF Decide
<1>3. PICK k \in DOMAIN ledger : ledger[k].id = card[2] /\ WithId(ledger, card[2]) = ledger[k]
  BY <1>2, WithIdIs
<1>4. ledger[k].status = "pending"
  <2>1. ledger[k].status \in LessonStatus
    BY <1>1, <1>3, LessonFields
  <2>2. QED
    BY <1>2, <1>3, <2>1 DEF MayBecome, LessonStatus
<1>5. CASE Begin(p, Saving(MarkBlocked(ledger, card[2], TRUE), {}))
  <2> DEFINE new == MarkBlocked(ledger, card[2], TRUE)
  <2>0. \A blocked \in BOOLEAN : \A i \in DOMAIN ledger :
          /\ MarkBlocked(ledger, card[2], blocked)[i].id = ledger[i].id
          /\ MarkBlocked(ledger, card[2], blocked)[i].text = ledger[i].text
          /\ MarkBlocked(ledger, card[2], blocked)[i].entities = ledger[i].entities
          /\ MarkBlocked(ledger, card[2], blocked)[i].status = ledger[i].status
    BY <1>1, BlockedIs
  <2>1. new \in Seq(Lesson) /\ DOMAIN new = DOMAIN ledger
    BY <1>1, BlockedIs
  <2>2. \A i \in DOMAIN ledger :
          /\ new[i].id = ledger[i].id /\ new[i].text = ledger[i].text
          /\ new[i].entities = ledger[i].entities /\ new[i].status = ledger[i].status
    BY <2>0
  <2> HIDE DEF new
  <2>3. Redecided(ledger, new)
    BY <2>1, <2>2 DEF Redecided
  <2>4. QED
    BY <1>2, <1>5, <2>1, <2>2, <2>3 DEF new
<1>6. CASE Begin(p, Saving(MarkBlocked(marked, card[2], FALSE), {}))
  <2> DEFINE new == MarkBlocked(marked, card[2], FALSE)
  <2>1. marked \in Seq(Lesson) /\ DOMAIN marked = DOMAIN ledger
    BY <1>1, LessonStatusIs
  <2>2. \A i \in DOMAIN ledger :
          /\ marked[i].id = ledger[i].id /\ marked[i].text = ledger[i].text
          /\ marked[i].entities = ledger[i].entities
          /\ marked[i].status = IF ledger[i].id = card[2] THEN status ELSE ledger[i].status
    BY <1>1, LessonStatusIs
  <2>3. new \in Seq(Lesson) /\ DOMAIN new = DOMAIN marked
    BY <2>1, BlockedIs
  <2>4. \A i \in DOMAIN marked :
          /\ new[i].id = marked[i].id /\ new[i].text = marked[i].text
          /\ new[i].entities = marked[i].entities /\ new[i].status = marked[i].status
    <3> HIDE DEF marked, new
    <3>1. \A blocked \in BOOLEAN : \A i \in DOMAIN marked :
            /\ MarkBlocked(marked, card[2], blocked)[i].id = marked[i].id
            /\ MarkBlocked(marked, card[2], blocked)[i].text = marked[i].text
            /\ MarkBlocked(marked, card[2], blocked)[i].entities = marked[i].entities
            /\ MarkBlocked(marked, card[2], blocked)[i].status = marked[i].status
      BY <2>1, BlockedIs
    <3>2. QED
      BY <3>1 DEF new
  <2>5. Begin(p, Saving(new, {}))
    BY <1>6
  <2> HIDE DEF new, marked
  <2>6. \A i \in DOMAIN ledger :
          /\ new[i].id = ledger[i].id /\ new[i].text = ledger[i].text
          /\ new[i].entities = ledger[i].entities
          /\ new[i].status = IF ledger[i].id = card[2] THEN status ELSE ledger[i].status
    BY <2>1, <2>2, <2>4
  <2>7. UniqueIds(ledger) => \A i \in DOMAIN ledger : ledger[i].id = card[2] => i = k
    BY <1>3 DEF UniqueIds
  <2>8. UniqueIds(ledger) => Redecided(ledger, new)
    BY <1>4, <2>1, <2>3, <2>6, <2>7 DEF Redecided
  <2>9. QED
    BY <1>2, <2>3, <2>5, <2>6, <2>8
<1>7. QED
  BY <1>5, <1>6 DEF Decide

LEMMA ProposeEditIs ==
  ASSUME TypeOK, NEW p \in Commands, NEW skill \in Skills, NEW text \in Texts, NEW entities,
         ProposeEdit(p, skill, text, entities)
  PROVE  \E edit \in Proposal :
           /\ edit.status = "pending"
           /\ \A i \in DOMAIN proposals : proposals[i].id # edit.id
           /\ Append(proposals, edit) \in Seq(Proposal)
           /\ Begin(p, SavingEdits(Append(proposals, edit)))
<1> DEFINE edit == [id |-> NextId(proposals), text |-> text, skill |-> skill, status |-> "pending"]
<1>0. proposals \in Seq(Proposal)
  BY TypeParts
<1>1. proposals \in Seq(Proposal) /\ \A i \in DOMAIN proposals : proposals[i].id \in Nat
  BY <1>0, ProposalFields
<1>2. IsFiniteSet(DOMAIN proposals)
  <2>1. DOMAIN proposals = 1 .. Len(proposals) /\ Len(proposals) \in Nat
    BY <1>1
  <2>2. QED
    BY <2>1, FS_Interval
<1>3. NextId(proposals) \in Nat \ {0} /\ \A i \in DOMAIN proposals : proposals[i].id # NextId(proposals)
  BY <1>1, <1>2, FreshId
<1>4. edit \in Proposal /\ edit.status = "pending" /\ edit.id = NextId(proposals)
  BY <1>3 DEF Proposal, ProposalStatus
<1>5. Begin(p, SavingEdits(Append(proposals, edit)))
  BY DEF ProposeEdit
<1> HIDE DEF edit
<1>6. Append(proposals, edit) \in Seq(Proposal)
  BY <1>1, <1>4
<1>7. QED
  BY <1>3, <1>4, <1>5, <1>6

\* The overlay that will be written is the text the person said yes to: the proposed one
\* if that is what the card showed.
LEMMA ApproveEditIs ==
  ASSUME TypeOK, NEW p \in Commands, NEW card \in cards, NEW text \in Texts,
         ApproveEdit(p, card, text)
  PROVE  \E work \in Work :
           /\ Begin(p, work) /\ card[1] = "edit"
           /\ work.step = "save previous" /\ work.edits = proposals
           /\ work.skill \in Skills /\ work.text \in Texts
           /\ UniqueIds(proposals) /\ Stands(card, proposals) => work.text = text
<1> DEFINE target == WithId(proposals, card[2])
           body == IF text = card[3] THEN target.text ELSE text
           work == [Idle EXCEPT !.step = "save previous", !.edits = proposals,
                      !.target = card[2], !.skill = target.skill, !.text = body]
<1>1. proposals \in Seq(Proposal) /\ card[2] \in Nat
  BY TypeParts DEF TypeOK, Card
<1>2. card[1] = "edit" /\ HasId(proposals, card[2]) /\ Begin(p, work)
  BY DEF ApproveEdit
<1>3. PICK k \in DOMAIN proposals : proposals[k].id = card[2] /\ target = proposals[k]
  BY <1>2, WithIdIs
<1>4. target.skill \in Skills /\ target.text \in Texts
  BY <1>1, <1>3, ProposalFields
<1>5. body \in Texts
  BY <1>4
<1>6. UniqueIds(proposals) /\ Stands(card, proposals) => body = text
  BY <1>3 DEF UniqueIds, Stands
<1> HIDE DEF target, body
<1>7. Idle \in Work /\ "save previous" \in Steps
  BY IdleIs DEF Steps
<1>8. work \in Work
  BY <1>1, <1>4, <1>5, <1>7 DEF Work
<1>9. /\ work.step = "save previous" /\ work.edits = proposals
      /\ work.skill = target.skill /\ work.text = body
  BY <1>7, <1>8 DEF Work
<1> HIDE DEF work
<1>10. QED
  BY <1>2, <1>4, <1>5, <1>6, <1>8, <1>9

LEMMA RejectEditIs ==
  ASSUME TypeOK, NEW p \in Commands, NEW card \in cards, RejectEdit(p, card)
  PROVE  \E new \in Seq(Proposal) :
           /\ Begin(p, SavingEdits(new))
           /\ UniqueIds(proposals) => Redecided(proposals, new)
           /\ DOMAIN new = DOMAIN proposals
           /\ \A i \in DOMAIN proposals :
                /\ new[i].id = proposals[i].id
                /\ new[i].status = "approved" => proposals[i].status = "approved"
<1> DEFINE new == WithStatus(proposals, card[2], "rejected")
<1>1. proposals \in Seq(Proposal) /\ "rejected" \in ProposalStatus
  BY TypeParts DEF ProposalStatus
<1>2. /\ HasId(proposals, card[2]) /\ MayBecome(WithId(proposals, card[2]).status, "rejected")
      /\ Begin(p, SavingEdits(new))
  BY DEF RejectEdit
<1>3. PICK k \in DOMAIN proposals :
        proposals[k].id = card[2] /\ WithId(proposals, card[2]) = proposals[k]
  BY <1>2, WithIdIs
<1>4. proposals[k].status \in {"pending", "edited"}
  BY <1>2, <1>3 DEF MayBecome
<1>5. new \in Seq(Proposal) /\ DOMAIN new = DOMAIN proposals
  BY <1>1, ProposalStatusIs
<1>6. \A i \in DOMAIN proposals :
        /\ new[i].id = proposals[i].id /\ new[i].text = proposals[i].text
        /\ new[i].status = IF proposals[i].id = card[2] THEN "rejected" ELSE proposals[i].status
  BY <1>1, ProposalStatusIs
<1> HIDE DEF new
<1>7. UniqueIds(proposals) => \A i \in DOMAIN proposals : proposals[i].id = card[2] => i = k
  BY <1>3 DEF UniqueIds
<1>8. UniqueIds(proposals) => Redecided(proposals, new)
  BY <1>4, <1>5, <1>6, <1>7 DEF Redecided
<1>9. QED
  BY <1>2, <1>5, <1>6, <1>8

LEMMA HotIs ==
  ASSUME NEW lessons \in Seq(Lesson)
  PROVE  Hot(lessons) \subseteq Texts /\ Overflow(lessons) \subseteq Texts
<1>1. \A i \in Sane(lessons) : lessons[i].text \in Texts
  BY LessonFields DEF Sane
<1>2. QED
  BY <1>1 DEF Hot, Overflow

LEMMA ProceedType ==
  ASSUME CommandTyped, NEW p \in Commands, NEW step \in Steps, Proceed(p, step),
         step \in OverlaySteps => command[p].step \in OverlaySteps
  PROVE  CommandTyped'
<1>1. command[p] \in Work
  BY DEF CommandTyped
<1>2. command' = [command EXCEPT ![p] = WithStep(command[p], step)]
  BY ProceedIs
<1>3. /\ WithStep(command[p], step) \in Work /\ WithStep(command[p], step).step = step
      /\ WithStep(command[p], step).text = command[p].text
      /\ WithStep(command[p], step).skill = command[p].skill
  BY <1>1, WithStepIs
<1>4. step \in OverlaySteps => command[p].skill \in Skills /\ command[p].text \in Texts
  BY DEF CommandTyped
<1>5. QED
  BY <1>2, <1>3, <1>4, CommandChange

LEMMA FinishType ==
  ASSUME CommandTyped, NEW p \in Commands, Finish(p)
  PROVE  CommandTyped'
<1>1. Idle \in Work /\ Idle.step \notin OverlaySteps
  BY IdleIs DEF OverlaySteps
<1>2. QED
  BY <1>1, CommandChange DEF Finish

LEMMA TypeAgain ==
  ASSUME TypeOK, KeepAll, CommandTyped', ledger' \in Seq(Lesson), proposals' \in Seq(Proposal),
         memory' \subseteq Texts, archive' \subseteq Texts,
         overlay' \in [Skills -> Texts \cup {Absent, Empty}],
         previous' \in [Skills -> Texts \cup {Absent, Empty}],
         cards' \subseteq Card, half' \in BOOLEAN
  PROVE  TypeOK'
  BY DEF TypeOK, KeepAll, CommandTyped, OverlaySteps

LEMMA LessonsType ==
  ASSUME TypeOK, NEW p \in Commands, Lessons(p)
  PROVE  TypeOK'
<1>1. CASE \E text \in Texts, entities \in SUBSET Entities : Propose(p, text, entities)
  <2>1. PICK text \in Texts, entities \in SUBSET Entities : Propose(p, text, entities)
    BY <1>1
  <2>2. PICK lesson \in Lesson :
          /\ <<"lesson", lesson.id, lesson.text>> \in Card
          /\ Append(ledger, lesson) \in Seq(Lesson)
          /\ Begin(p, Saving(Append(ledger, lesson), {<<"lesson", lesson.id, lesson.text>>}))
    BY <2>1, ProposeIs
  <2> DEFINE work == Saving(Append(ledger, lesson), {<<"lesson", lesson.id, lesson.text>>})
  <2> DEFINE card == {<<"lesson", lesson.id, lesson.text>>}
  <2>3. card \in SUBSET Card
    BY <2>2
  <2> HIDE DEF card
  <2>4. Saving(Append(ledger, lesson), card) \in Work /\ Saving(Append(ledger, lesson), card).step = "open ledger"
    BY <2>2, <2>3, SavingIs
  <2>5. work \in Work /\ work.step = "open ledger" /\ Begin(p, work)
    BY <2>2, <2>4 DEF card
  <2>6. cards' = cards
    BY <2>1 DEF Propose
  <2> HIDE DEF work
  <2>7. work.step \notin OverlaySteps
    BY <2>5 DEF OverlaySteps
  <2>8. QED
    BY <2>5, <2>6, <2>7, BeginType
<1>2. ASSUME NEW card \in cards, NEW status \in {"accepted", "rejected"}, Decide(p, card, status)
      PROVE  TypeOK'
  <2>1. PICK new \in Seq(Lesson) : Begin(p, Saving(new, {}))
    BY <1>2, DecideIs
  <2>2. Saving(new, {}) \in Work /\ Saving(new, {}).step = "open ledger"
    BY SavingIs
  <2>3. Saving(new, {}).step \notin OverlaySteps
    BY <2>2 DEF OverlaySteps
  <2>4. cards' = cards
    BY <1>2 DEF Decide
  <2>5. QED
    BY <2>1, <2>2, <2>3, <2>4, BeginType
<1>3. CASE Render(p)
  <2>1. ledger \in Seq(Lesson) /\ Begin(p, Saving(ledger, {})) /\ cards' = cards
    BY <1>3, TypeParts DEF Render
  <2>2. Saving(ledger, {}) \in Work /\ Saving(ledger, {}).step = "open ledger"
    BY <2>1, SavingIs
  <2>3. Saving(ledger, {}).step \notin OverlaySteps
    BY <2>2 DEF OverlaySteps
  <2>4. QED
    BY <2>1, <2>2, <2>3, BeginType
<1>4. QED
  BY <1>1, <1>2, <1>3 DEF Lessons, Accept, Reject

LEMMA EditsType ==
  ASSUME TypeOK, NEW p \in Commands, Edits(p)
  PROVE  TypeOK'
<1>1. ASSUME NEW new \in Seq(Proposal), Begin(p, SavingEdits(new)), cards' = cards
      PROVE  TypeOK'
  <2>1. SavingEdits(new) \in Work /\ SavingEdits(new).step = "open proposals"
    BY SavingEditsIs
  <2>2. SavingEdits(new).step \notin OverlaySteps
    BY <2>1 DEF OverlaySteps
  <2>3. QED
    BY <1>1, <2>1, <2>2, BeginType
<1>2. ASSUME NEW skill \in Skills, NEW text \in Texts, NEW entities, ProposeEdit(p, skill, text, entities)
      PROVE  TypeOK'
  <2>1. PICK edit \in Proposal : /\ Append(proposals, edit) \in Seq(Proposal)
                                 /\ Begin(p, SavingEdits(Append(proposals, edit)))
    BY <1>2, ProposeEditIs
  <2>2. cards' = cards
    BY <1>2 DEF ProposeEdit
  <2>3. QED
    BY <1>1, <2>1, <2>2
<1>3. ASSUME NEW card \in cards, NEW text \in Texts, ApproveEdit(p, card, text)
      PROVE  TypeOK'
  <2>1. PICK work \in Work : Begin(p, work) /\ work.skill \in Skills /\ work.text \in Texts
    BY <1>3, ApproveEditIs
  <2>2. cards' = cards
    BY <1>3 DEF ApproveEdit
  <2>3. QED
    BY <2>1, <2>2, BeginType
<1>4. ASSUME NEW card \in cards, RejectEdit(p, card)
      PROVE  TypeOK'
  <2>1. PICK new \in Seq(Proposal) : Begin(p, SavingEdits(new))
    BY <1>4, RejectEditIs
  <2>2. cards' = cards
    BY <1>4 DEF RejectEdit
  <2>3. QED
    BY <1>1, <2>1, <2>2
<1>5. QED
  BY <1>2, <1>3, <1>4 DEF Edits

LEMMA TypeFiles ==
  ASSUME TypeOK
  PROVE  /\ ledger \in Seq(Lesson) /\ proposals \in Seq(Proposal)
         /\ memory \subseteq Texts /\ archive \subseteq Texts
         /\ overlay \in [Skills -> Texts \cup {Absent, Empty}]
         /\ previous \in [Skills -> Texts \cup {Absent, Empty}]
         /\ cards \subseteq Card /\ half \in BOOLEAN
  BY DEF TypeOK

LEMMA WritesType ==
  ASSUME TypeOK, NEW p \in Commands, Writes(p)
  PROVE  TypeOK'
<1>1. CommandTyped /\ command[p] \in Work
  BY TypeParts
<1>2. /\ command[p].lessons \in Seq(Lesson) /\ command[p].edits \in Seq(Proposal)
      /\ command[p].card \subseteq Card
  BY <1>1, WorkFields
<1>3. <<>> \in Seq(Lesson) /\ <<>> \in Seq(Proposal) /\ FALSE \in BOOLEAN
  OBVIOUS
<1>4. CASE OpenLedger(p)
  <2>1. CommandTyped'
    <3>1. Proceed(p, "write ledger")
      BY <1>4 DEF OpenLedger
    <3>2. "write ledger" \in Steps /\ "write ledger" \notin OverlaySteps
      BY DEF Steps, OverlaySteps
    <3>3. QED
      BY <1>1, <3>1, <3>2, ProceedType
  <2>2. QED
    BY <1>3, <1>4, <2>1, TypeFiles, TypeAgain DEF OpenLedger
<1>5. CASE WriteLedger(p)
  <2>1. CommandTyped'
    <3>1. Proceed(p, "open memory")
      BY <1>5 DEF WriteLedger
    <3>2. "open memory" \in Steps /\ "open memory" \notin OverlaySteps
      BY DEF Steps, OverlaySteps
    <3>3. QED
      BY <1>1, <3>1, <3>2, ProceedType
  <2>2. QED
    BY <1>2, <1>5, <2>1, TypeFiles, TypeAgain DEF WriteLedger
<1>6. CASE OpenMemory(p)
  <2>1. CommandTyped'
    <3>1. Proceed(p, "write memory")
      BY <1>6 DEF OpenMemory
    <3>2. "write memory" \in Steps /\ "write memory" \notin OverlaySteps
      BY DEF Steps, OverlaySteps
    <3>3. QED
      BY <1>1, <3>1, <3>2, ProceedType
  <2>2. QED
    BY <1>6, <2>1, TypeFiles, TypeAgain DEF OpenMemory
<1>7. CASE WriteMemory(p)
  <2>1. CommandTyped'
    <3>1. Proceed(p, "append archive")
      BY <1>7 DEF WriteMemory
    <3>2. "append archive" \in Steps /\ "append archive" \notin OverlaySteps
      BY DEF Steps, OverlaySteps
    <3>3. QED
      BY <1>1, <3>1, <3>2, ProceedType
  <2>2. Hot(command[p].lessons) \subseteq Texts
    BY <1>2, HotIs
  <2>3. QED
    BY <1>3, <1>7, <2>1, <2>2, TypeFiles, TypeAgain DEF WriteMemory
<1>8. CASE AppendArchive(p)
  <2>1. CommandTyped'
    BY <1>1, <1>8, FinishType DEF AppendArchive
  <2>2. Overflow(command[p].lessons) \subseteq Texts
    BY <1>2, HotIs
  <2>3. archive' \subseteq Texts /\ cards' \subseteq Card
    BY <1>2, <1>8, <2>2, TypeFiles DEF AppendArchive
  <2>4. QED
    BY <1>8, <2>1, <2>3, TypeFiles, TypeAgain DEF AppendArchive
<1>9. CASE SavePrevious(p)
  <2>1. CommandTyped' /\ command[p].skill \in Skills
    <3>1. Proceed(p, "open overlay") /\ command[p].step \in OverlaySteps
      BY <1>9 DEF SavePrevious, At, OverlaySteps
    <3>2. "open overlay" \in Steps
      BY DEF Steps
    <3>3. CommandTyped'
      BY <1>1, <3>1, <3>2, ProceedType
    <3>4. QED
      BY <1>1, <3>1, <3>3 DEF CommandTyped
  <2>2. previous' \in [Skills -> Texts \cup {Absent, Empty}]
    BY <1>9, <2>1, TypeFiles DEF SavePrevious
  <2>3. QED
    BY <1>9, <2>1, <2>2, TypeFiles, TypeAgain DEF SavePrevious
<1>10. CASE OpenOverlay(p)
  <2>1. CommandTyped' /\ command[p].skill \in Skills
    <3>1. Proceed(p, "write overlay") /\ command[p].step \in OverlaySteps
      BY <1>10 DEF OpenOverlay, At, OverlaySteps
    <3>2. "write overlay" \in Steps
      BY DEF Steps
    <3>3. CommandTyped'
      BY <1>1, <3>1, <3>2, ProceedType
    <3>4. QED
      BY <1>1, <3>1, <3>3 DEF CommandTyped
  <2>2. overlay' \in [Skills -> Texts \cup {Absent, Empty}]
    BY <1>10, <2>1, TypeFiles DEF OpenOverlay
  <2>3. QED
    BY <1>10, <2>1, <2>2, TypeFiles, TypeAgain DEF OpenOverlay
<1>11. CASE WriteOverlay(p)
  <2>1. command[p].skill \in Skills /\ command[p].text \in Texts
    BY <1>1, <1>11 DEF WriteOverlay, At, OverlaySteps, CommandTyped
  <2>2. overlay' \in [Skills -> Texts \cup {Absent, Empty}]
    BY <1>11, <2>1, TypeFiles DEF WriteOverlay
  <2>3. CommandTyped'
    <3>1. CASE Finish(p)
      BY <1>1, <3>1, FinishType
    <3>2. CASE command' = [command EXCEPT ![p].step = "open proposals",
                             ![p].edits = WithStatus(command[p].edits, command[p].target, "approved")]
      <4> DEFINE edits == WithStatus(command[p].edits, command[p].target, "approved")
                 work == [command[p] EXCEPT !.step = "open proposals", !.edits = edits]
      <4>1. "approved" \in ProposalStatus /\ "open proposals" \in Steps /\ "open proposals" \notin OverlaySteps
        BY DEF ProposalStatus, Steps, OverlaySteps
      <4>2. edits \in Seq(Proposal)
        BY <1>2, <4>1, ProposalStatusIs
      <4>3. command' = [command EXCEPT ![p] = work]
        BY <1>1, <3>2 DEF CommandTyped
      <4> HIDE DEF edits
      <4>4. work \in Work /\ work.step = "open proposals"
        BY <1>1, <4>1, <4>2 DEF Work
      <4> HIDE DEF work
      <4>5. QED
        BY <1>1, <4>1, <4>3, <4>4, CommandChange
    <3>3. QED
      BY <1>11, <3>1, <3>2 DEF WriteOverlay
  <2>4. QED
    BY <1>11, <2>2, <2>3, TypeFiles, TypeAgain DEF WriteOverlay
<1>12. CASE OpenProposals(p)
  <2>1. CommandTyped'
    <3>1. Proceed(p, "write proposals")
      BY <1>12 DEF OpenProposals
    <3>2. "write proposals" \in Steps /\ "write proposals" \notin OverlaySteps
      BY DEF Steps, OverlaySteps
    <3>3. QED
      BY <1>1, <3>1, <3>2, ProceedType
  <2>2. QED
    BY <1>3, <1>12, <2>1, TypeFiles, TypeAgain DEF OpenProposals
<1>13. CASE WriteProposals(p)
  <2>1. CommandTyped'
    BY <1>1, <1>13, FinishType DEF WriteProposals
  <2>2. QED
    BY <1>2, <1>13, <2>1, TypeFiles, TypeAgain DEF WriteProposals
<1>14. QED
  BY <1>4, <1>5, <1>6, <1>7, <1>8, <1>9, <1>10, <1>11, <1>12, <1>13 DEF Writes

LEMMA KillType ==
  ASSUME TypeOK, NEW p \in Commands, Kill(p)
  PROVE  TypeOK'
<1>1. CommandTyped'
  BY TypeParts, FinishType DEF Kill
<1>2. QED
  BY <1>1 DEF TypeOK, CommandTyped, OverlaySteps, Kill, files

LEMMA LauncherType ==
  ASSUME TypeOK, Launcher
  PROVE  TypeOK'
<1>1. LedgerEntities(ledger) \subseteq Entities
  BY LessonFields, TypeParts DEF LedgerEntities
<1>2. CASE LaunchStart
  <2>1. launch' \in [step: {"none", "screen", "import"}, known: SUBSET Entities, clean: BOOLEAN]
    BY <1>1, <1>2 DEF LaunchStart
  <2>2. QED
    BY <1>2, <2>1 DEF TypeOK, LaunchStart, files, history
<1>3. CASE LaunchScreen
  <2>1. launch' \in [step: {"none", "screen", "import"}, known: SUBSET Entities, clean: BOOLEAN]
    BY <1>3 DEF LaunchScreen, TypeOK
  <2>2. QED
    BY <1>3, <2>1 DEF TypeOK, LaunchScreen, files, history
<1>4. CASE LaunchImport
  <2>1. launch' \in [step: {"none", "screen", "import"}, known: SUBSET Entities, clean: BOOLEAN]
    BY <1>4 DEF LaunchImport, TypeOK
  <2>2. context' \subseteq Texts /\ active' \in [Skills -> Texts \cup {Absent, Empty}]
    BY <1>4 DEF LaunchImport, TypeOK
  <2>3. QED
    BY <1>4, <2>1, <2>2 DEF TypeOK, LaunchImport, files, history
<1>5. QED
  BY <1>2, <1>3, <1>4 DEF Launcher

LEMMA ReviewListType ==
  ASSUME TypeOK, ReviewList
  PROVE  TypeOK'
<1>1. \A i \in DOMAIN proposals : <<"edit", proposals[i].id, proposals[i].text>> \in Card
  BY ProposalFields, TypeParts DEF Card
<1>2. cards' \subseteq Card
  BY <1>1, TypeFiles DEF ReviewList
<1>3. QED
  BY <1>2 DEF TypeOK, ReviewList, files

LEMMA TypeInit == Init => TypeOK
<1>1. SUFFICES ASSUME Init PROVE TypeOK
  OBVIOUS
<1>2. command \in [Commands -> Work] /\ \A p \in Commands : command[p].step = "none"
  BY <1>1, IdleIs DEF Init
<1>3. \A f \in {overlay, previous, active} : f \in [Skills -> Texts \cup {Absent, Empty}]
  BY <1>1 DEF Init
<1>4. /\ ledger \in Seq(Lesson) /\ proposals \in Seq(Proposal)
      /\ memory \subseteq Texts /\ archive \subseteq Texts /\ context \subseteq Texts
      /\ cards \subseteq Card /\ cut \in BOOLEAN /\ half \in BOOLEAN
  <2>1. ledger = <<>> /\ proposals = <<>> /\ memory = {} /\ archive = {} /\ context = {} /\ cards = {}
    BY <1>1 DEF Init
  <2>2. cut \in BOOLEAN /\ half \in BOOLEAN
    BY <1>1 DEF Init
  <2>3. QED
    BY <2>1, <2>2
<1>5. launch \in [step: {"none", "screen", "import"}, known: SUBSET Entities, clean: BOOLEAN]
  BY <1>1 DEF Init
<1>6. QED
  BY <1>2, <1>3, <1>4, <1>5 DEF TypeOK

LEMMA TypeStep == TypeOK /\ [Next]_vars => TypeOK'
<1>1. SUFFICES ASSUME TypeOK, [Next]_vars PROVE TypeOK'
  OBVIOUS
<1>2. CASE Next
  BY <1>1, <1>2, LessonsType, EditsType, WritesType, KillType, ReviewListType, LauncherType DEF Next
<1>3. CASE UNCHANGED vars
  BY <1>1, <1>3 DEF TypeOK, vars, files, history
<1>4. QED
  BY <1>1, <1>2, <1>3

\* Every variable keeps its shape: the files hold the records the commands write, each
\* command is at a step it has, and one that writes an overlay names a skill and a text
\* (learning-loop/src/cli.ts).
THEOREM TypeCorrect == Spec => []TypeOK
<1>1. QED
  BY TypeInit, TypeStep, PTL DEF Spec

(***************************************************************************)
(* The ledger and what a command makes of it.                              *)
(***************************************************************************)
LEMMA Proceeds ==
  ASSUME TypeOK, NEW p \in Commands, NEW step \in Steps, Proceed(p, step)
  PROVE  /\ command'[p].step = step /\ command'[p].lessons = command[p].lessons
         /\ command'[p].edits = command[p].edits /\ command'[p].card = command[p].card
         /\ command'[p].text = command[p].text
<1>1. CommandTyped /\ command[p] \in Work
  BY TypeParts
<1>2. command'[p] = WithStep(command[p], step)
  BY <1>1, ProceedIs DEF CommandTyped
<1>3. QED
  BY <1>1, <1>2, WithStepIs

LEMMA Finishes ==
  ASSUME TypeOK, NEW p \in Commands, Finish(p)
  PROVE  command'[p].step = "none"
<1>1. CommandTyped
  BY TypeParts
<1>2. command'[p] = Idle
  BY <1>1 DEF Finish, CommandTyped
<1>3. QED
  BY <1>2, IdleIs

LEMMA LessonsAre ==
  ASSUME NEW only, Commands = {only}
  PROVE  /\ LessonsOK <=>
              SaveOK(command[only], ledger, approved, cards, decided, launch.known)
         /\ LessonsOK' <=>
              SaveOK(command'[only], ledger', approved', cards', decided', launch'.known)
  BY DEF LessonsOK

\* Nothing happens to the ledger, and no command is between its truncation and its write.
LessonsSame(c, c2, file, yes, seen, said, known, yes2, seen2, said2, known2) ==
  /\ yes \subseteq yes2
  /\ c2 = c \/ (c.step # "write ledger" /\ c2.step \notin LessonSteps)
  /\ \A x \in seen2 : x \in seen \/ x[1] # "lesson"
  /\ \A x \in said2 : x \in said \/ x[1] # "lesson"
  /\ known2 = known \/ known2 = LedgerEntities(file)

LEMMA LessonsRest ==
  ASSUME NEW c, NEW c2, NEW file, NEW yes, NEW seen, NEW said, NEW known,
         NEW yes2, NEW seen2, NEW said2, NEW known2,
         SaveOK(c, file, yes, seen, said, known),
         LessonsSame(c, c2, file, yes, seen, said, known, yes2, seen2, said2, known2)
  PROVE  SaveOK(c2, file, yes2, seen2, said2, known2)
<1>1. c.step # "write ledger" => LedgerGood(file, yes2, seen2, said2, known2)
  BY DEF SaveOK, LedgerGood, LessonsSame
<1>2. CASE c2 = c
  <2>1. c.step \in LessonSteps => LedgerGood(c.lessons, yes2, seen2, said2, known2)
    BY DEF SaveOK, LedgerGood, LessonsSame
  <2>2. QED
    BY <1>1, <1>2, <2>1 DEF SaveOK
<1>3. CASE c.step # "write ledger" /\ c2.step \notin LessonSteps
  BY <1>1, <1>3 DEF SaveOK, LessonSteps
<1>4. QED
  BY <1>2, <1>3 DEF LessonsSame

\* A command has its new ledger ready.
LEMMA LessonsReady ==
  ASSUME NEW c, NEW c2, NEW file, NEW yes, NEW seen, NEW said, NEW known, NEW yes2,
         SaveOK(c, file, yes, seen, said, known), yes \subseteq yes2,
         c.step = "none", c2.step = "open ledger",
         LedgerGood(c2.lessons, yes2, seen, said, known),
         LedgerEntities(file) \subseteq LedgerEntities(c2.lessons),
         \A card \in c2.card : card[1] = "lesson" /\ Stands(card, c2.lessons)
  PROVE  SaveOK(c2, file, yes2, seen, said, known)
<1>1. LedgerGood(file, yes, seen, said, known)
  BY DEF SaveOK
<1>2. LedgerGood(file, yes2, seen, said, known)
  BY <1>1 DEF LedgerGood
<1>3. QED
  BY <1>2 DEF SaveOK

LEMMA SaneKept ==
  ASSUME NEW lessons, NEW new, DOMAIN lessons \subseteq DOMAIN new,
         \A i \in DOMAIN lessons : new[i].entities = lessons[i].entities
  PROVE  LedgerEntities(lessons) \subseteq LedgerEntities(new)
  BY DEF LedgerEntities

LEMMA LessonsBegin ==
  ASSUME NEW only, Commands = {only}, TypeOK, LessonsOK, Lessons(only)
  PROVE  LessonsOK'
<1>1. SaveOK(command[only], ledger, approved, cards, decided, launch.known)
  BY LessonsAre
<1>2. ledger \in Seq(Lesson) /\ CommandTyped /\ only \in Commands
  BY TypeParts
<1>3. CASE \E text \in Texts, entities \in SUBSET Entities : Propose(only, text, entities)
  <2>1. PICK text \in Texts, entities \in SUBSET Entities : Propose(only, text, entities)
    BY <1>3
  <2>2. PICK lesson \in Lesson :
          /\ lesson.status = "pending"
          /\ \A i \in DOMAIN ledger : ledger[i].id # lesson.id /\ ledger[i].text # lesson.text
          /\ <<"lesson", lesson.id, lesson.text>> \in Card
          /\ Append(ledger, lesson) \in Seq(Lesson)
          /\ Begin(only, Saving(Append(ledger, lesson), {<<"lesson", lesson.id, lesson.text>>}))
    BY <1>2, <2>1, ProposeIs
  <2> DEFINE new == Append(ledger, lesson)
             card == {<<"lesson", lesson.id, lesson.text>>}
  <2>3. cards' = cards /\ approved' = approved
    BY <2>1 DEF Propose
  <2>4. /\ DOMAIN ledger \subseteq DOMAIN new
        /\ \A i \in DOMAIN ledger : new[i].entities = ledger[i].entities
    BY <1>2
  <2>5. Stands(<<"lesson", lesson.id, lesson.text>>, new)
    BY <1>2, <2>2, AppendKeeps
  <2>6. \A x \in card : x[1] = "lesson" /\ Stands(x, new)
    BY <2>5
  <2>7. new \in Seq(Lesson) /\ card \in SUBSET Card /\ Begin(only, Saving(new, card))
    BY <2>2
  <2>8. LedgerGood(ledger, approved, cards, decided, launch.known)
    <3>1. command[only].step = "none"
      BY <1>2, <2>7, BeginIs
    <3>2. QED
      BY <1>1, <3>1 DEF SaveOK
  <2>9. LedgerGood(new, approved, cards, decided, launch.known)
    BY <1>2, <2>2, <2>8, LedgerAppend
  <2> HIDE DEF new, card
  <2>10. /\ Saving(new, card).step = "open ledger" /\ Saving(new, card).lessons = new
         /\ Saving(new, card).card = card
    BY <2>7, SavingIs
  <2>11. /\ command[only].step = "none" /\ command'[only] = Saving(new, card)
         /\ ledger' = ledger /\ launch' = launch /\ decided' = decided
    BY <1>2, <2>7, BeginIs
  <2>12. LedgerEntities(ledger) \subseteq LedgerEntities(new)
    BY <2>4, SaneKept
  <2>13. SaveOK(Saving(new, card), ledger, approved, cards, decided, launch.known)
    BY <1>1, <2>6, <2>9, <2>10, <2>11, <2>12, LessonsReady
  <2>14. QED
    BY <2>3, <2>11, <2>13, LessonsAre
<1>4. ASSUME NEW new \in Seq(Lesson), Begin(only, Saving(new, {})), cards' = cards,
             approved \subseteq approved', UniqueIds(ledger) => Redecided(ledger, new),
             \A i \in DOMAIN ledger :
               /\ new[i].entities = ledger[i].entities
               /\ new[i].status = "accepted" =>
                    ledger[i].status = "accepted" \/ <<"lesson", ledger[i].text>> \in approved'
      PROVE  LessonsOK'
  <2>1. /\ Saving(new, {}).step = "open ledger" /\ Saving(new, {}).lessons = new
        /\ Saving(new, {}).card = {}
    BY SavingIs
  <2>2. /\ command[only].step = "none" /\ command'[only] = Saving(new, {})
        /\ ledger' = ledger /\ launch' = launch /\ decided' = decided
    BY <1>2, <1>4, BeginIs
  <2>3. LedgerGood(ledger, approved, cards, decided, launch.known)
    BY <1>1, <2>2 DEF SaveOK
  <2>4. LedgerGood(ledger, approved', cards, decided, launch.known) /\ Redecided(ledger, new)
    BY <1>4, <2>3 DEF LedgerGood
  <2>5. LedgerGood(new, approved', cards, decided, launch.known)
    BY <1>4, <2>4, LedgerChange
  <2>6. LedgerEntities(ledger) \subseteq LedgerEntities(new)
    BY <1>4, <2>4, SaneKept DEF Redecided
  <2>7. SaveOK(Saving(new, {}), ledger, approved', cards, decided, launch.known)
    BY <1>1, <1>4, <2>1, <2>2, <2>5, <2>6, LessonsReady
  <2>8. QED
    BY <1>4, <2>2, <2>7, LessonsAre
<1>5. ASSUME NEW card \in cards, NEW status \in {"accepted", "rejected"}, Decide(only, card, status),
             approved \subseteq approved',
             status = "accepted" => <<"lesson", card[3]>> \in approved'
      PROVE  LessonsOK'
  <2>1. PICK new \in Seq(Lesson) :
          /\ Begin(only, Saving(new, {})) /\ card[1] = "lesson"
          /\ UniqueIds(ledger) => Redecided(ledger, new)
          /\ \A i \in DOMAIN ledger :
               /\ new[i].entities = ledger[i].entities
               /\ new[i].status = "accepted" =>
                    ledger[i].status = "accepted" \/ (status = "accepted" /\ ledger[i].id = card[2])
    BY <1>2, <1>5, DecideIs
  <2>2. cards' = cards
    BY <1>5 DEF Decide
  <2>3. LedgerGood(ledger, approved, cards, decided, launch.known)
    <3>1. command[only].step = "none"
      BY <1>2, <2>1, BeginIs
    <3>2. QED
      BY <1>1, <3>1 DEF SaveOK
  <2>4. \A i \in DOMAIN ledger : ledger[i].id = card[2] => ledger[i].text = card[3]
    BY <1>5, <2>1, <2>3 DEF LedgerGood, Stands, UniqueIds
  <2>5. \A i \in DOMAIN ledger :
          /\ new[i].entities = ledger[i].entities
          /\ new[i].status = "accepted" =>
               ledger[i].status = "accepted" \/ <<"lesson", ledger[i].text>> \in approved'
    BY <1>5, <2>1, <2>4
  <2>6. QED
    BY <1>4, <1>5, <2>1, <2>2, <2>5
<1>6. CASE Render(only)
  <2>1. Begin(only, Saving(ledger, {})) /\ cards' = cards /\ approved' = approved
    BY <1>6 DEF Render
  <2>2. Redecided(ledger, ledger)
    BY DEF Redecided
  <2>3. QED
    BY <1>2, <1>4, <2>1, <2>2
<1>7. QED
  <2>1. ASSUME NEW card \in cards, Accept(only, card)
        PROVE  LessonsOK'
    BY <1>5, <2>1 DEF Accept
  <2>2. ASSUME NEW card \in cards, Reject(only, card)
        PROVE  LessonsOK'
    BY <1>5, <2>2 DEF Reject
  <2>3. QED
    BY <1>3, <1>6, <2>1, <2>2 DEF Lessons

LEMMA LessonsWritten ==
  ASSUME NEW only, Commands = {only}, TypeOK, LessonsOK,
         OpenLedger(only) \/ WriteLedger(only) \/ OpenMemory(only) \/ WriteMemory(only)
           \/ AppendArchive(only)
  PROVE  LessonsOK'
<1> DEFINE c == command[only]
           c2 == command'[only]
<1>1. SaveOK(c, ledger, approved, cards, decided, launch.known)
  BY LessonsAre
<1>2. approved' = approved /\ launch' = launch /\ only \in Commands
  BY DEF OpenLedger, WriteLedger, OpenMemory, WriteMemory, AppendArchive, KeepAll
<1>3. SUFFICES SaveOK(c2, ledger', approved, cards', decided', launch.known)
  BY <1>2, LessonsAre
<1>4. c.step \in LessonSteps =>
        /\ LedgerGood(c.lessons, approved, cards, decided, launch.known)
        /\ \A card \in c.card : card[1] = "lesson" /\ Stands(card, c.lessons)
  BY <1>1 DEF SaveOK
<1>5. CASE OpenLedger(only)
  <2>1. /\ c.step = "open ledger" /\ ledger' = <<>> /\ cards' = cards /\ decided' = decided
        /\ Proceed(only, "write ledger")
    BY <1>5 DEF OpenLedger, At
  <2>2. "write ledger" \in Steps /\ "write ledger" \in LessonSteps /\ "open ledger" \in LessonSteps
    BY DEF Steps, LessonSteps
  <2>3. c2.step = "write ledger" /\ c2.lessons = c.lessons /\ c2.card = c.card
    BY <1>2, <2>1, <2>2, Proceeds
  <2>4. LedgerEntities(<<>>) = {}
    BY DEF LedgerEntities
  <2> HIDE DEF c, c2
  <2>5. QED
    BY <1>4, <2>1, <2>2, <2>3, <2>4 DEF SaveOK
<1>6. CASE WriteLedger(only)
  <2>1. /\ c.step = "write ledger" /\ ledger' = c.lessons /\ cards' = cards
        /\ decided' = decided \cup Decisions("lesson", c.lessons)
        /\ Proceed(only, "open memory")
    BY <1>6 DEF WriteLedger, At
  <2>2. "open memory" \in Steps /\ "write ledger" \in LessonSteps
    BY DEF Steps, LessonSteps
  <2>3. c2.step = "open memory" /\ c2.lessons = c.lessons /\ c2.card = c.card
    BY <1>2, <2>1, <2>2, Proceeds
  <2> HIDE DEF c, c2
  <2>4. LedgerGood(c.lessons, approved, cards, decided', launch.known)
    BY <1>4, <2>1, <2>2 DEF LedgerGood
  <2>5. QED
    BY <1>4, <2>1, <2>2, <2>3, <2>4 DEF SaveOK
<1>7. ASSUME c.step \in {"open memory", "write memory"},
             NEW step \in {"write memory", "append archive"}, Proceed(only, step),
             ledger' = ledger, cards' = cards, decided' = decided
      PROVE  SaveOK(c2, ledger', approved, cards', decided', launch.known)
  <2>1. step \in Steps /\ c.step \in LessonSteps /\ step \notin {"write ledger", "open ledger"}
    BY <1>7 DEF Steps, LessonSteps
  <2>2. c2.step = step /\ c2.lessons = c.lessons /\ c2.card = c.card
    BY <1>2, <1>7, <2>1, Proceeds
  <2> HIDE DEF c, c2
  <2>3. ledger = c.lessons
    BY <1>1, <1>7 DEF SaveOK
  <2>4. QED
    BY <1>4, <1>7, <2>1, <2>2, <2>3 DEF SaveOK
<1>8. CASE OpenMemory(only)
  BY <1>7, <1>8 DEF OpenMemory, At
<1>9. CASE WriteMemory(only)
  BY <1>7, <1>9 DEF WriteMemory, At
<1>10. CASE AppendArchive(only)
  <2>1. /\ c.step = "append archive" /\ ledger' = ledger /\ cards' = cards \cup c.card
        /\ decided' = decided /\ Finish(only)
    BY <1>10 DEF AppendArchive, At
  <2>2. c2.step = "none" /\ "append archive" \in LessonSteps /\ "none" \notin LessonSteps
    BY <1>2, <2>1, Finishes DEF LessonSteps
  <2> HIDE DEF c, c2
  <2>3. ledger = c.lessons
    BY <1>1, <2>1 DEF SaveOK
  <2>4. LedgerGood(ledger, approved, cards', decided, launch.known)
    BY <1>4, <2>1, <2>2, <2>3 DEF LedgerGood
  <2>5. QED
    BY <2>1, <2>2, <2>4 DEF SaveOK, LessonSteps
<1>11. QED
  BY <1>5, <1>6, <1>8, <1>9, <1>10

\* What a step that is not about the lessons leaves of them.
LEMMA LessonsApart ==
  ASSUME NEW only, Commands = {only}, TypeOK, LessonsOK,
         \/ Edits(only) \/ ReviewList \/ Launcher \/ (Kill(only) /\ ~cut')
         \/ SavePrevious(only) \/ OpenOverlay(only) \/ WriteOverlay(only)
         \/ OpenProposals(only) \/ WriteProposals(only) \/ UNCHANGED vars
  PROVE  LessonsOK'
<1> DEFINE c == command[only]
           c2 == command'[only]
<1>1. SaveOK(c, ledger, approved, cards, decided, launch.known) /\ only \in Commands
  BY LessonsAre
<1>2. CommandTyped
  BY TypeParts
<1> DEFINE Rest ==
      /\ ledger' = ledger /\ approved \subseteq approved'
      /\ c2 = c \/ (c.step # "write ledger" /\ c2.step \notin LessonSteps)
      /\ \A x \in cards' : x \in cards \/ x[1] # "lesson"
      /\ \A x \in decided' : x \in decided \/ x[1] # "lesson"
      /\ launch'.known = launch.known \/ launch'.known = LedgerEntities(ledger)
<1>3. SUFFICES Rest
  <2>1. LessonsSame(c, c2, ledger, approved, cards, decided, launch.known,
                    approved', cards', decided', launch'.known)
    BY <1>3 DEF LessonsSame
  <2>2. ledger' = ledger
    BY <1>3
  <2> HIDE DEF c, c2, Rest
  <2>3. SaveOK(c2, ledger, approved', cards', decided', launch'.known)
    BY <1>1, <2>1, LessonsRest
  <2>4. QED
    BY <2>2, <2>3, LessonsAre DEF c2
<1>4. ASSUME NEW work, Begin(only, work), work.step \notin LessonSteps,
             cards' = cards, approved \subseteq approved'
      PROVE  Rest
  <2>1. /\ c.step = "none" /\ c2 = work /\ ledger' = ledger /\ launch' = launch /\ decided' = decided
    BY <1>1, <1>2, <1>4, BeginIs
  <2>2. QED
    BY <1>4, <2>1
<1>5. CASE Edits(only)
  <2>1. "open proposals" \notin LessonSteps /\ "save previous" \notin LessonSteps
    BY DEF LessonSteps
  <2>2. ASSUME NEW new \in Seq(Proposal), Begin(only, SavingEdits(new)), cards' = cards,
               approved' = approved
        PROVE  Rest
    <3>1. SavingEdits(new).step = "open proposals"
      BY SavingEditsIs
    <3>2. QED
      BY <1>4, <2>1, <2>2, <3>1
  <2>3. ASSUME NEW skill \in Skills, NEW text \in Texts, NEW entities,
               ProposeEdit(only, skill, text, entities)
        PROVE  Rest
    <3>1. PICK edit \in Proposal : /\ Append(proposals, edit) \in Seq(Proposal)
                                   /\ Begin(only, SavingEdits(Append(proposals, edit)))
      BY <1>1, <2>3, ProposeEditIs
    <3>2. cards' = cards /\ approved' = approved
      BY <2>3 DEF ProposeEdit
    <3>3. QED
      BY <2>2, <3>1, <3>2
  <2>4. ASSUME NEW card \in cards, NEW text \in Texts, ApproveEdit(only, card, text)
        PROVE  Rest
    <3>1. PICK work \in Work : Begin(only, work) /\ work.step = "save previous"
      BY <1>1, <2>4, ApproveEditIs
    <3>2. cards' = cards /\ approved \subseteq approved'
      BY <2>4 DEF ApproveEdit
    <3>3. QED
      BY <1>4, <2>1, <3>1, <3>2
  <2>5. ASSUME NEW card \in cards, RejectEdit(only, card)
        PROVE  Rest
    <3>1. PICK new \in Seq(Proposal) : Begin(only, SavingEdits(new))
      BY <1>1, <2>5, RejectEditIs
    <3>2. cards' = cards /\ approved' = approved
      BY <2>5 DEF RejectEdit
    <3>3. QED
      BY <2>2, <3>1, <3>2
  <2> HIDE DEF Rest
  <2>6. QED
    BY <1>5, <2>3, <2>4, <2>5 DEF Edits
<1>6. CASE ReviewList
  <2>1. \A x \in cards' : x \in cards \/ x[1] # "lesson"
    BY <1>6 DEF ReviewList
  <2>2. QED
    BY <1>6, <2>1 DEF ReviewList, files
<1>7. CASE Launcher
  <2>1. ledger' = ledger /\ approved' = approved /\ command' = command /\ cards' = cards /\ decided' = decided
    BY <1>7 DEF Launcher, LaunchStart, LaunchScreen, LaunchImport, files, history
  <2>2. launch'.known = launch.known \/ launch'.known = LedgerEntities(ledger)
    <3>1. launch \in [step: {"none", "screen", "import"}, known: SUBSET Entities, clean: BOOLEAN]
      BY DEF TypeOK
    <3>2. CASE LaunchStart
      BY <3>2 DEF LaunchStart
    <3>3. CASE LaunchScreen
      BY <3>1, <3>3 DEF LaunchScreen
    <3>4. CASE LaunchImport
      BY <3>1, <3>4 DEF LaunchImport
    <3>5. QED
      BY <1>7, <3>2, <3>3, <3>4 DEF Launcher
  <2>3. QED
    BY <2>1, <2>2
<1>8. CASE Kill(only) /\ ~cut'
  <2>1. c2.step = "none"
    BY <1>1, <1>8, Finishes DEF Kill
  <2>2. c.step # "write ledger"
    BY <1>8 DEF Kill
  <2>3. ledger' = ledger /\ approved' = approved /\ cards' = cards /\ decided' = decided /\ launch' = launch
    BY <1>8 DEF Kill, files
  <2>4. QED
    BY <2>1, <2>2, <2>3 DEF LessonSteps
<1>9. CASE SavePrevious(only) \/ OpenOverlay(only) \/ WriteOverlay(only) \/ OpenProposals(only)
  <2>1. c.step # "write ledger"
    BY <1>9 DEF SavePrevious, OpenOverlay, WriteOverlay, OpenProposals, At
  <2>2. c2.step \in {"open overlay", "write overlay", "open proposals", "write proposals", "none"}
    <3>1. {"open overlay", "write overlay", "write proposals"} \subseteq Steps
      BY DEF Steps
    <3>2. CASE SavePrevious(only)
      BY <1>1, <3>1, <3>2, Proceeds DEF SavePrevious
    <3>3. CASE OpenOverlay(only)
      BY <1>1, <3>1, <3>3, Proceeds DEF OpenOverlay
    <3>4. CASE OpenProposals(only)
      BY <1>1, <3>1, <3>4, Proceeds DEF OpenProposals
    <3>5. CASE WriteOverlay(only)
      <4>1. CASE Finish(only)
        BY <1>1, <4>1, Finishes
      <4>2. CASE command' = [command EXCEPT ![only].step = "open proposals",
                               ![only].edits = WithStatus(c.edits, c.target, "approved")]
        <5>1. c2 = [c EXCEPT !.step = "open proposals", !.edits = WithStatus(c.edits, c.target, "approved")]
          BY <1>1, <1>2, <4>2 DEF CommandTyped
        <5>2. c \in Work
          BY <1>1, TypeParts
        <5>3. QED
          BY <5>1, <5>2 DEF Work
      <4>3. QED
        BY <3>5, <4>1, <4>2 DEF WriteOverlay
    <3>6. QED
      BY <1>9, <3>2, <3>3, <3>4, <3>5
  <2>3. ledger' = ledger /\ approved' = approved /\ cards' = cards /\ decided' = decided /\ launch' = launch
    BY <1>9 DEF SavePrevious, OpenOverlay, WriteOverlay, OpenProposals, KeepAll
  <2>4. QED
    BY <2>1, <2>2, <2>3 DEF LessonSteps
<1>10. CASE WriteProposals(only)
  <2>1. c.step # "write ledger" /\ c2.step = "none"
    BY <1>1, <1>10, Finishes DEF WriteProposals, At
  <2>2. ledger' = ledger /\ approved' = approved /\ cards' = cards /\ launch' = launch
    BY <1>10 DEF WriteProposals, KeepAll
  <2>3. \A x \in decided' : x \in decided \/ x[1] # "lesson"
    <3>1. \A x \in Decisions("edit", c.edits) : x[1] = "edit"
      BY DecisionsAre
    <3>2. decided' = decided \cup Decisions("edit", c.edits)
      BY <1>10 DEF WriteProposals
    <3>3. QED
      BY <3>1, <3>2
  <2>4. QED
    BY <2>1, <2>2, <2>3 DEF LessonSteps
<1>11. CASE UNCHANGED vars
  BY <1>11 DEF vars, files, history
<1> HIDE DEF Rest
<1>12. QED
  BY <1>5, <1>6, <1>7, <1>8, <1>9, <1>10, <1>11

(***************************************************************************)
(* The proposals and what a command makes of them.                         *)
(***************************************************************************)
LEMMA EditsAre ==
  ASSUME NEW only, Commands = {only}
  PROVE  /\ EditsOK <=>
              EditOK(command[only], proposals, approved, cards, decided)
         /\ EditsOK' <=>
              EditOK(command'[only], proposals', approved', cards', decided')
  BY DEF EditsOK

\* Nothing happens to the proposals, and no command is between their truncation and write.
EditsSame(c, c2, yes, seen, said, yes2, seen2, said2) ==
  /\ yes \subseteq yes2
  /\ c2 = c \/ (c.step # "write proposals" /\ c2.step \notin EditSteps)
  /\ \A x \in seen2 : x \in seen \/ x[1] # "edit"
  /\ \A x \in said2 : x \in said \/ x[1] # "edit"

LEMMA EditsRest ==
  ASSUME NEW c, NEW c2, NEW file, NEW yes, NEW seen, NEW said,
         NEW yes2, NEW seen2, NEW said2,
         EditOK(c, file, yes, seen, said),
         EditsSame(c, c2, yes, seen, said, yes2, seen2, said2)
  PROVE  EditOK(c2, file, yes2, seen2, said2)
<1>1. c.step # "write proposals" => ProposalsGood(file, seen2, said2)
  BY DEF EditOK, ProposalsGood, EditsSame
<1>2. CASE c2 = c
  <2>1. c.step \in EditSteps => ProposalsGood(c.edits, seen2, said2)
    BY DEF EditOK, ProposalsGood, EditsSame
  <2>2. yes \subseteq yes2
    BY DEF EditsSame
  <2>3. QED
    BY <1>1, <1>2, <2>1, <2>2 DEF EditOK
<1>3. CASE c.step # "write proposals" /\ c2.step \notin EditSteps
  <2>1. c2.step # "write proposals" /\ c2.step \notin OverlaySteps
    BY <1>3 DEF EditSteps, OverlaySteps
  <2>2. QED
    BY <1>1, <1>3, <2>1 DEF EditOK
<1>4. QED
  BY <1>2, <1>3 DEF EditsSame

\* Every record of a file is one that the other records have too.
Extends(edits, file) == \A i \in DOMAIN file : Stands(<<"edit", file[i].id, file[i].text>>, edits)

\* A command has its new proposals ready.
LEMMA EditsReady ==
  ASSUME NEW c, NEW c2, NEW file, NEW yes, NEW seen, NEW said, NEW yes2,
         EditOK(c, file, yes, seen, said), c.step = "none",
         c2.step = "open proposals" \/ (c2.step = "save previous" /\ <<"edit", c2.text>> \in yes2),
         ProposalsGood(c2.edits, seen, said), Extends(c2.edits, file)
  PROVE  EditOK(c2, file, yes2, seen, said)
<1>1. ProposalsGood(file, seen, said)
  BY DEF EditOK
<1>2. "open proposals" \notin OverlaySteps
  BY DEF OverlaySteps
<1>3. QED
  BY <1>1, <1>2 DEF EditOK, Extends

LEMMA RedecidedExtends ==
  ASSUME NEW file, NEW old, NEW new, Extends(old, file), Redecided(old, new)
  PROVE  Extends(new, file)
  BY RedecidedKeeps DEF Extends

LEMMA ExtendsItself ==
  ASSUME NEW file
  PROVE  Extends(file, file)
  BY DEF Extends, Stands

LEMMA EditsBegin ==
  ASSUME NEW only, Commands = {only}, TypeOK, EditsOK, Edits(only)
  PROVE  EditsOK'
<1>1. EditOK(command[only], proposals, approved, cards, decided)
  BY EditsAre
<1>2. proposals \in Seq(Proposal) /\ CommandTyped /\ only \in Commands
  BY TypeParts
<1>3. ASSUME command[only].step = "none"
      PROVE  ProposalsGood(proposals, cards, decided)
  BY <1>1, <1>3 DEF EditOK
<1>4. ASSUME NEW new \in Seq(Proposal), Begin(only, SavingEdits(new)), cards' = cards,
             approved' = approved, Extends(new, proposals),
             ProposalsGood(new, cards, decided)
      PROVE  EditsOK'
  <2>1. SavingEdits(new).step = "open proposals" /\ SavingEdits(new).edits = new
    BY SavingEditsIs
  <2>2. /\ command[only].step = "none" /\ command'[only] = SavingEdits(new)
        /\ proposals' = proposals /\ decided' = decided
    BY <1>2, <1>4, BeginIs
  <2>3. EditOK(SavingEdits(new), proposals, approved, cards, decided)
    BY <1>1, <1>4, <2>1, <2>2, EditsReady
  <2>4. QED
    BY <1>4, <2>2, <2>3, EditsAre
<1>5. ASSUME NEW skill \in Skills, NEW text \in Texts, NEW entities,
             ProposeEdit(only, skill, text, entities)
      PROVE  EditsOK'
  <2>1. PICK edit \in Proposal :
          /\ edit.status = "pending"
          /\ \A i \in DOMAIN proposals : proposals[i].id # edit.id
          /\ Append(proposals, edit) \in Seq(Proposal)
          /\ Begin(only, SavingEdits(Append(proposals, edit)))
    BY <1>2, <1>5, ProposeEditIs
  <2>2. cards' = cards /\ approved' = approved
    BY <1>5 DEF ProposeEdit
  <2>3. ProposalsGood(proposals, cards, decided)
    BY <1>2, <1>3, <2>1, BeginIs
  <2>4. ProposalsGood(Append(proposals, edit), cards, decided)
    BY <1>2, <2>1, <2>3, ProposalsAppend
  <2>5. \A c : Stands(c, proposals) => Stands(c, Append(proposals, edit))
    BY <1>2, <2>1, AppendKeeps
  <2>6. Extends(Append(proposals, edit), proposals)
    BY <2>5, ExtendsItself DEF Extends
  <2>7. QED
    BY <1>4, <2>1, <2>2, <2>4, <2>6
<1>6. ASSUME NEW card \in cards, RejectEdit(only, card)
      PROVE  EditsOK'
  <2>1. PICK new \in Seq(Proposal) :
          /\ Begin(only, SavingEdits(new))
          /\ UniqueIds(proposals) => Redecided(proposals, new)
          /\ \A i \in DOMAIN proposals :
               new[i].status = "approved" => proposals[i].status = "approved"
    BY <1>2, <1>6, RejectEditIs
  <2>2. cards' = cards /\ approved' = approved
    BY <1>6 DEF RejectEdit
  <2>3. ProposalsGood(proposals, cards, decided)
    BY <1>2, <1>3, <2>1, BeginIs
  <2>4. Redecided(proposals, new)
    BY <2>1, <2>3 DEF ProposalsGood
  <2>5. ProposalsGood(new, cards, decided)
    BY <2>1, <2>3, <2>4, ProposalsChange
  <2>6. Extends(new, proposals)
    BY <2>4, ExtendsItself, RedecidedExtends
  <2>7. QED
    BY <1>4, <2>1, <2>2, <2>5, <2>6
<1>7. ASSUME NEW card \in cards, NEW text \in Texts, ApproveEdit(only, card, text)
      PROVE  EditsOK'
  <2>1. PICK work \in Work :
          /\ Begin(only, work) /\ card[1] = "edit"
          /\ work.step = "save previous" /\ work.edits = proposals
          /\ UniqueIds(proposals) /\ Stands(card, proposals) => work.text = text
    BY <1>2, <1>7, ApproveEditIs
  <2>2. cards' = cards /\ <<"edit", text>> \in approved'
    BY <1>7 DEF ApproveEdit
  <2>3. /\ command[only].step = "none" /\ command'[only] = work
        /\ proposals' = proposals /\ decided' = decided
    BY <1>2, <2>1, BeginIs
  <2>4. ProposalsGood(proposals, cards, decided)
    BY <1>3, <2>3
  <2>5. UniqueIds(proposals) /\ Stands(card, proposals)
    BY <2>1, <2>4 DEF ProposalsGood
  <2>6. Extends(proposals, proposals) /\ <<"edit", work.text>> \in approved'
    BY <2>1, <2>2, <2>5, ExtendsItself
  <2>7. EditOK(work, proposals, approved', cards, decided)
    BY <1>1, <2>1, <2>3, <2>4, <2>6, EditsReady
  <2>8. QED
    BY <2>2, <2>3, <2>7, EditsAre
<1>8. QED
  BY <1>5, <1>6, <1>7 DEF Edits

LEMMA EditsSeen ==
  ASSUME NEW only, Commands = {only}, TypeOK, EditsOK, ReviewList
  PROVE  EditsOK'
<1> DEFINE c == command[only]
<1>1. EditOK(c, proposals, approved, cards, decided)
  BY EditsAre
<1>2. /\ command' = command /\ proposals' = proposals /\ approved' = approved
      /\ decided' = decided
  BY DEF ReviewList, files
<1>3. \A x \in cards' : x \in cards \/ \E i \in DOMAIN proposals :
                                         x = <<"edit", proposals[i].id, proposals[i].text>>
  BY DEF ReviewList
<1> HIDE DEF c
<1>4. ASSUME NEW edits, ProposalsGood(edits, cards, decided), Extends(edits, proposals)
      PROVE  ProposalsGood(edits, cards', decided)
  BY <1>3, <1>4 DEF ProposalsGood, Extends
<1>5. c.step # "write proposals" => ProposalsGood(proposals, cards', decided)
  BY <1>1, <1>4, ExtendsItself DEF EditOK
<1>6. c.step \in EditSteps => ProposalsGood(c.edits, cards', decided)
  BY <1>1, <1>4 DEF EditOK, Extends
<1>7. EditOK(c, proposals, approved, cards', decided)
  BY <1>1, <1>5, <1>6 DEF EditOK
<1>8. QED
  BY <1>2, <1>7, EditsAre DEF c

\* Approving a proposal redecides it, if its status lets it.
LEMMA ApprovedIs ==
  ASSUME NEW edits \in Seq(Proposal), NEW id, UniqueIds(edits),
         MayBecome(WithId(edits, id).status, "approved")
  PROVE  Redecided(edits, WithStatus(edits, id, "approved"))
<1> DEFINE new == WithStatus(edits, id, "approved")
<1>1. "approved" \in ProposalStatus
  BY DEF ProposalStatus
<1>2. /\ DOMAIN new = DOMAIN edits
      /\ \A i \in DOMAIN edits :
           /\ new[i].id = edits[i].id /\ new[i].text = edits[i].text
           /\ new[i].status = IF edits[i].id = id THEN "approved" ELSE edits[i].status
  BY <1>1, ProposalStatusIs
<1> HIDE DEF new
<1>3. ASSUME NEW i \in DOMAIN edits, edits[i].id = id
      PROVE  edits[i].status \notin {"accepted", "approved", "rejected"}
  <2>1. HasId(edits, id)
    BY <1>3 DEF HasId
  <2>2. PICK k \in DOMAIN edits : edits[k].id = id /\ WithId(edits, id) = edits[k]
    BY <2>1, WithIdIs
  <2>3. k = i
    BY <1>3, <2>2 DEF UniqueIds
  <2>4. QED
    BY <2>2, <2>3 DEF MayBecome
<1>4. Redecided(edits, new)
  BY <1>2, <1>3 DEF Redecided
<1>5. QED
  BY <1>4 DEF new

LEMMA OverlayWritten ==
  ASSUME NEW only, Commands = {only}, TypeOK, EditsOK, WriteOverlay(only)
  PROVE  EditsOK'
<1> DEFINE c == command[only]
           c2 == command'[only]
           new == WithStatus(c.edits, c.target, "approved")
<1>1. EditOK(c, proposals, approved, cards, decided) /\ only \in Commands
  BY EditsAre
<1>2. CommandTyped /\ c \in Work
  BY <1>1, TypeParts
<1>3. c.edits \in Seq(Proposal)
  BY <1>2, WorkFields
<1>4. /\ c.step = "write overlay" /\ proposals' = proposals
      /\ approved' = approved /\ cards' = cards /\ decided' = decided
  BY DEF WriteOverlay, At, KeepAll
<1>5. "write overlay" \in EditSteps /\ "open proposals" \notin OverlaySteps
  BY DEF EditSteps, OverlaySteps
<1>6. SUFFICES EditOK(c2, proposals, approved, cards, decided)
  BY <1>4, EditsAre
<1>7. ProposalsGood(proposals, cards, decided)
  BY <1>1, <1>4 DEF EditOK
<1>8. CASE Finish(only)
  <2>1. c2.step = "none"
    BY <1>1, <1>8, Finishes
  <2> HIDE DEF c, c2
  <2>2. QED
    BY <1>7, <2>1 DEF EditOK, EditSteps, OverlaySteps
<1>9. CASE /\ MayBecome(WithId(c.edits, c.target).status, "approved")
           /\ command' = [command EXCEPT ![only].step = "open proposals", ![only].edits = new]
  <2>1. c2 = [c EXCEPT !.step = "open proposals", !.edits = new]
    BY <1>1, <1>2, <1>9 DEF CommandTyped
  <2>2. c2.step = "open proposals" /\ c2.edits = new
    BY <1>2, <2>1 DEF Work
  <2>3. ProposalsGood(c.edits, cards, decided) /\ Extends(c.edits, proposals)
    BY <1>1, <1>4, <1>5 DEF EditOK, Extends
  <2>4. UniqueIds(c.edits)
    BY <2>3 DEF ProposalsGood
  <2>5. Redecided(c.edits, new)
    BY <1>3, <1>9, <2>4, ApprovedIs
  <2> HIDE DEF c, c2, new
  <2>6. ProposalsGood(new, cards, decided)
    BY <2>3, <2>5, ProposalsChange
  <2>7. Extends(new, proposals)
    BY <2>3, <2>5, RedecidedExtends
  <2>8. QED
    BY <1>5, <1>7, <2>2, <2>6, <2>7 DEF EditOK, Extends
<1>10. QED
  BY <1>8, <1>9 DEF WriteOverlay

LEMMA EditsWritten ==
  ASSUME NEW only, Commands = {only}, TypeOK, EditsOK,
         SavePrevious(only) \/ OpenOverlay(only) \/ OpenProposals(only) \/ WriteProposals(only)
  PROVE  EditsOK'
<1> DEFINE c == command[only]
           c2 == command'[only]
<1>1. EditOK(c, proposals, approved, cards, decided) /\ only \in Commands
  BY EditsAre
<1>2. approved' = approved /\ cards' = cards
  BY DEF SavePrevious, OpenOverlay, OpenProposals, WriteProposals, KeepAll
<1>3. SUFFICES EditOK(c2, proposals', approved, cards, decided')
  BY <1>2, EditsAre
<1>4. ASSUME c.step \in {"save previous", "open overlay"},
             NEW step \in {"open overlay", "write overlay"}, Proceed(only, step),
             proposals' = proposals, decided' = decided
      PROVE  EditOK(c2, proposals', approved, cards, decided')
  <2>1. step \in Steps /\ c.step \in EditSteps /\ c.step \in OverlaySteps /\ step # "write proposals"
    BY <1>4 DEF Steps, EditSteps, OverlaySteps
  <2>2. c2.step = step /\ c2.edits = c.edits /\ c2.text = c.text
    BY <1>1, <1>4, <2>1, Proceeds
  <2>3. c.step # "write proposals"
    BY <1>4
  <2> HIDE DEF c, c2
  <2>4. QED
    BY <1>1, <1>4, <2>1, <2>2, <2>3 DEF EditOK
<1>5. CASE SavePrevious(only)
  BY <1>4, <1>5 DEF SavePrevious, At
<1>6. CASE OpenOverlay(only)
  BY <1>4, <1>6 DEF OpenOverlay, At
<1>7. CASE OpenProposals(only)
  <2>1. /\ c.step = "open proposals" /\ proposals' = <<>> /\ decided' = decided
        /\ Proceed(only, "write proposals")
    BY <1>7 DEF OpenProposals, At
  <2>2. /\ "write proposals" \in Steps /\ "open proposals" \in EditSteps
        /\ "write proposals" \notin OverlaySteps
    BY DEF Steps, EditSteps, OverlaySteps
  <2>3. c2.step = "write proposals" /\ c2.edits = c.edits
    BY <1>1, <2>1, <2>2, Proceeds
  <2>4. Extends(c.edits, <<>>)
    BY DEF Extends
  <2> HIDE DEF c, c2
  <2>5. ProposalsGood(c.edits, cards, decided)
    BY <1>1, <2>1, <2>2 DEF EditOK
  <2>6. EditOK(c2, <<>>, approved, cards, decided)
    BY <2>2, <2>3, <2>4, <2>5 DEF EditOK, Extends
  <2>7. QED
    BY <2>1, <2>6
<1>8. CASE WriteProposals(only)
  <2>1. /\ c.step = "write proposals" /\ proposals' = c.edits
        /\ decided' = decided \cup Decisions("edit", c.edits) /\ Finish(only)
    BY <1>8 DEF WriteProposals, At
  <2>2. "write proposals" \in EditSteps /\ "none" \notin EditSteps /\ "none" \notin OverlaySteps
    BY DEF EditSteps, OverlaySteps
  <2>3. c2.step = "none"
    BY <1>1, <2>1, Finishes
  <2> HIDE DEF c, c2
  <2>4. ProposalsGood(c.edits, cards, decided')
    BY <1>1, <2>1, <2>2 DEF EditOK, ProposalsGood
  <2>5. EditOK(c2, c.edits, approved, cards, decided')
    BY <2>2, <2>3, <2>4 DEF EditOK
  <2>6. QED
    BY <2>1, <2>5
<1>9. QED
  BY <1>5, <1>6, <1>7, <1>8

\* What a step that is not about the proposals leaves of them.
LEMMA EditsApart ==
  ASSUME NEW only, Commands = {only}, TypeOK, LessonsOK, EditsOK,
         \/ Lessons(only) \/ Launcher \/ (Kill(only) /\ ~cut')
         \/ OpenLedger(only) \/ WriteLedger(only) \/ OpenMemory(only) \/ WriteMemory(only)
         \/ AppendArchive(only) \/ UNCHANGED vars
  PROVE  EditsOK'
<1> DEFINE c == command[only]
           c2 == command'[only]
<1>1. EditOK(c, proposals, approved, cards, decided) /\ only \in Commands
  BY EditsAre
<1>2. CommandTyped
  BY TypeParts
<1> DEFINE Rest ==
      /\ proposals' = proposals
      /\ EditsSame(c, c2, approved, cards, decided, approved', cards', decided')
<1>3. SUFFICES Rest
  <2>1. /\ proposals' = proposals
        /\ EditsSame(c, c2, approved, cards, decided, approved', cards', decided')
    BY <1>3
  <2> HIDE DEF c, c2, Rest
  <2>2. EditOK(c2, proposals, approved', cards', decided')
    BY <1>1, <2>1, EditsRest
  <2>3. QED
    BY <2>1, <2>2, EditsAre DEF c2
<1>4. CASE Lessons(only)
  <2>1. ASSUME NEW new \in Seq(Lesson), NEW card \in SUBSET Card, Begin(only, Saving(new, card)),
               cards' = cards, approved \subseteq approved'
        PROVE  Rest
    <3>1. Saving(new, card).step = "open ledger" /\ "open ledger" \notin EditSteps
      BY SavingIs DEF EditSteps, OverlaySteps
    <3>2. /\ c.step = "none" /\ c2 = Saving(new, card) /\ proposals' = proposals
          /\ decided' = decided
      BY <1>1, <1>2, <2>1, BeginIs
    <3>3. QED
      BY <2>1, <3>1, <3>2 DEF EditsSame
  <2>2. ASSUME NEW text \in Texts, NEW entities \in SUBSET Entities, Propose(only, text, entities)
        PROVE  Rest
    <3>1. PICK lesson \in Lesson :
            /\ <<"lesson", lesson.id, lesson.text>> \in Card
            /\ Append(ledger, lesson) \in Seq(Lesson)
            /\ Begin(only, Saving(Append(ledger, lesson), {<<"lesson", lesson.id, lesson.text>>}))
      BY <1>1, <2>2, ProposeIs
    <3>2. cards' = cards /\ approved' = approved
      BY <2>2 DEF Propose
    <3>3. {<<"lesson", lesson.id, lesson.text>>} \in SUBSET Card
      BY <3>1
    <3> HIDE DEF Rest
    <3>4. QED
      BY <2>1, <3>1, <3>2, <3>3
  <2>3. ASSUME NEW card \in cards, NEW status \in {"accepted", "rejected"},
               Decide(only, card, status), approved \subseteq approved'
        PROVE  Rest
    <3>1. PICK new \in Seq(Lesson) : Begin(only, Saving(new, {}))
      BY <1>1, <2>3, DecideIs
    <3>2. cards' = cards /\ {} \in SUBSET Card
      BY <2>3 DEF Decide
    <3> HIDE DEF Rest
    <3>3. QED
      BY <2>1, <2>3, <3>1, <3>2
  <2>4. ASSUME Render(only)
        PROVE  Rest
    <3>1. ledger \in Seq(Lesson) /\ Begin(only, Saving(ledger, {})) /\ cards' = cards
          /\ approved' = approved /\ {} \in SUBSET Card
      BY <2>4, TypeParts DEF Render
    <3> HIDE DEF Rest
    <3>2. QED
      BY <2>1, <3>1
  <2> HIDE DEF Rest
  <2>5. ASSUME NEW card \in cards, Accept(only, card)
        PROVE  Rest
    BY <2>3, <2>5 DEF Accept
  <2>6. ASSUME NEW card \in cards, Reject(only, card)
        PROVE  Rest
    BY <2>3, <2>6 DEF Reject
  <2>7. QED
    BY <1>4, <2>2, <2>4, <2>5, <2>6 DEF Lessons
<1>5. CASE Launcher
  BY <1>5 DEF Launcher, LaunchStart, LaunchScreen, LaunchImport, files, history, EditsSame
<1>6. CASE Kill(only) /\ ~cut'
  <2>1. c2.step = "none" /\ c.step # "write proposals"
    BY <1>1, <1>6, Finishes DEF Kill
  <2>2. /\ proposals' = proposals
        /\ approved' = approved /\ cards' = cards /\ decided' = decided
    BY <1>6 DEF Kill, files
  <2>3. QED
    BY <2>1, <2>2 DEF EditsSame, EditSteps, OverlaySteps
<1>7. CASE OpenLedger(only) \/ WriteLedger(only) \/ OpenMemory(only) \/ WriteMemory(only)
  <2>1. c.step # "write proposals"
    BY <1>7 DEF OpenLedger, WriteLedger, OpenMemory, WriteMemory, At
  <2>2. c2.step \in {"write ledger", "open memory", "write memory", "append archive"}
    <3>1. {"write ledger", "open memory", "write memory", "append archive"} \subseteq Steps
      BY DEF Steps
    <3>2. CASE OpenLedger(only)
      BY <1>1, <3>1, <3>2, Proceeds DEF OpenLedger
    <3>3. CASE WriteLedger(only)
      BY <1>1, <3>1, <3>3, Proceeds DEF WriteLedger
    <3>4. CASE OpenMemory(only)
      BY <1>1, <3>1, <3>4, Proceeds DEF OpenMemory
    <3>5. CASE WriteMemory(only)
      BY <1>1, <3>1, <3>5, Proceeds DEF WriteMemory
    <3>6. QED
      BY <1>7, <3>2, <3>3, <3>4, <3>5
  <2>3. \A x \in decided' : x \in decided \/ x[1] # "edit"
    <3>1. \A x \in Decisions("lesson", c.lessons) : x[1] = "lesson"
      BY DecisionsAre
    <3>2. decided' = decided \/ decided' = decided \cup Decisions("lesson", c.lessons)
      BY <1>7 DEF OpenLedger, WriteLedger, OpenMemory, WriteMemory
    <3>3. QED
      BY <3>1, <3>2
  <2>4. proposals' = proposals /\ approved' = approved /\ cards' = cards
    BY <1>7 DEF OpenLedger, WriteLedger, OpenMemory, WriteMemory, KeepAll
  <2>5. QED
    BY <2>1, <2>2, <2>3, <2>4 DEF EditsSame, EditSteps, OverlaySteps
<1>8. CASE AppendArchive(only)
  <2>1. c.step = "append archive" /\ c2.step = "none" /\ cards' = cards \cup c.card
    BY <1>1, <1>8, Finishes DEF AppendArchive, At
  <2>2. proposals' = proposals /\ approved' = approved /\ decided' = decided
    BY <1>8 DEF AppendArchive, KeepAll
  <2>3. \A x \in c.card : x[1] = "lesson"
    <3>1. SaveOK(c, ledger, approved, cards, decided, launch.known)
      BY LessonsAre
    <3>2. QED
      BY <2>1, <3>1 DEF SaveOK, LessonSteps
  <2>4. QED
    BY <2>1, <2>2, <2>3 DEF EditsSame, EditSteps, OverlaySteps
<1>9. CASE UNCHANGED vars
  BY <1>9 DEF vars, files, history, EditsSame
<1> HIDE DEF Rest
<1>10. QED
  BY <1>4, <1>5, <1>6, <1>7, <1>8, <1>9

(***************************************************************************)
(* The memory, the overlays and what the launcher makes of them.           *)
(***************************************************************************)
LEMMA HotAccepted ==
  ASSUME NEW lessons, NEW t \in Hot(lessons)
  PROVE  \E i \in DOMAIN lessons :
           /\ lessons[i].status = "accepted" /\ lessons[i].text = t
           /\ Clean(t, LedgerEntities(lessons))
  BY DEF Hot, Sane

\* Which commands are there to write: the memory, from the lessons the command holds.
LEMMA MemoryWritten ==
  ASSUME NEW only, Commands = {only}, TypeOK, LessonsOK, WriteMemory(only)
  PROVE  /\ LedgerGood(command[only].lessons, approved, cards, decided, launch.known)
         /\ ledger = command[only].lessons /\ memory' = Hot(command[only].lessons)
<1>1. command[only].step = "write memory" /\ memory' = Hot(command[only].lessons)
  BY DEF WriteMemory, At
<1>2. SaveOK(command[only], ledger, approved, cards, decided, launch.known)
  BY LessonsAre
<1>3. QED
  BY <1>1, <1>2 DEF SaveOK, LessonSteps

\* What the commands and the launcher may do to what is shown.
LEMMA ShownStep ==
  ASSUME NEW only, Commands = {only}, TypeOK, LessonsOK, EditsOK, ShownOK, [Next]_vars
  PROVE  ShownOK'
<1>1. only \in Commands
  OBVIOUS
<1>2. ASSUME approved \subseteq approved', memory' = memory, context' = context,
             overlay' = overlay, active' = active
      PROVE  ShownOK'
  BY <1>2 DEF ShownOK
<1>3. ASSUME NEW work, Begin(only, work), approved \subseteq approved'
      PROVE  ShownOK'
  BY <1>2, <1>3 DEF Begin, files
<1>4. CASE Lessons(only)
  <2>1. ASSUME NEW text, NEW entities, Propose(only, text, entities)
        PROVE  ShownOK'
    BY <1>3, <2>1 DEF Propose
  <2>2. ASSUME NEW card, NEW status, Decide(only, card, status), approved \subseteq approved'
        PROVE  ShownOK'
    BY <1>3, <2>2 DEF Decide
  <2>3. QED
    BY <1>3, <1>4, <2>1, <2>2 DEF Lessons, Accept, Reject, Render
<1>5. CASE Edits(only)
  <2>1. ASSUME NEW skill, NEW text, NEW entities, ProposeEdit(only, skill, text, entities)
        PROVE  ShownOK'
    BY <1>3, <2>1 DEF ProposeEdit
  <2>2. ASSUME NEW card, NEW text, ApproveEdit(only, card, text)
        PROVE  ShownOK'
    BY <1>3, <2>2 DEF ApproveEdit
  <2>3. ASSUME NEW card, RejectEdit(only, card)
        PROVE  ShownOK'
    BY <1>3, <2>3 DEF RejectEdit
  <2>4. QED
    BY <1>5, <2>1, <2>2, <2>3 DEF Edits
<1>6. CASE OpenLedger(only) \/ WriteLedger(only) \/ AppendArchive(only) \/ SavePrevious(only)
             \/ OpenProposals(only) \/ WriteProposals(only)
  BY <1>2, <1>6 DEF OpenLedger, WriteLedger, AppendArchive, SavePrevious, OpenProposals,
                    WriteProposals, KeepAll
<1>7. CASE OpenMemory(only)
  <2>1. /\ memory' = {} /\ context' = context /\ overlay' = overlay /\ active' = active
        /\ approved' = approved
    BY <1>7 DEF OpenMemory, KeepAll
  <2>2. QED
    BY <2>1 DEF ShownOK
<1>8. CASE WriteMemory(only)
  <2>1. /\ context' = context /\ overlay' = overlay /\ active' = active /\ approved' = approved
    BY <1>8 DEF WriteMemory, KeepAll
  <2>2. \A t \in memory' : <<"lesson", t>> \in approved
    BY <1>8, MemoryWritten, HotAccepted DEF LedgerGood
  <2>3. QED
    BY <2>1, <2>2 DEF ShownOK
<1>9. CASE OpenOverlay(only) \/ WriteOverlay(only)
  <2>1. /\ memory' = memory /\ context' = context /\ active' = active /\ approved' = approved
    BY <1>9 DEF OpenOverlay, WriteOverlay, KeepAll
  <2>2. overlay' = [overlay EXCEPT ![command[only].skill] = Empty]
        \/ (overlay' = [overlay EXCEPT ![command[only].skill] = command[only].text]
             /\ command[only].step = "write overlay")
    BY <1>9 DEF OpenOverlay, WriteOverlay, At
  <2>3. command[only].step = "write overlay" => <<"edit", command[only].text>> \in approved
    <3>1. EditOK(command[only], proposals, approved, cards, decided)
      BY EditsAre
    <3>2. QED
      BY <3>1 DEF EditOK, OverlaySteps
  <2>4. overlay \in [Skills -> Texts \cup {Absent, Empty}] /\ Empty \notin Texts
    BY TypeFiles, LearningAssumption
  <2>5. \A s \in Skills : overlay'[s] = overlay[s] \/ overlay'[s] = Empty
                            \/ (overlay'[s] = command[only].text /\ command[only].step = "write overlay")
    BY <2>2, <2>4
  <2>6. \A s \in Skills : overlay'[s] \in Texts => <<"edit", overlay'[s]>> \in approved
    BY <2>3, <2>4, <2>5 DEF ShownOK
  <2>7. QED
    BY <2>1, <2>6 DEF ShownOK
<1>10. CASE Launcher
  <2>1. CASE LaunchStart \/ LaunchScreen
    BY <1>2, <2>1 DEF LaunchStart, LaunchScreen, files, history
  <2>2. CASE LaunchImport
    <3>1. /\ memory' = memory /\ overlay' = overlay /\ approved' = approved /\ active' = overlay
          /\ context' \subseteq memory
      BY <2>2 DEF LaunchImport, files, history
    <3>2. QED
      BY <3>1 DEF ShownOK
  <2>3. QED
    BY <1>10, <2>1, <2>2 DEF Launcher
<1>11. CASE ReviewList \/ Kill(only) \/ UNCHANGED vars
  BY <1>2, <1>11 DEF ReviewList, Kill, vars, files, history
<1>12. QED
  BY <1>4, <1>5, <1>6, <1>7, <1>8, <1>9, <1>10, <1>11 DEF Next, Writes

LEMMA ScreenStep ==
  ASSUME NEW only, Commands = {only}, TypeOK, LessonsOK, ScreenOK, [Next]_vars
  PROVE  ScreenOK'
<1>1. ASSUME memory' \subseteq memory, context' = context, launch' = launch
      PROVE  ScreenOK'
  BY <1>1 DEF ScreenOK
<1>2. ASSUME NEW work, Begin(only, work)
      PROVE  ScreenOK'
  BY <1>1, <1>2 DEF Begin, files
<1>3. CASE Lessons(only)
  <2>1. ASSUME NEW text, NEW entities, Propose(only, text, entities)
        PROVE  ScreenOK'
    BY <1>2, <2>1 DEF Propose
  <2>2. ASSUME NEW card, NEW status, Decide(only, card, status)
        PROVE  ScreenOK'
    BY <1>2, <2>2 DEF Decide
  <2>3. QED
    BY <1>2, <1>3, <2>1, <2>2 DEF Lessons, Accept, Reject, Render
<1>4. CASE Edits(only)
  <2>1. ASSUME NEW skill, NEW text, NEW entities, ProposeEdit(only, skill, text, entities)
        PROVE  ScreenOK'
    BY <1>2, <2>1 DEF ProposeEdit
  <2>2. ASSUME NEW card, NEW text, ApproveEdit(only, card, text)
        PROVE  ScreenOK'
    BY <1>2, <2>2 DEF ApproveEdit
  <2>3. ASSUME NEW card, RejectEdit(only, card)
        PROVE  ScreenOK'
    BY <1>2, <2>3 DEF RejectEdit
  <2>4. QED
    BY <1>4, <2>1, <2>2, <2>3 DEF Edits
<1>5. CASE OpenLedger(only) \/ WriteLedger(only) \/ OpenMemory(only) \/ AppendArchive(only)
             \/ SavePrevious(only) \/ OpenOverlay(only) \/ WriteOverlay(only)
             \/ OpenProposals(only) \/ WriteProposals(only)
  BY <1>1, <1>5 DEF OpenLedger, WriteLedger, OpenMemory, AppendArchive, SavePrevious,
                    OpenOverlay, WriteOverlay, OpenProposals, WriteProposals, KeepAll
<1>6. CASE WriteMemory(only)
  <2>1. context' = context /\ launch' = launch
    BY <1>6 DEF WriteMemory, KeepAll
  <2>2. launch.known \subseteq LedgerEntities(command[only].lessons)
    BY <1>6, MemoryWritten DEF LedgerGood
  <2>3. \A t \in memory' : Clean(t, LedgerEntities(command[only].lessons))
    BY <1>6, MemoryWritten, HotAccepted
  <2>4. \A t \in memory' : Clean(t, launch.known)
    BY <2>2, <2>3 DEF Clean
  <2>5. QED
    BY <2>1, <2>4 DEF ScreenOK
<1>7. CASE Launcher
  <2>1. launch \in [step: {"none", "screen", "import"}, known: SUBSET Entities, clean: BOOLEAN]
    BY DEF TypeOK
  <2>2. CASE LaunchStart
    BY <2>2 DEF LaunchStart, ScreenOK
  <2>3. CASE LaunchScreen
    <3>1. launch'.step = "import" /\ launch'.known = launch.known /\ memory' = memory
      BY <2>1, <2>3 DEF LaunchScreen, files
    <3>2. launch'.clean = (\A t \in memory : Clean(t, launch.known))
      BY <2>1, <2>3 DEF LaunchScreen
    <3>3. QED
      BY <3>1, <3>2 DEF ScreenOK
  <2>4. CASE LaunchImport
    <3>1. launch.step = "import" /\ launch'.step = "none" /\ launch'.known = launch.known
      BY <2>1, <2>4 DEF LaunchImport
    <3>2. context' = IF launch.clean THEN memory ELSE {}
      BY <2>4 DEF LaunchImport
    <3>3. \A t \in context' : Clean(t, launch.known)
      BY <3>1, <3>2 DEF ScreenOK
    <3>4. QED
      BY <3>1, <3>3 DEF ScreenOK
  <2>5. QED
    BY <1>7, <2>2, <2>3, <2>4 DEF Launcher
<1>8. CASE ReviewList \/ Kill(only) \/ UNCHANGED vars
  BY <1>1, <1>8 DEF ReviewList, Kill, vars, files, history
<1>9. QED
  BY <1>3, <1>4, <1>5, <1>6, <1>7, <1>8 DEF Next, Writes

LEMMA MemoryStep ==
  ASSUME NEW only, Commands = {only}, TypeOK, LessonsOK, MemoryOK, [Next]_vars
  PROVE  MemoryOK'
<1> DEFINE c == command[only]
           c2 == command'[only]
<1>1. only \in Commands /\ CommandTyped
  BY TypeParts
<1>2. ASSUME ledger' = ledger, memory' = memory, half => half',
             c.step \in MidSave => c2.step \in MidSave \/ half'
      PROVE  MemoryOK'
  BY <1>2 DEF MemoryOK
<1>3. ASSUME c2.step \in MidSave
      PROVE  MemoryOK'
  BY <1>1, <1>3 DEF MemoryOK
<1>4. ASSUME NEW work, Begin(only, work)
      PROVE  MemoryOK'
  <2>1. ledger' = ledger /\ memory' = memory /\ half' = half /\ c.step = "none"
    BY <1>1, <1>4, BeginIs
  <2>2. QED
    BY <1>2, <2>1 DEF MidSave
<1>5. CASE Lessons(only)
  <2>1. ASSUME NEW text, NEW entities, Propose(only, text, entities)
        PROVE  MemoryOK'
    BY <1>4, <2>1 DEF Propose
  <2>2. ASSUME NEW card, NEW status, Decide(only, card, status)
        PROVE  MemoryOK'
    BY <1>4, <2>2 DEF Decide
  <2>3. QED
    BY <1>4, <1>5, <2>1, <2>2 DEF Lessons, Accept, Reject, Render
<1>6. CASE Edits(only)
  <2>1. ASSUME NEW skill, NEW text, NEW entities, ProposeEdit(only, skill, text, entities)
        PROVE  MemoryOK'
    BY <1>4, <2>1 DEF ProposeEdit
  <2>2. ASSUME NEW card, NEW text, ApproveEdit(only, card, text)
        PROVE  MemoryOK'
    BY <1>4, <2>2 DEF ApproveEdit
  <2>3. ASSUME NEW card, RejectEdit(only, card)
        PROVE  MemoryOK'
    BY <1>4, <2>3 DEF RejectEdit
  <2>4. QED
    BY <1>6, <2>1, <2>2, <2>3 DEF Edits
<1>7. CASE OpenLedger(only) \/ WriteLedger(only) \/ OpenMemory(only)
  <2>1. PICK step \in MidSave : Proceed(only, step)
    BY <1>7 DEF OpenLedger, WriteLedger, OpenMemory, MidSave
  <2>2. step \in Steps
    BY DEF MidSave, Steps
  <2>3. c2.step = step
    BY <1>1, <2>1, <2>2, Proceeds
  <2>4. QED
    BY <1>3, <2>3
<1>8. CASE WriteMemory(only)
  <2>1. ledger' = ledger
    BY <1>8 DEF WriteMemory
  <2>2. memory' = Hot(ledger)
    BY <1>8, MemoryWritten
  <2>3. QED
    BY <2>1, <2>2 DEF MemoryOK
<1>9. CASE AppendArchive(only) \/ SavePrevious(only) \/ OpenOverlay(only) \/ WriteOverlay(only)
             \/ OpenProposals(only) \/ WriteProposals(only)
  <2>1. ledger' = ledger /\ memory' = memory /\ half' = half
    BY <1>9 DEF AppendArchive, SavePrevious, OpenOverlay, WriteOverlay, OpenProposals, WriteProposals
  <2>2. c.step \notin MidSave
    BY <1>9 DEF AppendArchive, SavePrevious, OpenOverlay, WriteOverlay, OpenProposals,
                WriteProposals, At, MidSave
  <2>3. QED
    BY <1>2, <2>1, <2>2
<1>10. CASE Kill(only)
  <2>1. ledger' = ledger /\ memory' = memory /\ half' = (half \/ c.step \in MidSave)
    BY <1>10 DEF Kill, files
  <2>2. QED
    BY <1>2, <2>1
<1>11. CASE ReviewList \/ Launcher \/ UNCHANGED vars
  <2>1. ledger' = ledger /\ memory' = memory /\ half' = half /\ command' = command
    BY <1>11 DEF ReviewList, Launcher, LaunchStart, LaunchScreen, LaunchImport, vars, files, history
  <2>2. QED
    BY <1>2, <2>1
<1>12. QED
  BY <1>5, <1>6, <1>7, <1>8, <1>9, <1>10, <1>11 DEF Next, Writes

(***************************************************************************)
(* All of it.                                                              *)
(***************************************************************************)
LEMMA FilesInit ==
  ASSUME NEW only, Commands = {only}, Init
  PROVE  FilesOK
<1> DEFINE c == command[only]
<1>1. c.step = "none"
  BY IdleIs DEF Init
<1>2. /\ ledger = <<>> /\ proposals = <<>> /\ memory = {} /\ context = {} /\ cards = {}
      /\ decided = {} /\ approved = {}
      /\ overlay = [s \in Skills |-> Absent] /\ active = [s \in Skills |-> Absent]
      /\ launch = [step |-> "none", known |-> {}, clean |-> FALSE]
  BY DEF Init
<1>3. launch.known = {} /\ launch.step = "none"
  BY <1>2
<1>4. LedgerGood(<<>>, {}, {}, {}, {})
  BY DEF LedgerGood, UniqueIds, UniqueTexts
<1>5. ProposalsGood(<<>>, {}, {})
  BY DEF ProposalsGood, UniqueIds
<1> HIDE DEF c
<1>6. SaveOK(c, <<>>, {}, {}, {}, {})
  BY <1>1, <1>4 DEF SaveOK, LessonSteps
<1>7. EditOK(c, <<>>, {}, {}, {})
  BY <1>1, <1>5 DEF EditOK, EditSteps, OverlaySteps
<1>8. LessonsOK
  BY <1>2, <1>3, <1>6, LessonsAre DEF c
<1>9. EditsOK
  BY <1>2, <1>7, EditsAre DEF c
<1>10. ShownOK
  BY <1>2, LearningAssumption DEF ShownOK
<1>11. ScreenOK
  BY <1>2, <1>3 DEF ScreenOK
<1>12. Hot(<<>>) = {}
  BY DEF Hot, Sane
<1>13. MemoryOK
  BY <1>2, <1>12 DEF MemoryOK
<1>14. QED
  BY <1>8, <1>9, <1>10, <1>11, <1>13 DEF FilesOK

\* A file that a kill left empty is never whole again.
LEMMA CutStays ==
  ASSUME [Next]_vars, cut
  PROVE  cut'
<1>1. ASSUME NEW p, NEW work, Begin(p, work)
      PROVE  cut'
  BY <1>1 DEF Begin
<1>2. ASSUME NEW p, Lessons(p)
      PROVE  cut'
  BY <1>1, <1>2 DEF Lessons, Propose, Accept, Reject, Decide, Render
<1>3. ASSUME NEW p, Edits(p)
      PROVE  cut'
  BY <1>1, <1>3 DEF Edits, ProposeEdit, ApproveEdit, RejectEdit
<1>4. ASSUME NEW p, Writes(p)
      PROVE  cut'
  BY <1>4 DEF Writes, OpenLedger, WriteLedger, OpenMemory, WriteMemory, AppendArchive,
              SavePrevious, OpenOverlay, WriteOverlay, OpenProposals, WriteProposals, KeepAll
<1>5. ASSUME NEW p, Kill(p)
      PROVE  cut'
  BY <1>5 DEF Kill
<1>6. CASE ReviewList \/ Launcher \/ UNCHANGED vars
  BY <1>6 DEF ReviewList, Launcher, LaunchStart, LaunchScreen, LaunchImport, vars, history
<1>7. QED
  BY <1>2, <1>3, <1>4, <1>5, <1>6 DEF Next

LEMMA FilesStep ==
  ASSUME NEW only, Commands = {only}, TypeOK, FilesOK, [Next]_vars
  PROVE  FilesOK'
<1>1. SUFFICES ASSUME ~cut'
               PROVE  LessonsOK' /\ EditsOK' /\ ShownOK' /\ ScreenOK' /\ MemoryOK'
  BY DEF FilesOK
<1>2. LessonsOK /\ EditsOK /\ ShownOK /\ ScreenOK /\ MemoryOK
  BY <1>1, CutStays DEF FilesOK
<1>3. \/ Lessons(only) \/ Edits(only) \/ Writes(only) \/ Kill(only)
      \/ ReviewList \/ Launcher \/ UNCHANGED vars
  BY DEF Next
<1>4. LessonsOK'
  BY <1>1, <1>2, <1>3, LessonsBegin, LessonsWritten, LessonsApart DEF Writes
<1>5. EditsOK'
  BY <1>1, <1>2, <1>3, EditsBegin, EditsSeen, OverlayWritten, EditsWritten, EditsApart DEF Writes
<1>6. ShownOK' /\ ScreenOK' /\ MemoryOK'
  BY <1>2, ShownStep, ScreenStep, MemoryStep
<1>7. QED
  BY <1>4, <1>5, <1>6

LEMMA FilesInvariant ==
  ASSUME NEW CONSTANT only, Commands = {only}
  PROVE  Spec => [](TypeOK /\ FilesOK)
<1>1. Init => TypeOK /\ FilesOK
  BY TypeInit, FilesInit
<1>2. TypeOK /\ FilesOK /\ [Next]_vars => (TypeOK /\ FilesOK)'
  BY TypeStep, FilesStep
<1>3. QED
  BY <1>1, <1>2, PTL DEF Spec

(***************************************************************************)
(* The properties, when commands run one at a time.                        *)
(***************************************************************************)

\* What a launch puts before every matter is what a person said yes to, each lesson on its
\* card and each overlay in the digest (cli.ts accept and approve-edit).
THEOREM ApprovedOnly ==
  ASSUME NEW CONSTANT only, Commands = {only}
  PROVE  Spec => []OnlyApproved
<1>1. FilesOK => OnlyApproved
  BY DEF FilesOK, ShownOK, OnlyApproved
<1>2. QED
  BY <1>1, FilesInvariant, PTL

\* A launch gives no party away that the ledger named when it began: what the memory file
\* holds passes the launcher's screen even when a save comes after it (bin/possiblaw).
THEOREM WallHolds ==
  ASSUME NEW CONSTANT only, Commands = {only}
  PROVE  Spec => []WallAtLaunch
<1>1. FilesOK => WallAtLaunch
  BY DEF FilesOK, ScreenOK, WallAtLaunch
<1>2. QED
  BY <1>1, FilesInvariant, PTL

\* The lesson behind an answered card and every recorded decision are still in the file,
\* whatever later saves wrote (ledger.ts and proposals.ts, saveStore).
THEOREM RecordsStay ==
  ASSUME NEW CONSTANT only, Commands = {only}
  PROVE  Spec => []RecordsStand
<1>1. ASSUME FilesOK
      PROVE  RecordsStand
  <2>1. ASSUME ~Rewriting("write ledger")
        PROVE  LedgerGood(ledger, approved, cards, decided, launch.known)
    <3>1. SaveOK(command[only], ledger, approved, cards, decided, launch.known)
      BY <1>1, <2>1, LessonsAre DEF FilesOK, Rewriting
    <3>2. QED
      BY <2>1, <3>1 DEF SaveOK, Rewriting, At
  <2>2. ASSUME ~Rewriting("write proposals")
        PROVE  ProposalsGood(proposals, cards, decided)
    <3>1. EditOK(command[only], proposals, approved, cards, decided)
      BY <1>1, <2>2, EditsAre DEF FilesOK, Rewriting
    <3>2. QED
      BY <2>2, <3>1 DEF EditOK, Rewriting, At
  <2>3. QED
    BY <2>1, <2>2 DEF RecordsStand, LedgerGood, ProposalsGood, Stands
<1>2. QED
  BY <1>1, FilesInvariant, PTL

\* The lessons that fit: closed upwards, and none left out while there is room.
LEMMA FitsIs ==
  ASSUME NEW lessons \in Seq(Lesson)
  PROVE  /\ \A old, new \in Sane(lessons) : old < new /\ Fits(lessons, old) => Fits(lessons, new)
         /\ \A H : H = {i \in Sane(lessons) : Fits(lessons, i)} /\ H # Sane(lessons) =>
              Cardinality(H) >= (IF SomeExcluded(lessons) THEN HotLines - MarkerLines ELSE HotLines)
<1> DEFINE S == Sane(lessons)
           From(i) == {j \in S : j >= i}
           marker == IF SomeExcluded(lessons) THEN MarkerLines ELSE 0
<1>1. S \in SUBSET Nat /\ IsFiniteSet(S)
  <2>1. DOMAIN lessons = 1 .. Len(lessons) /\ Len(lessons) \in Nat
    OBVIOUS
  <2>2. IsFiniteSet(DOMAIN lessons) /\ DOMAIN lessons \subseteq Nat
    BY <2>1, FS_Interval
  <2>3. S \subseteq DOMAIN lessons
    BY DEF Sane
  <2>4. QED
    BY <2>2, <2>3, FS_Subset
<1>2. HotLines \in Nat /\ MarkerLines \in Nat
  BY LearningAssumption
<1>3. marker \in Nat
  BY <1>2
<1>4. \A i : Fits(lessons, i) <=> Cardinality(From(i)) + marker <= HotLines
  BY DEF Fits
<1> HIDE DEF S, marker
<1>5. \A T : T \subseteq S => IsFiniteSet(T) /\ Cardinality(T) \in Nat
  BY <1>1, FS_Subset, FS_CardinalityType
<1>6. \A T, U : T \subseteq U /\ U \subseteq S => Cardinality(T) <= Cardinality(U)
  BY <1>5, FS_Subset
<1>7. ASSUME NEW old \in S, NEW new \in S, old < new, Fits(lessons, old)
      PROVE  Fits(lessons, new)
  <2>1. From(new) \subseteq From(old) /\ From(old) \subseteq S
    <3>1. old \in Nat /\ new \in Nat /\ \A j \in S : j \in Nat
      BY <1>1
    <3>2. \A j \in S : j >= new => j >= old
      BY <1>7, <3>1
    <3>3. QED
      BY <3>2
  <2> HIDE DEF From
  <2>2. Cardinality(From(new)) <= Cardinality(From(old))
    BY <1>6, <2>1
  <2>3. Cardinality(From(new)) \in Nat /\ Cardinality(From(old)) \in Nat
    BY <1>5, <2>1
  <2>4. QED
    BY <1>2, <1>3, <1>4, <1>7, <2>2, <2>3
<1>8. ASSUME NEW H, H = {i \in S : Fits(lessons, i)}, H # S
      PROVE  Cardinality(H) + marker >= HotLines
  <2> DEFINE U == S \ H
             last == Max(U)
             After == From(last) \ {last}
  <2>1. U \in SUBSET Nat /\ IsFiniteSet(U) /\ U # {}
    BY <1>1, <1>5, <1>8
  <2> HIDE DEF U
  <2>2. last \in U /\ \A j \in U : j <= last
    BY <2>1, MaxIs
  <2> HIDE DEF last
  <2>3. last \in S /\ last \in Nat /\ ~Fits(lessons, last) /\ last \in From(last)
    BY <1>1, <1>8, <2>2 DEF U
  <2>4. After \subseteq H
    <3>1. SUFFICES ASSUME NEW j \in S, j >= last, j # last, j \notin H
                   PROVE  FALSE
      OBVIOUS
    <3>2. j \in U /\ j \in Nat
      BY <1>1, <3>1 DEF U
    <3>3. QED
      BY <2>2, <2>3, <3>1, <3>2
  <2>5. From(last) \subseteq S /\ H \subseteq S
    BY <1>8
  <2> HIDE DEF From
  <2>6. Cardinality(After) = Cardinality(From(last)) - 1
    <3>1. IsFiniteSet(From(last))
      BY <1>5, <2>5
    <3>2. QED
      BY <2>3, <3>1, FS_RemoveElement
  <2>7. Cardinality(After) <= Cardinality(H)
    BY <1>6, <2>4, <2>5
  <2>8. Cardinality(From(last)) \in Nat /\ Cardinality(H) \in Nat
    BY <1>5, <2>5
  <2>9. ~(Cardinality(From(last)) + marker <= HotLines)
    BY <1>4, <2>3
  <2> HIDE DEF After
  <2>10. QED
    BY <1>2, <1>3, <2>6, <2>7, <2>8, <2>9
<1>9. ASSUME NEW H, H = {i \in S : Fits(lessons, i)}, H # S
      PROVE  Cardinality(H) >= (IF SomeExcluded(lessons) THEN HotLines - MarkerLines ELSE HotLines)
  <2>1. H \subseteq S
    BY <1>9
  <2>2. Cardinality(H) \in Nat /\ Cardinality(H) + marker >= HotLines
    BY <1>5, <1>8, <1>9, <2>1
  <2>3. QED
    BY <1>2, <2>2 DEF marker
<1>10. QED
  BY <1>7, <1>9 DEF S

\* Between commands the memory file is what the ledger says: the accepted lessons that give
\* no party away, newest first, as many as there is room for (memory.ts renderHotMemory).
THEOREM MemoryFollows ==
  ASSUME NEW CONSTANT only, Commands = {only}
  PROVE  Spec => []MemoryFollowsLedger
<1>1. ASSUME TypeOK, FilesOK
      PROVE  MemoryFollowsLedger
  <2>1. SUFFICES ASSUME Settled
                 PROVE  /\ memory = {ledger[i].text : i \in Held}
                        /\ Held # Presentable => Cardinality(Held) >= Room
                        /\ \A old \in Held, new \in Presentable : old < new => new \in Held
    BY DEF MemoryFollowsLedger
  <2>2. command[only].step = "none" /\ ~half /\ ~cut
    BY <2>1 DEF Settled, Running
  <2>3. memory = Hot(ledger)
    BY <1>1, <2>2 DEF FilesOK, MemoryOK, MidSave
  <2>4. UniqueTexts(ledger)
    <3>1. SaveOK(command[only], ledger, approved, cards, decided, launch.known)
      BY <1>1, <2>2, LessonsAre DEF FilesOK
    <3>2. QED
      BY <2>2, <3>1 DEF SaveOK, LedgerGood
  <2>5. ledger \in Seq(Lesson)
    BY <1>1, TypeParts
  <2>6. Presentable = Sane(ledger)
    BY DEF Presentable, Sane, Clean, LedgerEntities
  <2>7. Held = {i \in Sane(ledger) : Fits(ledger, i)}
    <3>1. Sane(ledger) \subseteq DOMAIN ledger
      BY DEF Sane
    <3>2. ASSUME NEW i \in Sane(ledger)
          PROVE  ledger[i].text \in Hot(ledger) <=> Fits(ledger, i)
      BY <2>4, <3>1 DEF Hot, UniqueTexts
    <3>3. QED
      BY <2>3, <2>6, <3>2 DEF Held
  <2>8. Room = IF SomeExcluded(ledger) THEN HotLines - MarkerLines ELSE HotLines
    BY <2>6 DEF Room, SomeExcluded
  <2>9. memory = {ledger[i].text : i \in Held}
    BY <2>3, <2>7 DEF Hot
  <2>10. Held # Presentable => Cardinality(Held) >= Room
    BY <2>5, <2>6, <2>7, <2>8, FitsIs
  <2>11. \A old \in Held, new \in Presentable : old < new => new \in Held
    BY <2>5, <2>6, <2>7, FitsIs
  <2>12. QED
    BY <2>9, <2>10, <2>11
<1>2. QED
  BY <1>1, FilesInvariant, PTL

(***************************************************************************)
(* Approvals, for any number of commands at once: whatever a file or a     *)
(* command calls approved has had its overlay written.                     *)
(***************************************************************************)
Installed(edits, done) == \A i \in DOMAIN edits : edits[i].status = "approved" => edits[i].id \in done

InstalledOK ==
  /\ Installed(proposals, installed)
  /\ \A p \in Commands : Installed(command[p].edits, installed)

\* Commands keep the edits they hold or drop them; a file keeps its own, loses them or takes a command's.
LEMMA InstalledKept ==
  ASSUME InstalledOK, installed \subseteq installed',
         \A p \in Commands : command'[p].edits \in {command[p].edits, <<>>},
         proposals' \in {proposals, <<>>} \/ \E p \in Commands : proposals' = command[p].edits
  PROVE  InstalledOK'
<1>1. ASSUME NEW edits, Installed(edits, installed)
      PROVE  Installed(edits, installed')
  BY <1>1 DEF Installed
<1>2. Installed(<<>>, installed')
  BY DEF Installed
<1>3. Installed(proposals', installed')
  BY <1>1, <1>2 DEF InstalledOK
<1>4. \A p \in Commands : Installed(command'[p].edits, installed')
  BY <1>1, <1>2 DEF InstalledOK
<1>5. QED
  BY <1>3, <1>4 DEF InstalledOK

LEMMA InstalledBegin ==
  ASSUME TypeOK, InstalledOK, NEW p \in Commands, NEW work, Begin(p, work),
         Installed(work.edits, installed)
  PROVE  InstalledOK'
<1>1. CommandTyped
  BY TypeParts
<1>2. /\ command' = [command EXCEPT ![p] = work] /\ command'[p] = work
      /\ proposals' = proposals /\ installed' = installed
  BY <1>1, BeginIs
<1>3. \A q \in Commands : command'[q] = IF q = p THEN work ELSE command[q]
  BY <1>1, <1>2 DEF CommandTyped
<1>4. QED
  BY <1>2, <1>3 DEF InstalledOK

LEMMA LessonsHoldNoEdits ==
  ASSUME NEW lessons, NEW card
  PROVE  Saving(lessons, card).edits = <<>> /\ Idle.edits = <<>>
  BY DEF Saving, Idle

LEMMA InstalledLessons ==
  ASSUME TypeOK, InstalledOK, NEW p \in Commands, Lessons(p)
  PROVE  InstalledOK'
<1>1. ASSUME NEW lessons, NEW card, Begin(p, Saving(lessons, card))
      PROVE  InstalledOK'
  <2>1. Installed(Saving(lessons, card).edits, installed)
    BY LessonsHoldNoEdits DEF Installed
  <2>2. QED
    BY <1>1, <2>1, InstalledBegin
<1>2. ASSUME NEW text, NEW entities, Propose(p, text, entities)
      PROVE  InstalledOK'
  BY <1>1, <1>2 DEF Propose
<1>3. ASSUME NEW card, NEW status, Decide(p, card, status)
      PROVE  InstalledOK'
  BY <1>1, <1>3 DEF Decide
<1>4. QED
  BY <1>1, <1>2, <1>3 DEF Lessons, Accept, Reject, Render

LEMMA InstalledEdits ==
  ASSUME TypeOK, InstalledOK, NEW p \in Commands, Edits(p)
  PROVE  InstalledOK'
<1>1. ASSUME NEW new \in Seq(Proposal), Begin(p, SavingEdits(new)), Installed(new, installed)
      PROVE  InstalledOK'
  <2>1. SavingEdits(new).edits = new
    BY SavingEditsIs
  <2>2. QED
    BY <1>1, <2>1, InstalledBegin
<1>2. ASSUME NEW skill \in Skills, NEW text \in Texts, NEW entities, ProposeEdit(p, skill, text, entities)
      PROVE  InstalledOK'
  <2>1. PICK edit \in Proposal : /\ edit.status = "pending"
                                 /\ Append(proposals, edit) \in Seq(Proposal)
                                 /\ Begin(p, SavingEdits(Append(proposals, edit)))
    BY <1>2, ProposeEditIs
  <2>2. proposals \in Seq(Proposal)
    BY TypeParts
  <2>3. \A i \in DOMAIN Append(proposals, edit) :
          \/ Append(proposals, edit)[i] = edit
          \/ i \in DOMAIN proposals /\ Append(proposals, edit)[i] = proposals[i]
    BY <2>2
  <2>4. Installed(Append(proposals, edit), installed)
    BY <2>1, <2>3 DEF InstalledOK, Installed
  <2>5. QED
    BY <1>1, <2>1, <2>4
<1>3. ASSUME NEW card \in cards, NEW text \in Texts, ApproveEdit(p, card, text)
      PROVE  InstalledOK'
  <2>1. PICK work \in Work : Begin(p, work) /\ work.edits = proposals
    BY <1>3, ApproveEditIs
  <2>2. QED
    BY <2>1, InstalledBegin DEF InstalledOK
<1>4. ASSUME NEW card \in cards, RejectEdit(p, card)
      PROVE  InstalledOK'
  <2>1. PICK new \in Seq(Proposal) :
          /\ Begin(p, SavingEdits(new))
          /\ DOMAIN new = DOMAIN proposals
          /\ \A i \in DOMAIN proposals :
               /\ new[i].id = proposals[i].id
               /\ new[i].status = "approved" => proposals[i].status = "approved"
    BY <1>4, RejectEditIs
  <2>2. Installed(new, installed)
    BY <2>1 DEF InstalledOK, Installed
  <2>3. QED
    BY <1>1, <2>1, <2>2
<1>5. QED
  BY <1>2, <1>3, <1>4 DEF Edits

LEMMA InstalledWrites ==
  ASSUME TypeOK, InstalledOK, NEW p \in Commands, Writes(p) \/ Kill(p)
  PROVE  InstalledOK'
<1>1. CommandTyped /\ \A q \in Commands : command[q] \in Work
  BY TypeParts
<1>2. ASSUME NEW step, Proceed(p, step), installed' = installed, proposals' \in {proposals, <<>>}
      PROVE  InstalledOK'
  <2>1. \A q \in Commands : command'[q] = IF q = p THEN WithStep(command[q], step) ELSE command[q]
    BY <1>1, <1>2 DEF Proceed, CommandTyped, WithStep
  <2>2. \A q \in Commands : WithStep(command[q], step).edits = command[q].edits
    BY <1>1 DEF WithStep, Work
  <2>3. \A q \in Commands : command'[q].edits = command[q].edits
    BY <2>1, <2>2
  <2>4. QED
    BY <1>2, <2>3, InstalledKept
<1>3. ASSUME Finish(p), installed \subseteq installed',
             proposals' = proposals \/ proposals' = command[p].edits
      PROVE  InstalledOK'
  <2>1. \A q \in Commands : command'[q] = IF q = p THEN Idle ELSE command[q]
    BY <1>1, <1>3 DEF Finish, CommandTyped
  <2>2. \A q \in Commands : command'[q].edits \in {command[q].edits, <<>>}
    BY <2>1, LessonsHoldNoEdits
  <2>3. QED
    BY <1>3, <2>2, InstalledKept
<1>4. CASE OpenLedger(p) \/ WriteLedger(p) \/ OpenMemory(p) \/ WriteMemory(p)
           \/ SavePrevious(p) \/ OpenOverlay(p) \/ OpenProposals(p)
  BY <1>2, <1>4 DEF OpenLedger, WriteLedger, OpenMemory, WriteMemory, SavePrevious, OpenOverlay,
                    OpenProposals
<1>5. CASE AppendArchive(p) \/ WriteProposals(p) \/ Kill(p)
  BY <1>3, <1>5 DEF AppendArchive, WriteProposals, Kill, files
<1>6. CASE WriteOverlay(p)
  <2> DEFINE c == command[p]
             new == WithStatus(c.edits, c.target, "approved")
             done == installed \cup {c.target}
  <2>1. installed' = done /\ proposals' = proposals
    BY <1>6 DEF WriteOverlay
  <2>2. CASE Finish(p)
    BY <1>3, <2>1, <2>2
  <2>3. CASE command' = [command EXCEPT ![p].step = "open proposals", ![p].edits = new]
    <3>1. c.edits \in Seq(Proposal) /\ c \in Work
      BY <1>1, WorkFields
    <3>2. "approved" \in ProposalStatus
      BY DEF ProposalStatus
    <3>3. /\ DOMAIN new = DOMAIN c.edits
          /\ \A i \in DOMAIN c.edits :
               /\ new[i].id = c.edits[i].id
               /\ new[i].status = IF c.edits[i].id = c.target THEN "approved" ELSE c.edits[i].status
      BY <3>1, <3>2, ProposalStatusIs
    <3>4. \A q \in Commands : command'[q] =
            IF q = p THEN [c EXCEPT !.step = "open proposals", !.edits = new] ELSE command[q]
      BY <1>1, <2>3 DEF CommandTyped
    <3>5. command'[p].edits = new
      BY <3>1, <3>4 DEF Work
    <3>6. \A q \in Commands : Installed(command[q].edits, installed)
      BY DEF InstalledOK
    <3> HIDE DEF c, new
    <3>7. Installed(new, done)
      BY <3>3, <3>6 DEF Installed, c
    <3>8. \A q \in Commands : Installed(command[q].edits, done)
      BY <3>6 DEF Installed
    <3>9. Installed(proposals, done)
      BY DEF InstalledOK, Installed
    <3>10. \A q \in Commands : Installed(command'[q].edits, done)
      BY <3>4, <3>5, <3>7, <3>8
    <3> HIDE DEF done
    <3>11. QED
      BY <2>1, <3>9, <3>10 DEF InstalledOK
  <2>4. QED
    BY <1>6, <2>2, <2>3 DEF WriteOverlay
<1>7. QED
  BY <1>4, <1>5, <1>6 DEF Writes

\* No proposal is on record as approved whose overlay was not written, wherever
\* approve-edit is killed and whatever commands run beside it (cli.ts, writeOverlay
\* before setProposalStatus).
THEOREM InstalledBeforeApproved == Spec => []ApprovedInstalled
<1>1. Init => InstalledOK
  <2>1. \A edits, done : edits = <<>> => Installed(edits, done)
    BY DEF Installed
  <2>2. QED
    BY <2>1, LessonsHoldNoEdits DEF Init, InstalledOK
<1>2. TypeOK /\ InstalledOK /\ [Next]_vars => InstalledOK'
  <2>1. SUFFICES ASSUME TypeOK, InstalledOK, [Next]_vars
                 PROVE  InstalledOK'
    OBVIOUS
  <2>2. CASE ReviewList \/ Launcher \/ UNCHANGED vars
    <3>1. command' = command /\ proposals' = proposals /\ installed' = installed
      BY <2>2 DEF ReviewList, Launcher, LaunchStart, LaunchScreen, LaunchImport, vars, files, history
    <3>2. QED
      BY <2>1, <3>1, InstalledKept
  <2>3. QED
    BY <2>1, <2>2, InstalledLessons, InstalledEdits, InstalledWrites DEF Next
<1>3. InstalledOK => ApprovedInstalled
  BY DEF InstalledOK, Installed, ApprovedInstalled
<1>4. QED
  BY <1>1, <1>2, <1>3, TypeCorrect, PTL DEF Spec
================================================================================

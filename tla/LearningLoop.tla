----------------------------- MODULE LearningLoop -----------------------------
(***************************************************************************)
(* The firm's learning loop: lessons that a person accepts into the memory *)
(* every matter reads, and skill edits that a person approves into skill   *)
(* overlays.                                                               *)
(*                                                                         *)
(* There is no server.  Each command of cli.ts is a process of its own     *)
(* that loads a file, changes it in memory and writes the whole file back: *)
(* nothing keeps two commands apart, and one may be killed between writes. *)
(* The launcher, a third kind of process, reads what they wrote.           *)
(*                                                                         *)
(* A lesson text or an overlay body is a member of Texts; the sanitizer is *)
(* the table Names: which matter parties a text gives away.  An id is its  *)
(* number within the day, and all commands run on one day.                 *)
(***************************************************************************)
EXTENDS Integers, Sequences, FiniteSets, SequencesExt

CONSTANTS
  Commands,    \* command processes that may be alive at the same time
  Texts,       \* lesson texts and overlay bodies
  Entities,    \* matter parties
  Names,       \* Names[t]: the parties the sanitizer finds in text t
  Skills,      \* skills of the package
  Absent,      \* a file that does not exist
  Empty,       \* a file opened for writing and not yet written
  HotLines,    \* lessons that fit into the memory file
  MarkerLines, \* lines the "excluded" marker takes from them
  MaxCommands, \* bound: commands ever run
  MaxKills,    \* bound: commands killed
  MaxLaunches  \* bound: launches

ASSUME LearningAssumption ==
  /\ Names \in [Texts -> SUBSET Entities]
  /\ Absent \notin Texts /\ Empty \notin Texts
  /\ {HotLines, MarkerLines, MaxCommands, MaxKills, MaxLaunches} \subseteq Nat

VARIABLES
  ledger,     \* learnings/ledger.jsonl
  memory,     \* memory/firm-memory.md: the lessons it lists
  archive,    \* memory/archive: the lessons ever appended to it
  proposals,  \* proposals/proposals.jsonl
  overlay,    \* skill-overlays/<skill>/SKILL.md
  previous,   \* skill-overlays/<skill>/SKILL.md.prev
  command,    \* what each command process still has to do
  launch,     \* what the launcher knows and is about to do
  context,    \* the lessons the last launch put in front of every matter
  active,     \* the overlays the last launch put in place of package skills
  (* What people saw and said, and what went wrong: read by no action.     *)
  cards,      \* lessons and edits shown to a person: <<kind, id, text>>
  approved,   \* texts a person said yes to
  installed,  \* proposals whose overlay was written
  decided,    \* decisions a file ever recorded: <<kind, id, status>>
  cut,        \* a kill left a ledger or a proposals file empty
  half,       \* a kill came between the ledger and the memory
  spent       \* commands, kills and launches so far

files == <<ledger, memory, archive, proposals, overlay, previous>>
history == <<cards, approved, installed, decided, cut, half>>
vars == <<files, command, launch, context, active, history, spent>>

LessonStatus == {"pending", "accepted", "rejected", "archived"}
ProposalStatus == {"pending", "approved", "rejected", "edited"}
Lesson == [id: Nat \ {0}, text: Texts, status: LessonStatus,
           entities: SUBSET Entities, blocked: BOOLEAN]
Proposal == [id: Nat \ {0}, text: Texts, skill: Skills, status: ProposalStatus]

\* sanitizeLesson: none of the given parties shows in the text.
Clean(text, entities) == Names[text] \cap entities = {}

\* ledgerEntities: every party any lesson of the ledger was screened against.
LedgerEntities(lessons) == UNION {lessons[i].entities : i \in DOMAIN lessons}

\* Variant: one more than there are undecided records.
NextPending(records) == 1 + Cardinality({i \in DOMAIN records : records[i].status = "pending"})

\* nextLessonId and nextProposalId: one more than the largest of the day.
NextId(records) == 1 + Max({0} \cup {records[i].id : i \in DOMAIN records})

\* Variant: a decision can be taken again.
MayBecomeAnything(from, to) == from # to

\* The VALID tables of ledger.ts and proposals.ts.
MayBecome(from, to) ==
  <<from, to>> \in {<<"pending", "accepted">>, <<"pending", "rejected">>,
                    <<"accepted", "archived">>, <<"pending", "approved">>,
                    <<"pending", "edited">>, <<"edited", "approved">>,
                    <<"edited", "rejected">>}

\* setStatus and setProposalStatus, where the table allows it.
WithStatus(records, id, status) ==
  [i \in DOMAIN records |->
     IF records[i].id = id THEN [records[i] EXCEPT !.status = status] ELSE records[i]]

HasId(records, id) == \E i \in DOMAIN records : records[i].id = id
WithId(records, id) == records[CHOOSE i \in DOMAIN records : records[i].id = id]

(***************************************************************************)
(* renderHotMemory: the accepted lessons that are clean against the whole  *)
(* ledger, newest first, as many as fit; the rest overflows.               *)
(***************************************************************************)
Sane(lessons) ==
  {i \in DOMAIN lessons :
     lessons[i].status = "accepted" /\ Clean(lessons[i].text, LedgerEntities(lessons))}
SomeExcluded(lessons) ==
  \E i \in DOMAIN lessons \ Sane(lessons) : lessons[i].status = "accepted"
Fits(lessons, i) ==
  Cardinality({j \in Sane(lessons) : j >= i})
    + (IF SomeExcluded(lessons) THEN MarkerLines ELSE 0) <= HotLines

\* Variant: every accepted lesson, screened or not.
HotUnscreened(lessons) ==
  {lessons[i].text : i \in {j \in DOMAIN lessons : lessons[j].status = "accepted"}}

\* What the memory file lists.
Hot(lessons) == {lessons[i].text : i \in {j \in Sane(lessons) : Fits(lessons, j)}}
Overflow(lessons) == {lessons[i].text : i \in {j \in Sane(lessons) : ~Fits(lessons, j)}}

(***************************************************************************)
(* A command process: the next thing it does, and what it holds in memory. *)
(* "open" steps truncate the file, "write" steps fill it (writeFile).      *)
(***************************************************************************)
Steps == {"none", "open ledger", "write ledger", "open memory", "write memory",
          "append archive", "save previous", "open overlay", "write overlay",
          "open proposals", "write proposals"}
Idle == [step |-> "none", lessons |-> <<>>, edits |-> <<>>, target |-> 0,
         skill |-> Absent, text |-> Empty, card |-> {}]
Running(p) == command[p].step # "none"
MidSave == {"write ledger", "open memory", "write memory"}

Init ==
  /\ ledger = <<>> /\ memory = {} /\ archive = {} /\ proposals = <<>>
  /\ overlay = [s \in Skills |-> Absent] /\ previous = [s \in Skills |-> Absent]
  /\ command = [p \in Commands |-> Idle]
  /\ launch = [step |-> "none", known |-> {}, clean |-> FALSE]
  /\ context = {} /\ active = [s \in Skills |-> Absent]
  /\ cards = {} /\ approved = {} /\ installed = {} /\ decided = {}
  /\ cut = FALSE /\ half = FALSE
  /\ spent = [commands |-> 0, kills |-> 0, launches |-> 0]

Spend(what) == spent' = [spent EXCEPT ![what] = @ + 1]

\* A command starts: it has loaded its files and decided what to write.
Begin(p, work) ==
  /\ ~Running(p)
  /\ spent.commands < MaxCommands
  /\ Spend("commands")
  /\ command' = [command EXCEPT ![p] = work]
  /\ UNCHANGED <<files, launch, context, active, installed, decided, cut, half>>

\* saveStore begins with the ledger.
Saving(lessons, card) ==
  [Idle EXCEPT !.step = "open ledger", !.lessons = lessons, !.card = card]
SavingEdits(edits) == [Idle EXCEPT !.step = "open proposals", !.edits = edits]

(***************************************************************************)
(* Commands about lessons.  One that refuses (a text that is not clean, a  *)
(* duplicate, an unknown id, a status that may not change) writes nothing. *)
(***************************************************************************)
Propose(p, text, entities) ==
  /\ Clean(text, entities)
  /\ \A i \in DOMAIN ledger : ledger[i].text # text
  /\ LET lesson == [id |-> NextId(ledger), text |-> text, status |-> "pending",
                    entities |-> entities, blocked |-> FALSE]
     IN  Begin(p, Saving(Append(ledger, lesson), {<<"lesson", lesson.id, text>>}))
  /\ UNCHANGED <<cards, approved>>

\* A person decides on the card of a lesson; the command carries the card's id.
Screened(lessons, id) == Clean(WithId(lessons, id).text, LedgerEntities(lessons))

MarkBlocked(lessons, id, blocked) ==
  [i \in DOMAIN lessons |->
     IF lessons[i].id = id THEN [lessons[i] EXCEPT !.blocked = blocked] ELSE lessons[i]]

Decide(p, card, status) ==
  /\ card[1] = "lesson"
  /\ HasId(ledger, card[2])
  /\ MayBecome(WithId(ledger, card[2]).status, status)
  /\ IF status = "accepted" /\ ~Screened(ledger, card[2])
       THEN Begin(p, Saving(MarkBlocked(ledger, card[2], TRUE), {}))
       ELSE Begin(p, Saving(MarkBlocked(WithStatus(ledger, card[2], status), card[2], FALSE), {}))
  /\ UNCHANGED cards

Accept(p, card) ==
  /\ Decide(p, card, "accepted")
  /\ approved' = approved \cup {<<"lesson", card[3]>>}

Reject(p, card) == Decide(p, card, "rejected") /\ UNCHANGED approved

Render(p) == Begin(p, Saving(ledger, {})) /\ UNCHANGED <<cards, approved>>

(***************************************************************************)
(* Commands about skill edits.                                             *)
(***************************************************************************)
ProposeEdit(p, skill, text, entities) ==
  /\ Clean(text, entities)
  /\ Begin(p, SavingEdits(Append(proposals,
       [id |-> NextId(proposals), text |-> text, skill |-> skill, status |-> "pending"])))
  /\ UNCHANGED <<cards, approved>>

\* review-list: the morning digest shows what the file holds as pending.
ReviewList ==
  /\ cards' = cards \cup {<<"edit", proposals[i].id, proposals[i].text>> :
                            i \in {j \in DOMAIN proposals : proposals[j].status = "pending"}}
  /\ UNCHANGED <<files, command, launch, context, active, approved, installed, decided,
                 cut, half, spent>>

\* Variant: records the approval first.
ApproveFirst(p, card, text) ==
  /\ card[1] = "edit"
  /\ HasId(proposals, card[2])
  /\ Begin(p, SavingEdits(WithStatus(proposals, card[2], "approved")))
  /\ approved' = approved \cup {<<"edit", text>>}
  /\ UNCHANGED cards

\* approve-edit goes to the overlay before it looks at the status.  The person may
\* put a text of their own in place of the proposed one (--overlay-file); the
\* status "edited" is then passed through in memory and never saved.
ApproveEdit(p, card, text) ==
  /\ card[1] = "edit"
  /\ HasId(proposals, card[2])
  /\ LET target == WithId(proposals, card[2])
         body   == IF text = card[3] THEN target.text ELSE text
     IN  Begin(p, [Idle EXCEPT !.step = "save previous", !.edits = proposals,
                     !.target = card[2], !.skill = target.skill, !.text = body])
  /\ approved' = approved \cup {<<"edit", text>>}
  /\ UNCHANGED cards

RejectEdit(p, card) ==
  /\ card[1] = "edit"
  /\ HasId(proposals, card[2])
  /\ MayBecome(WithId(proposals, card[2]).status, "rejected")
  /\ Begin(p, SavingEdits(WithStatus(proposals, card[2], "rejected")))
  /\ UNCHANGED <<cards, approved>>

(***************************************************************************)
(* The writes of a command, one at a time.                                 *)
(***************************************************************************)
At(p, step) == command[p].step = step
Proceed(p, step) == command' = [command EXCEPT ![p].step = step]
Finish(p) == command' = [command EXCEPT ![p] = Idle]
KeepAll == UNCHANGED <<launch, context, active, approved, spent, cut>>

Decisions(kind, records) ==
  {<<kind, records[i].id, records[i].status>> :
     i \in {j \in DOMAIN records : records[j].status \in {"accepted", "approved", "rejected"}}}

OpenLedger(p) ==
  /\ At(p, "open ledger")
  /\ ledger' = <<>>
  /\ Proceed(p, "write ledger")
  /\ UNCHANGED <<memory, archive, proposals, overlay, previous, cards, installed, decided, half>> /\ KeepAll

WriteLedger(p) ==
  /\ At(p, "write ledger")
  /\ ledger' = command[p].lessons
  /\ Proceed(p, "open memory")
  /\ decided' = decided \cup Decisions("lesson", command[p].lessons)
  /\ UNCHANGED <<memory, archive, proposals, overlay, previous, cards, installed, half>> /\ KeepAll

OpenMemory(p) ==
  /\ At(p, "open memory")
  /\ memory' = {}
  /\ Proceed(p, "write memory")
  /\ UNCHANGED <<ledger, archive, proposals, overlay, previous, cards, installed, decided, half>> /\ KeepAll

WriteMemory(p) ==
  /\ At(p, "write memory")
  /\ memory' = Hot(command[p].lessons)
  /\ half' = FALSE
  /\ Proceed(p, "append archive")
  /\ UNCHANGED <<ledger, archive, proposals, overlay, previous, cards, installed, decided>> /\ KeepAll

\* The last write of saveStore; the command answers with the id it gave out.
AppendArchive(p) ==
  /\ At(p, "append archive")
  /\ archive' = archive \cup Overflow(command[p].lessons)
  /\ cards' = cards \cup command[p].card
  /\ Finish(p)
  /\ UNCHANGED <<ledger, memory, proposals, overlay, previous, installed, decided, half>> /\ KeepAll

\* writeOverlay: keep the body that is there, then write the new one.
SavePrevious(p) ==
  /\ At(p, "save previous")
  /\ previous' = IF overlay[command[p].skill] = Absent THEN previous
                 ELSE [previous EXCEPT ![command[p].skill] = overlay[command[p].skill]]
  /\ Proceed(p, "open overlay")
  /\ UNCHANGED <<ledger, memory, archive, proposals, overlay, cards, installed, decided, half>> /\ KeepAll

OpenOverlay(p) ==
  /\ At(p, "open overlay")
  /\ overlay' = [overlay EXCEPT ![command[p].skill] = Empty]
  /\ Proceed(p, "write overlay")
  /\ UNCHANGED <<ledger, memory, archive, proposals, previous, cards, installed, decided, half>> /\ KeepAll

\* Then the status, where the table allows it; where it does not, the command fails here.
WriteOverlay(p) ==
  /\ At(p, "write overlay")
  /\ overlay' = [overlay EXCEPT ![command[p].skill] = command[p].text]
  /\ installed' = installed \cup {command[p].target}
  /\ LET c == command[p]
     IN  IF MayBecome(WithId(c.edits, c.target).status, "approved")
           THEN command' = [command EXCEPT ![p].step = "open proposals",
                              ![p].edits = WithStatus(c.edits, c.target, "approved")]
           ELSE Finish(p)
  /\ UNCHANGED <<ledger, memory, archive, proposals, previous, cards, decided, half>> /\ KeepAll

OpenProposals(p) ==
  /\ At(p, "open proposals")
  /\ proposals' = <<>>
  /\ Proceed(p, "write proposals")
  /\ UNCHANGED <<ledger, memory, archive, overlay, previous, cards, installed, decided, half>> /\ KeepAll

WriteProposals(p) ==
  /\ At(p, "write proposals")
  /\ proposals' = command[p].edits
  /\ Finish(p)
  /\ decided' = decided \cup Decisions("edit", command[p].edits)
  /\ UNCHANGED <<ledger, memory, archive, overlay, previous, cards, installed, half>> /\ KeepAll

(***************************************************************************)
(* The launcher: screen the memory against the ledger, then build the      *)
(* package from the memory, if it passed, and from the overlays.           *)
(***************************************************************************)
LaunchStart ==
  /\ launch.step = "none"
  /\ spent.launches < MaxLaunches
  /\ Spend("launches")
  /\ launch' = [step |-> "screen", known |-> LedgerEntities(ledger), clean |-> FALSE]
  /\ UNCHANGED <<files, command, context, active, history>>

\* Variant: overlays whatever the screen says.
LaunchUnscreened ==
  /\ launch.step = "screen"
  /\ launch' = [launch EXCEPT !.step = "import", !.clean = TRUE]
  /\ UNCHANGED <<files, command, context, active, history, spent>>

\* check-memory: no line of the memory file gives a known party away.
LaunchScreen ==
  /\ launch.step = "screen"
  /\ launch' = [launch EXCEPT !.step = "import",
                  !.clean = \A t \in memory : Clean(t, launch.known)]
  /\ UNCHANGED <<files, command, context, active, history, spent>>

LaunchImport ==
  /\ launch.step = "import"
  /\ context' = IF launch.clean THEN memory ELSE {}
  /\ active' = overlay
  /\ launch' = [launch EXCEPT !.step = "none"]
  /\ UNCHANGED <<files, command, history, spent>>

\* A command is killed where it stands: what it truncated stays empty.
Kill(p) ==
  /\ Running(p)
  /\ spent.kills < MaxKills
  /\ Spend("kills")
  /\ Finish(p)
  /\ cut' = (cut \/ command[p].step \in {"write ledger", "write proposals"})
  /\ half' = (half \/ command[p].step \in MidSave)
  /\ UNCHANGED <<files, launch, context, active, cards, approved, installed, decided>>

Lessons(p) ==
  \/ \E text \in Texts, entities \in SUBSET Entities : Propose(p, text, entities)
  \/ \E card \in cards : Accept(p, card)
  \/ \E card \in cards : Reject(p, card)
  \/ Render(p)

Edits(p) ==
  \/ \E skill \in Skills, text \in Texts, entities \in SUBSET Entities :
       ProposeEdit(p, skill, text, entities)
  \/ \E card \in cards, text \in Texts : ApproveEdit(p, card, text)
  \/ \E card \in cards : RejectEdit(p, card)

Writes(p) ==
  \/ OpenLedger(p) \/ WriteLedger(p) \/ OpenMemory(p) \/ WriteMemory(p) \/ AppendArchive(p)
  \/ SavePrevious(p) \/ OpenOverlay(p) \/ WriteOverlay(p)
  \/ OpenProposals(p) \/ WriteProposals(p)

Launcher == LaunchStart \/ LaunchScreen \/ LaunchImport

Next ==
  \/ \E p \in Commands : Lessons(p) \/ Edits(p) \/ Writes(p) \/ Kill(p)
  \/ ReviewList
  \/ Launcher

Spec == Init /\ [][Next]_vars

-------------------------------------------------------------------------------
(***************************************************************************)
(* Properties                                                              *)
(***************************************************************************)

\* Every variable keeps its shape: the files hold records the commands of
\* learning-loop/src/cli.ts write, and a process is at a step it has.
Card == {"lesson", "edit"} \X (Nat \ {0}) \X Texts
Work == [step: Steps, lessons: Seq(Lesson), edits: Seq(Proposal), target: Nat,
         skill: Skills \cup {Absent}, text: Texts \cup {Empty}, card: SUBSET Card]
TypeOK ==
  /\ ledger \in Seq(Lesson) /\ proposals \in Seq(Proposal)
  /\ memory \subseteq Texts /\ archive \subseteq Texts /\ context \subseteq Texts
  /\ \A f \in {overlay, previous, active} : f \in [Skills -> Texts \cup {Absent, Empty}]
  /\ command \in [Commands -> Work]
  /\ \A p \in Commands : command[p].step \in {"save previous", "open overlay", "write overlay"} =>
       command[p].skill \in Skills /\ command[p].text \in Texts
  /\ launch \in [step: {"none", "screen", "import"}, known: SUBSET Entities, clean: BOOLEAN]
  /\ cards \subseteq Card /\ cut \in BOOLEAN /\ half \in BOOLEAN

\* What a launch puts before every matter is what a person said yes to: each
\* lesson on its card, each overlay in the digest (cli.ts accept and approve-edit).
OnlyApproved ==
  ~cut => /\ \A t \in context : <<"lesson", t>> \in approved
          /\ \A s \in Skills : active[s] \in Texts => <<"edit", active[s]>> \in approved

\* A launch gives no party away that the ledger named when it began, although the
\* memory file may be older than the ledger and may change under the launcher
\* (bin/possiblaw, check-memory).
WallAtLaunch ==
  ~cut /\ launch.step = "none" => \A t \in context : Clean(t, launch.known)

\* Between commands the memory file is what the ledger says, unless the last save
\* was cut short: accepted lessons that give no party away, none of them left out
\* but for want of room, the newest first (memory.ts renderHotMemory).
Settled == (\A p \in Commands : ~Running(p)) /\ ~half /\ ~cut
Presentable ==
  {i \in DOMAIN ledger : /\ ledger[i].status = "accepted"
                         /\ \A k \in DOMAIN ledger : Clean(ledger[i].text, ledger[k].entities)}
Held == {i \in Presentable : ledger[i].text \in memory}
Room ==
  IF \E i \in DOMAIN ledger \ Presentable : ledger[i].status = "accepted"
    THEN HotLines - MarkerLines ELSE HotLines
MemoryFollowsLedger ==
  Settled =>
    /\ memory = {ledger[i].text : i \in Held}
    /\ Held # Presentable => Cardinality(Held) >= Room
    /\ \A old \in Held, new \in Presentable : old < new => new \in Held

\* Nothing is forgotten or decided twice: the lesson behind a card that was
\* answered, and a decision a file recorded, are still in the file.
Rewriting(step) == cut \/ \E p \in Commands : At(p, step)
RecordsStand ==
  /\ ~Rewriting("write ledger") =>
       /\ \A c \in cards : c[1] = "lesson" =>
            \E i \in DOMAIN ledger : ledger[i].id = c[2] /\ ledger[i].text = c[3]
       /\ \A d \in decided : d[1] = "lesson" => d \in Decisions("lesson", ledger)
  /\ ~Rewriting("write proposals") =>
       \A d \in decided : d[1] = "edit" => d \in Decisions("edit", proposals)

\* A proposal is recorded as approved only after its overlay is in place, wherever
\* approve-edit is killed.
ApprovedInstalled ==
  ~cut => \A i \in DOMAIN proposals :
            proposals[i].status = "approved" => proposals[i].id \in installed
================================================================================

------------------------------ MODULE Workspace ------------------------------
(***************************************************************************)
(* The page on which a learner writes the answer of one assignment: the     *)
(* text on each open page, its copy in the storage of the browser, the      *)
(* draft on the server, and the self-checks that hold the page.             *)
(*                                                                          *)
(* A text is written to the browser as it is typed and to the server when   *)
(* typing pauses.  Every 3 seconds a page asks which self-checks run: while *)
(* one does, its text and its buttons are locked.  A page has one command   *)
(* on the way at a time, as the framework queues its server actions; the    *)
(* learner may leave before the answer, which may get lost, and the command *)
(* still arrives.  Verdicts come in while the answer is handed in; they     *)
(* are part of the step that opens the next round of editing.               *)
(*                                                                          *)
(* Time is left out: the marker that lets a page wait up to 30 seconds for  *)
(* a check it asked for may always have lapsed, and the data of the page,   *)
(* which start its timers again, may be refreshed at any time.              *)
(***************************************************************************)
EXTENDS Naturals, Sequences

CONSTANTS
  Pages,            \* places where the learner may have the page open
  Browsers,
  Browser,          \* Browser[p]: whose storage the page p uses
  MaxTexts,         \* bound of the model: texts the learner types
  MaxEdition,       \* bound of the model: revisions of the Assignment
  MaxMishaps        \* bound of the model: commands that get lost, API processes that die

ASSUME BrowserAssumption == Browser \in [Pages -> Browsers]
ASSUME WorkspaceBounds == {MaxTexts, MaxEdition} \subseteq Nat \ {0} /\ MaxMishaps \in Nat

VARIABLES
  desk,       \* what each page holds
  storage,    \* localStorage: per browser and edition of the assignment
  server,     \* the Assignment, its SubmissionDraft and its latest version
  wire,       \* the commands on the way to the server
  checks,     \* the texts (documents) of which a row is RUNNING or SENDING
  abandoned,  \* those of them left RUNNING by a process that died ten minutes ago
  typing,     \* history only: the edition of each text; the newest one stored on the server in
              \* this round; and per browser what was typed last, and whether no other tab of
              \* the browser had that round open for editing then
  mishaps

workspaceVars == <<desk, storage, server, wire, checks, abandoned, typing, mishaps>>

Editions == 1..MaxEdition
Answers == 0..MaxTexts          \* texts in the order they were typed, 0 is the empty one
NoText == MaxTexts + 1          \* what a storage that has no entry holds
NoPage == "gone"                \* the page a command came from was left

NothingTyped == [edition |-> 1, body |-> NoText, alone |-> TRUE]

Blank == [state |-> "closed", edition |-> 1, editable |-> FALSE, body |-> 0, saved |-> 0]

WorkspaceTypeOK ==
  /\ desk \in [Pages -> [state : {"closed", "starting", "free", "busy", "asking"},
                         edition : Editions, editable : BOOLEAN, body : Answers, saved : Answers]]
  /\ storage \in [Browsers -> [Editions -> Answers \cup {NoText}]]
  /\ server \in [stage : BOOLEAN, edition : Editions, editable : BOOLEAN, draft : Answers,
                 latest : Answers]
  /\ wire \subseteq [kind : {"save", "check", "submit"}, edition : Editions, body : Answers,
                     saves : BOOLEAN, from : Pages \cup {NoPage}]
  /\ checks \subseteq Answers \ {0} /\ abandoned \subseteq checks
  /\ typing \in [edition : Seq(Editions), stored : Answers,
                 last : [Browsers -> [edition : Editions, body : Answers \cup {NoText},
                                      alone : BOOLEAN]]]
  /\ mishaps \in 0..MaxMishaps

WorkspaceInit ==
  /\ desk = [p \in Pages |-> Blank]
  /\ storage = [b \in Browsers |-> [e \in Editions |-> NoText]]
  /\ server \in [stage : BOOLEAN, edition : {1}, editable : {TRUE}, draft : {0}, latest : {0}]
  /\ wire = {} /\ checks = {} /\ abandoned = {}
  /\ typing = [edition |-> <<>>, last |-> [b \in Browsers |-> NothingTyped], stored |-> 0]
  /\ mishaps = 0

-----------------------------------------------------------------------------
(* Helpers. *)

\* Mutant: the key of the storage names the assignment alone.
KeyOfAssignment(e) == 1

\* workspaceKey: a round of editing finds nothing of another one.
Key(e) == e

Cached(b, e) == storage[b][Key(e)]

\* Mutant: the draft of the server comes first.
ShownFromServer(b) ==
  LET cached == Cached(b, server.edition) IN
  IF server.editable /\ server.draft # 0 THEN server.draft
  ELSE IF server.editable /\ cached # NoText THEN cached
  ELSE server.latest

\* The text a page opened now in this browser starts with.
Shown(b) ==
  LET cached == Cached(b, server.edition) IN
  IF server.editable /\ cached # NoText THEN cached
  ELSE IF server.editable /\ server.draft # 0 THEN server.draft
  ELSE server.latest

Fetched(p) ==
  [state |-> "starting", edition |-> server.edition, editable |-> server.editable,
   body |-> Shown(Browser[p]), saved |-> server.draft]

Open(p) == desk[p].state # "closed"

\* selfCheckInFlight is not set: a first answer to the poll has come, and no check runs.
Free(p) == desk[p].state = "free"

\* canSubmit
Editing(p) == Open(p) /\ desk[p].editable

\* Another tab of the browser has the same round open for editing.
Beside(p) ==
  \E q \in Pages \ {p} :
    Browser[q] = Browser[p] /\ Editing(q) /\ desk[q].edition = desk[p].edition

\* persist
Persist(p, body) ==
  storage' = IF Editing(p) THEN [storage EXCEPT ![Browser[p]][Key(desk[p].edition)] = body]
             ELSE storage

CommandsOf(p) == {m \in wire : m.from = p}
Submitting(p) == \E m \in CommandsOf(p) : m.kind = "submit"

\* The page sends nothing else before the answer.
Command(p, kind) ==
  /\ CommandsOf(p) = {}
  /\ wire' = wire \cup {[kind |-> kind, edition |-> desk[p].edition, body |-> desk[p].body,
                         saves |-> desk[p].editable, from |-> p]}

\* Nobody waits for the answer.
Unanswered(p) == {IF m.from = p THEN [m EXCEPT !.from = NoPage] ELSE m : m \in wire}

-----------------------------------------------------------------------------
(* The learner and the page. *)

OpenPage(p) ==
  /\ ~ Open(p)
  /\ desk' = [desk EXCEPT ![p] = Fetched(p)]
  /\ UNCHANGED <<storage, server, wire, checks, abandoned, typing, mishaps>>

LeavePage(p) ==
  /\ Open(p)
  /\ desk' = [desk EXCEPT ![p] = Blank]
  /\ wire' = Unanswered(p)
  /\ UNCHANGED <<storage, server, checks, abandoned, typing, mishaps>>

\* The page is told of a new revision, as after a material that was opened.
Refresh(p) ==
  /\ Open(p) /\ desk[p].edition # server.edition
  /\ desk' = [desk EXCEPT ![p] = [Fetched(p) EXCEPT !.state = desk[p].state]]
  /\ UNCHANGED <<storage, server, wire, checks, abandoned, typing, mishaps>>

\* updateRecord, with a new text or none.
Type(p, body) ==
  /\ Editing(p) /\ desk[p].state \in {"starting", "free"} /\ ~ Submitting(p)
  /\ body \in Answers \cap {0, Len(typing.edition) + 1} /\ body # desk[p].body
  /\ desk' = [desk EXCEPT ![p].body = body]
  /\ Persist(p, body)
  /\ typing' = [typing EXCEPT
       !.edition = IF body = 0 THEN @ ELSE Append(@, desk[p].edition),
       !.last[Browser[p]] = [edition |-> desk[p].edition, body |-> body, alone |-> ~ Beside(p)]]
  /\ UNCHANGED <<server, wire, checks, abandoned, mishaps>>

\* After 1.2 seconds without a change.
Autosave(p) ==
  /\ Editing(p) /\ Free(p)
  /\ desk[p].body # desk[p].saved
  /\ Command(p, "save")
  /\ UNCHANGED <<desk, storage, server, checks, abandoned, typing, mishaps>>

\* execution-check: beginSelfCheck and runAiSelfCheck.
SelfCheck(p) ==
  /\ Free(p) /\ desk[p].body # 0
  /\ Command(p, "check")
  /\ desk' = [desk EXCEPT ![p].state = "asking"]
  /\ Persist(p, desk[p].body)
  /\ UNCHANGED <<server, checks, abandoned, typing, mishaps>>

\* The call of the check ends, with or without an answer: finishSelfCheck.
FinishSelfCheck(p) ==
  /\ desk[p].state = "asking"
  /\ desk' = [desk EXCEPT ![p].state = "busy"]
  /\ Persist(p, desk[p].body)
  /\ wire' = Unanswered(p)
  /\ UNCHANGED <<server, checks, abandoned, typing, mishaps>>

\* poll: what runs on the server holds the page.  A page without any text takes that of a
\* check that runs.
Poll(p, body) ==
  LET found == /\ Editing(p) /\ desk[p].body = 0 /\ checks # {}
               /\ Cached(Browser[p], desk[p].edition) = NoText
      held == desk[p].state = "asking" \/ checks # {}
  IN
  /\ Open(p)
  /\ IF found THEN body \in checks ELSE body = desk[p].body
  /\ desk' = [desk EXCEPT ![p].body = body,
       ![p].state = IF ~ held THEN "free" ELSE IF @ = "asking" THEN @ ELSE "busy"]
  /\ IF found \/ ~ held THEN Persist(p, body) ELSE UNCHANGED storage
  /\ UNCHANGED <<server, wire, checks, abandoned, typing, mishaps>>

\* review-proof
SubmitTask(p) ==
  /\ Editing(p) /\ Free(p)
  /\ desk[p].body # 0
  /\ Command(p, "submit")
  /\ UNCHANGED <<desk, storage, server, checks, abandoned, typing, mishaps>>

\* revise-proof and cancel-revision, which wait for the answer and load the page again.
\* An Assignment that moved on refuses them.
RevisionCommand(p, editable) ==
  /\ Free(p) /\ CommandsOf(p) = {}
  /\ desk[p].edition = server.edition /\ server.editable = ~ editable
  /\ server.stage /\ server.latest # 0
  /\ server.edition < MaxEdition
  /\ desk' = [desk EXCEPT ![p] = Blank]
  /\ UNCHANGED <<storage, wire, checks, abandoned, mishaps>>

\* start_evidence_revision: the draft of the new round is the version handed in last.
StartRevision(p) ==
  /\ RevisionCommand(p, TRUE)
  /\ server' = [server EXCEPT !.editable = TRUE, !.edition = @ + 1, !.draft = server.latest]
  /\ typing' = [typing EXCEPT !.stored = server.latest]

CancelRevision(p) ==
  /\ RevisionCommand(p, FALSE)
  /\ server' = [server EXCEPT !.editable = FALSE, !.edition = @ + 1, !.draft = 0]
  /\ typing' = [typing EXCEPT !.stored = 0]

-----------------------------------------------------------------------------
(* The server. *)

\* ensure_revision, and the states in which a draft and a version are taken.
Accepted(m) == m.edition = server.edition /\ server.editable

\* The learner emptied the text in this round.
Cleared == \E b \in Browsers : typing.last[b].edition = server.edition /\ typing.last[b].body = 0

Stored(body) ==
  /\ server' = [server EXCEPT !.draft = body]
  /\ typing' = [typing EXCEPT !.stored = IF body > @ \/ (body = 0 /\ Cleared) THEN body ELSE @]

\* save_submission_draft.  The page counts the text as saved unless it was changed, or its
\* data refreshed, in the meantime.
SaveArrives(m, counted) ==
  /\ m \in wire /\ m.kind = "save"
  /\ counted => Accepted(m) /\ m.from # NoPage /\ desk[m.from].body = m.body
  /\ IF Accepted(m) THEN Stored(m.body) ELSE UNCHANGED <<server, typing>>
  /\ desk' = IF counted THEN [desk EXCEPT ![m.from].saved = m.body] ELSE desk
  /\ wire' = wire \ {m}
  /\ UNCHANGED <<storage, checks, abandoned, mishaps>>

\* runAiSelfCheck: the draft first, then the row of the document, which may be an old one
\* of which nobody has heard for ten minutes.
CheckArrives(m) ==
  /\ m \in wire /\ m.kind = "check"
  /\ IF m.saves THEN IF Accepted(m) THEN Stored(m.body) ELSE UNCHANGED <<server, typing>>
                ELSE UNCHANGED <<server, typing>>
  /\ IF m.saves => Accepted(m)
     THEN checks' = checks \cup {m.body} /\ abandoned' = abandoned \ {m.body}
     ELSE UNCHANGED <<checks, abandoned>>
  /\ wire' = wire \ {m}
  /\ UNCHANGED <<desk, storage, mishaps>>

\* submit_assignment; the page goes to the list of tasks.
SubmitArrives(m) ==
  /\ m \in wire /\ m.kind = "submit"
  /\ Accepted(m) => server.edition < MaxEdition
  /\ IF Accepted(m)
     THEN /\ server' = [server EXCEPT !.editable = FALSE, !.edition = @ + 1, !.draft = 0, !.latest = m.body]
          /\ typing' = [typing EXCEPT !.stored = 0]
          /\ desk' = IF m.from = NoPage THEN desk ELSE [desk EXCEPT ![m.from] = Blank]
     ELSE UNCHANGED <<server, typing, desk>>
  /\ wire' = wire \ {m}
  /\ UNCHANGED <<storage, checks, abandoned, mishaps>>

\* A task that is no stage is returned for revision, and edited as it is.
ReturnTask ==
  /\ ~ server.stage /\ ~ server.editable
  /\ server.edition < MaxEdition
  /\ server' = [server EXCEPT !.editable = TRUE, !.edition = @ + 1]
  /\ UNCHANGED <<desk, storage, wire, checks, abandoned, typing, mishaps>>

CheckEnds(a) ==
  /\ a \in checks \ abandoned
  /\ checks' = checks \ {a}
  /\ UNCHANGED <<desk, storage, server, wire, abandoned, typing, mishaps>>

-----------------------------------------------------------------------------
(* What goes wrong. *)

\* A command is lost, or its answer.
Lose(m) ==
  /\ m \in wire /\ m.from # NoPage
  /\ mishaps < MaxMishaps /\ mishaps' = mishaps + 1
  /\ \/ wire' = wire \ {m}
     \/ wire' = Unanswered(m.from)
  /\ UNCHANGED <<desk, storage, server, checks, abandoned, typing>>

\* The API process of a check dies, and ten minutes pass.
ProcessDies(a) ==
  /\ a \in checks \ abandoned
  /\ mishaps < MaxMishaps /\ mishaps' = mishaps + 1
  /\ abandoned' = abandoned \cup {a}
  /\ UNCHANGED <<desk, storage, server, wire, checks, typing>>

WorkspaceNext ==
  \/ \E p \in Pages :
       \/ OpenPage(p) \/ LeavePage(p) \/ Refresh(p)
       \/ \E body \in Answers : Type(p, body) \/ Poll(p, body)
       \/ Autosave(p) \/ SelfCheck(p) \/ FinishSelfCheck(p) \/ SubmitTask(p)
       \/ StartRevision(p) \/ CancelRevision(p)
  \/ \E m \in wire : \/ \E counted \in BOOLEAN : SaveArrives(m, counted)
                   \/ CheckArrives(m) \/ SubmitArrives(m) \/ Lose(m)
  \/ ReturnTask
  \/ \E a \in checks : CheckEnds(a) \/ ProcessDies(a)

WorkspaceSpec == WorkspaceInit /\ [][WorkspaceNext]_workspaceVars

\* A learner who opens the page and asks for the check as soon as the page lets him, a page
\* that polls, and a network that delivers.
WorkspaceFairness ==
  /\ \A p \in Pages : /\ WF_workspaceVars(OpenPage(p))
                      /\ WF_workspaceVars(\E body \in Answers : Poll(p, body))
                      /\ SF_workspaceVars(SelfCheck(p))
  /\ WF_workspaceVars(\E m \in wire : SaveArrives(m, FALSE) \/ CheckArrives(m) \/ SubmitArrives(m))

-----------------------------------------------------------------------------
(* Properties. *)

\* "A quick Back/refresh must not lose new input": wherever the page is left, and whatever
\* of its commands is lost, late or refused, the page shows what was last typed in this
\* browser, as long as this round of editing lasts.  Other tabs may be open too, before or
\* after, as long as the last text was not typed beside one that edits the same round: such
\* a tab writes its own text over the one storage entry when its poll finds the page free.
NothingTypedIsLost ==
  server.editable =>
    \A b \in Browsers :
      LET last == typing.last[b] IN
      last.edition = server.edition /\ last.body # NoText /\ last.alone => Shown(b) = last.body

\* What was typed in one round of editing and not handed in does not come back in another:
\* not from the storage of any browser, not by a save that arrives late, and not from a
\* check that still runs.
RoundsDoNotMix ==
  server.editable =>
    LET here == {p \in Pages : Open(p) /\ desk[p].edition = server.edition} IN
    \A a \in {server.draft} \cup {desk[p].body : p \in here} \cup {Shown(b) : b \in Browsers} :
      a \in {0, server.latest} \/ typing.edition[a] = server.edition

\* "Refreshing, leaving, signing in again and changing devices lose no authoritative
\* draft": of the texts that the server stored in this round, the draft is the newest.
DraftIsNewest == server.draft = typing.stored

\* "A read or model phase that has been stuck for ten minutes may be taken over by a new
\* attempt": the learner gets to make one.
StuckIsTakenOver == \A a \in Answers : a \in abandoned ~> a \notin abandoned
=============================================================================

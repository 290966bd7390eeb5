----------------------------- MODULE AiSelfCheck -----------------------------
(***************************************************************************)
(* The AI self-check of one Feishu document: the AISelfCheck row, the      *)
(* requests that evaluate the document, and the comments they leave on its *)
(* title.                                                                  *)
(*                                                                         *)
(* A request claims the row, works for minutes without a lock, commits     *)
(* SENDING, calls Feishu once and commits what came of it.  The session    *)
(* keeps the row object across its commits (expire_on_commit is off) and   *)
(* the later SELECT ... FOR UPDATE does not refresh it: up to its end a    *)
(* request works on the row as it left it when it last wrote it.  The      *)
(* claim and the restart begin with a row read under its lock, and a       *)
(* rollback expires the object.                                            *)
(*                                                                         *)
(* Rows of different documents are independent.  The learner, the          *)
(* assignment and the rule version of the row are immutable here, and the  *)
(* refusals before the claim change nothing.                               *)
(***************************************************************************)
EXTENDS Naturals, Sequences

CONSTANTS
  CheckRequests,    \* request threads of the API
  MaxClicks,        \* bound of the model: clicks of the learner
  MaxRevisions,     \* bound of the model: versions of the document
  MaxCrashes        \* bound of the model: API processes that die

ASSUME CheckBounds == {MaxClicks, MaxRevisions, MaxCrashes} \subseteq Nat \ {0}

VARIABLES
  row,        \* the AISelfCheck row, status NONE while there is none
  checking,   \* what each request holds
  comments,   \* the texts of our comments on the title; a comment's id is its index
  document,   \* the revision of the document
  clicks,     \* clicks so far; a click's number is its request_id
  crashes,
  overtaken   \* history only: whether an attempt was replaced while its request worked

checkVars == <<row, checking, comments, document, clicks, crashes, overtaken>>

Status  == {"NONE", "RUNNING", "SENDING", "COMPLETED", "FAILED", "UNCERTAIN"}
Texts   == 0..MaxClicks     \* the text of an evaluation is named by its attempt, 0 is empty
CheckRow == [status : Status, attempt : Texts, lease : {"LIVE", "EXPIRED"},
             comment : Nat, reply : BOOLEAN, result : Texts, hash : 0..MaxRevisions,
             archived : Seq(Texts)]
CheckSteps == {"idle", "claim", "reread", "restart", "read", "reply", "review", "fence",
               "send", "complete", "fail"}

NoRow == [status |-> "NONE", attempt |-> 0, lease |-> "LIVE", comment |-> 0, reply |-> FALSE,
          result |-> 0, hash |-> 0, archived |-> <<>>]

\* The row by which an administrator's local test reset hands a commented document to
\* another learner, left RUNNING by a process that died.
InheritedRow == [NoRow EXCEPT !.status = "RUNNING", !.attempt = 1, !.comment = 1, !.result = 1]

CheckIdle == [step |-> "idle", id |-> 0, fresh |-> FALSE, document |-> 0, row |-> NoRow,
              answer |-> "NONE"]

CheckTypeOK ==
  /\ row \in CheckRow
  /\ checking \in [CheckRequests -> [step : CheckSteps, id : Texts, fresh : BOOLEAN,
                                     document : 0..MaxRevisions, row : CheckRow,
                                     answer : {"NONE", "REJECTED", "AMBIGUOUS"}]]
  /\ comments \in Seq(Texts)
  /\ document \in 1..MaxRevisions
  /\ clicks \in 0..MaxClicks
  /\ crashes \in 0..MaxCrashes
  /\ overtaken \in BOOLEAN

CheckInit ==
  /\ \/ row = NoRow /\ comments = <<>> /\ clicks = 0
     \/ row = InheritedRow /\ comments = <<1>> /\ clicks = 1
  /\ checking = [r \in CheckRequests |-> CheckIdle]
  /\ document = 1
  /\ crashes = 0
  /\ overtaken = FALSE

-----------------------------------------------------------------------------
(* Helpers. *)

CheckAt(r, step) == checking[r].step = step

CheckGoto(r, step) == checking' = [checking EXCEPT ![r].step = step]

CheckEnd(r) == checking' = [checking EXCEPT ![r] = CheckIdle]

\* The request has claimed the row and its attempt has not ended.
Working(r) == checking[r].step \in CheckSteps \ {"idle", "claim", "reread", "restart"}

\* The click is the attempt on the row or one of its archived attempts.
Known(id) == row.attempt = id \/ \E i \in DOMAIN row.archived : row.archived[i] = id

\* claim: a failed attempt, or one that has been RUNNING for ten minutes, is replaced.
Abandoned == row.status = "FAILED" \/ (row.status = "RUNNING" /\ row.lease = "EXPIRED")

\* Mutant: a new attempt starts with an empty result.
ResultDropped == 0

\* "Never lose that anchor before the reply ID has been saved."
ResultKept == IF row.comment = 0 \/ row.reply THEN 0 ELSE row.result

\* restart_changed_document: the completed evaluation is kept.
Archived == Append(row.archived, row.result)

\* original_reply looks for a reply with this text.
Anchor(old) == IF old.archived = <<>> THEN old.result ELSE old.archived[Len(old.archived)]

\* The exception handler: only an explicit rejection by Feishu is safe to retry.
Uncertain(r) == checking[r].answer = "AMBIGUOUS"

-----------------------------------------------------------------------------
(* A request: self_check. *)

\* A new click, with a request_id (fresh) or from an old page without one, or a request_id
\* that is sent again.  Tasks that check the questions of a document read it first.
Arrive(r, id, fresh, early) ==
  /\ CheckAt(r, "idle")
  /\ id \in 1..MaxClicks
  /\ id = clicks + 1 \/ (id <= clicks /\ fresh)
  /\ clicks' = IF id > clicks THEN id ELSE clicks
  /\ checking' = [checking EXCEPT ![r].step = "claim", ![r].id = id, ![r].fresh = fresh,
                                ![r].document = IF early THEN document ELSE 0]
  /\ UNCHANGED <<row, comments, document, crashes, overtaken>>

\* claim writes a new attempt, and the request keeps the row.
Take(r, new) ==
  /\ row' = new
  /\ checking' = [checking EXCEPT ![r].step = "read", ![r].row = new]

\* claim: the row of the document, inserted unless it exists, under its lock.
Claim(r) ==
  LET id == checking[r].id IN
  /\ CheckAt(r, "claim")
  /\ \/ /\ row.status = "NONE"
        /\ Take(r, [NoRow EXCEPT !.status = "RUNNING", !.attempt = id])
        /\ UNCHANGED overtaken
     \/ /\ Abandoned
        /\ ~ (checking[r].fresh /\ Known(id))
        /\ overtaken' = (overtaken \/ \E q \in CheckRequests : Working(q))
        /\ Take(r, [row EXCEPT !.status = "RUNNING", !.attempt = id, !.lease = "LIVE",
                               !.result = ResultKept])
     \/ /\ row.status # "NONE"
        /\ ~ Abandoned \/ (checking[r].fresh /\ Known(id))
        /\ IF row.status = "COMPLETED"
           THEN checking' = [checking EXCEPT ![r].step = "reread", ![r].row = row]
           ELSE CheckEnd(r)
        /\ UNCHANGED <<row, overtaken>>
  /\ UNCHANGED <<comments, document, clicks, crashes>>

\* documents.read, unless the request has read it: before the restart of a completed
\* evaluation, or after the claim.
ReadDocument(r) ==
  /\ CheckAt(r, "reread") \/ CheckAt(r, "read")
  /\ checking' = [checking EXCEPT
       ![r].step = IF CheckAt(r, "reread") THEN "restart" ELSE "reply",
       ![r].document = IF @ = 0 THEN document ELSE @]
  /\ UNCHANGED <<row, comments, document, clicks, crashes, overtaken>>

\* restart_changed_document: a completed evaluation is replaced if nobody replaced it
\* during the read, and the click is new or the document changed.
Restart(r) ==
  LET id == checking[r].id IN
  /\ CheckAt(r, "restart")
  /\ IF /\ row.status = "COMPLETED"
        /\ row.attempt = checking[r].row.attempt
        /\ IF checking[r].fresh THEN ~ Known(id) ELSE row.hash # checking[r].document
     THEN Take(r, [row EXCEPT !.status = "RUNNING", !.attempt = id, !.lease = "LIVE",
                              !.result = 0, !.archived = Archived])
     ELSE CheckEnd(r) /\ UNCHANGED row
  /\ UNCHANGED <<comments, document, clicks, crashes, overtaken>>

\* The reply of a known comment is resolved once, before the model is asked.
ResolveReply(r) ==
  LET old == checking[r].row IN
  /\ CheckAt(r, "reply")
  /\ IF old.comment = 0 \/ old.reply
     THEN CheckGoto(r, "review") /\ UNCHANGED row
     ELSE /\ comments[old.comment] = Anchor(old)
          /\ row' = [row EXCEPT !.reply = TRUE]
          /\ checking' = [checking EXCEPT ![r].step = "review", ![r].row.reply = TRUE]
  /\ UNCHANGED <<comments, document, clicks, crashes, overtaken>>

\* The model answers, and the document is still the one that was read.
Review(r) ==
  /\ CheckAt(r, "review")
  /\ checking[r].document = document
  /\ CheckGoto(r, "fence")
  /\ UNCHANGED <<row, comments, document, clicks, crashes, overtaken>>

\* Reading, resolving the reply or the model fails, or the document changed.
FailBeforeSending(r) ==
  /\ checking[r].step \in {"read", "reply", "review"}
  /\ checking' = [checking EXCEPT ![r].step = "fail", ![r].answer = "REJECTED"]
  /\ UNCHANGED <<row, comments, document, clicks, crashes, overtaken>>

\* SENDING is committed before the call.  The check for a newer attempt compares the row
\* object of this request with itself, so it always passes.
Fence(r) ==
  /\ CheckAt(r, "fence")
  /\ row' = [row EXCEPT !.status = "SENDING", !.lease = "LIVE", !.result = checking[r].id,
                        !.hash = checking[r].document]
  /\ CheckGoto(r, "send")
  /\ UNCHANGED <<comments, document, clicks, crashes, overtaken>>

\* comment_on_title, or update_title_comment of the comment that is known.  Feishu may
\* answer, reject, or do it or not and let the request guess.
Send(r) ==
  LET old == checking[r].row
      written == IF old.comment = 0 THEN Append(comments, checking[r].id)
                 ELSE [comments EXCEPT ![old.comment] = checking[r].id]
  IN
  /\ CheckAt(r, "send")
  /\ \/ /\ comments' = written
        /\ checking' = [checking EXCEPT ![r].step = "complete",
             ![r].row.comment = IF @ = 0 THEN Len(written) ELSE @]
     \/ /\ comments' = comments
        /\ checking' = [checking EXCEPT ![r].step = "fail", ![r].answer = "REJECTED"]
     \/ /\ comments' \in {comments, written}
        /\ checking' = [checking EXCEPT ![r].step = "fail", ![r].answer = "AMBIGUOUS"]
  /\ UNCHANGED <<row, document, clicks, crashes, overtaken>>

Complete(r) ==
  /\ CheckAt(r, "complete")
  /\ row' = [row EXCEPT !.status = "COMPLETED", !.lease = "LIVE",
                        !.comment = checking[r].row.comment]
  /\ CheckEnd(r)
  /\ UNCHANGED <<comments, document, clicks, crashes, overtaken>>

\* The commit of COMPLETED fails: the dispatch is as uncertain as one without an answer.
CompleteFails(r) ==
  /\ CheckAt(r, "complete")
  /\ checking' = [checking EXCEPT ![r].step = "fail", ![r].answer = "AMBIGUOUS"]
  /\ UNCHANGED <<row, comments, document, clicks, crashes, overtaken>>

\* The exception handler, on a row that is read again.
Fail(r) ==
  /\ CheckAt(r, "fail")
  /\ row' = IF row.attempt = checking[r].id /\ row.status # "COMPLETED"
            THEN [row EXCEPT !.status = IF Uncertain(r) THEN "UNCERTAIN" ELSE "FAILED",
                             !.lease = "LIVE"]
            ELSE row
  /\ CheckEnd(r)
  /\ UNCHANGED <<comments, document, clicks, crashes, overtaken>>

-----------------------------------------------------------------------------
(* The environment. *)

Crash(r) ==
  /\ ~ CheckAt(r, "idle")
  /\ crashes < MaxCrashes
  /\ crashes' = crashes + 1
  /\ CheckEnd(r)
  /\ UNCHANGED <<row, comments, document, clicks, overtaken>>

\* Ten minutes since updated_at of a RUNNING row (no other is asked for its age), whether the
\* request that works on the attempt has ended or not: nothing ends one that takes longer.
LeaseElapses ==
  /\ row.status = "RUNNING" /\ row.lease = "LIVE"
  /\ row' = [row EXCEPT !.lease = "EXPIRED"]
  /\ UNCHANGED <<checking, comments, document, clicks, crashes, overtaken>>

EditDocument ==
  /\ document < MaxRevisions
  /\ document' = document + 1
  /\ UNCHANGED <<row, checking, comments, clicks, crashes, overtaken>>

CheckNext ==
  \/ \E r \in CheckRequests :
       \/ \E id \in Texts, fresh, early \in BOOLEAN : Arrive(r, id, fresh, early)
       \/ Claim(r) \/ ReadDocument(r) \/ Restart(r) \/ ResolveReply(r) \/ Review(r)
       \/ FailBeforeSending(r) \/ Fence(r) \/ Send(r)
       \/ Complete(r) \/ CompleteFails(r) \/ Fail(r) \/ Crash(r)
  \/ LeaseElapses
  \/ EditDocument

CheckSpec == CheckInit /\ [][CheckNext]_checkVars

-----------------------------------------------------------------------------
(* Properties. *)

\* A document carries one comment of ours, whatever failed, crashed or was clicked again:
\* once a comment may exist, no request "falls back to creating a second one".
AtMostOneComment == Len(comments) <= 1

\* Through lost answers, crashes, failed attempts and clicks on attempts that died or are
\* given up: there is one comment; what the learner's history calls COMPLETED is what it
\* says; and as long as the reply of a known comment is not resolved, the row still has the
\* text by which it is found.  All this holds up to the click, if ever, that replaces an
\* attempt whose request still works, after ten minutes; from there on the two write the
\* row and the document against each other.  (All rows are well typed.)
RowKnowsItsComment ==
  \/ overtaken
  \/ /\ CheckTypeOK /\ AtMostOneComment
     /\ row.status = "COMPLETED" =>
          /\ row.comment \in DOMAIN comments
          /\ comments[row.comment] = row.result
     /\ row.comment # 0 /\ ~ row.reply /\ row.status \in {"RUNNING", "FAILED"} =>
          comments[row.comment] = Anchor(row)
=============================================================================

--------------------------- MODULE Questionnaire ---------------------------
(***************************************************************************)
(* One security questionnaire for a vendor: staff mail a link with a       *)
(* secret token, and whoever has the link saves and submits answers.       *)
(*                                                                         *)
(* Sending reads the row, mails the link, and writes the token to the row  *)
(* afterwards; the vendor's PATCH reads the status in one statement and    *)
(* writes answers and status in another that asks for the token alone.     *)
(* Between two statements anything may happen to the row, and a request    *)
(* may end anywhere.  The questions, dates, scores, uploaded files and     *)
(* opened_at are left out.                                                 *)
(***************************************************************************)
EXTENDS Naturals

CONSTANTS
  Staff,       \* people with organizations.read, each with a request
  VendorTab,   \* the vendor's requests in flight at once
  MaxTokens,   \* bound: tokens ever drawn
  MaxSaves,    \* bound: sets of answers ever written
  NoToken

ASSUME QuestionnaireParameters ==
  MaxTokens \in Nat /\ MaxSaves \in Nat /\ NoToken \notin 1 .. MaxTokens

VARIABLES
  form,        \* the row: status ("deleted": no row), access_token, responses
  sending,     \* [Staff -> the send or reminder in flight]
  answering,   \* [VendorTab -> the vendor's request in flight]
  mailed,      \* history: the tokens that have been mailed
  tokens,      \* how many tokens have been drawn
  saves,       \* how many sets of answers clients have written: each has a number
  misled,      \* history: two sends overlapped, or one failed after its mail
  submission   \* history: the answers that the vendor has submitted, while nothing
               \* else of the vendor was in flight and no staff have edited or deleted
               \* them since; or 0

formVars == <<form, sending, answering, mailed, tokens, saves, misled, submission>>

FormStatus == {"draft", "sent", "in_progress", "completed", "overdue", "cancelled"}

NotSending == [phase |-> "idle", kind |-> "send", token |-> NoToken]
NotAnswering == [phase |-> "idle", token |-> NoToken, completed |-> FALSE]

QuestionnaireInit ==
  /\ form = [status |-> "draft", token |-> NoToken, answers |-> 0]
  /\ sending = [u \in Staff |-> NotSending]
  /\ answering = [v \in VendorTab |-> NotAnswering]
  /\ mailed = {} /\ tokens = 0 /\ saves = 0 /\ misled = FALSE /\ submission = 0

Exists == form.status # "deleted"
-----------------------------------------------------------------------------
(***************************************************************************)
(* Staff: PATCH and DELETE, send and remind                                *)
(***************************************************************************)

\* PATCH /questionnaires/:id: any status, and answers when the body has them.
EditForm(to, rewrites) ==
  /\ Exists
  /\ rewrites => saves < MaxSaves
  /\ saves' = IF rewrites THEN saves + 1 ELSE saves
  /\ form' = [form EXCEPT !.status = to, !.answers = IF rewrites THEN saves' ELSE @]
  /\ submission' = 0
  /\ UNCHANGED <<sending, answering, mailed, tokens, misled>>

DeleteForm ==
  /\ Exists
  /\ form' = [form EXCEPT !.status = "deleted"]
  /\ submission' = 0
  /\ UNCHANGED <<sending, answering, mailed, tokens, saves, misled>>

\* Mutant of BeginSend: every send draws a token.
BeginSendAnew(u) ==
  /\ sending[u].phase = "idle" /\ Exists
  /\ tokens < MaxTokens /\ tokens' = tokens + 1
  /\ sending' = [sending EXCEPT ![u] = [phase |-> "mail", kind |-> "send", token |-> tokens']]
  /\ misled' = (misled \/ \E w \in Staff : sending[w].phase # "idle" /\ sending[w].kind = "send")
  /\ UNCHANGED <<form, answering, mailed, saves, submission>>

\* The row's token is mailed again; a row without one gets a token that is drawn now
\* and written later.
BeginSend(u) ==
  /\ sending[u].phase = "idle" /\ Exists
  /\ form.token = NoToken => tokens < MaxTokens
  /\ tokens' = IF form.token = NoToken THEN tokens + 1 ELSE tokens
  /\ sending' = [sending EXCEPT ![u] =
       [phase |-> "mail", kind |-> "send",
        token |-> IF form.token = NoToken THEN tokens' ELSE form.token]]
  /\ misled' = (misled \/ \E w \in Staff : sending[w].phase # "idle" /\ sending[w].kind = "send")
  /\ UNCHANGED <<form, answering, mailed, saves, submission>>

\* A reminder needs a questionnaire that has been sent.
BeginReminder(u) ==
  /\ sending[u].phase = "idle" /\ Exists /\ form.token # NoToken
  /\ sending' = [sending EXCEPT ![u] =
       [phase |-> "mail", kind |-> "reminder", token |-> form.token]]
  /\ UNCHANGED <<form, answering, mailed, tokens, saves, misled, submission>>

\* sendNotificationEmail; without a transport nothing is mailed and nobody is told.
\* (A reminder ends here: reminder_sent_at is left out.)
MailLink(u, delivered) ==
  LET s == sending[u] IN
  /\ s.phase = "mail"
  /\ mailed' = IF delivered THEN mailed \cup {s.token} ELSE mailed
  /\ sending' = [sending EXCEPT ![u] =
       IF s.kind = "send" THEN [s EXCEPT !.phase = "record"] ELSE NotSending]
  /\ UNCHANGED <<form, answering, tokens, saves, misled, submission>>

\* Mutant of RecordSent: what was sent again has the status of what was sent.
RecordSentAgain(u) ==
  /\ sending[u].phase = "record"
  /\ form' = IF ~Exists THEN form
             ELSE [form EXCEPT !.token = sending[u].token, !.status = "sent"]
  /\ sending' = [sending EXCEPT ![u] = NotSending]
  /\ UNCHANGED <<answering, mailed, tokens, saves, misled, submission>>

\* The UPDATE after the mail, by id: only a draft becomes sent.
RecordSent(u) ==
  /\ sending[u].phase = "record"
  /\ form' = IF ~Exists THEN form
             ELSE [form EXCEPT !.token = sending[u].token,
                               !.status = IF @ = "draft" THEN "sent" ELSE @]
  /\ sending' = [sending EXCEPT ![u] = NotSending]
  /\ UNCHANGED <<answering, mailed, tokens, saves, misled, submission>>

\* The mail or the UPDATE fails, or the server dies.
SendFails(u) ==
  /\ sending[u].phase # "idle"
  /\ misled' = (misled \/ sending[u].phase = "record")
  /\ sending' = [sending EXCEPT ![u] = NotSending]
  /\ UNCHANGED <<form, answering, mailed, tokens, saves, submission>>
-----------------------------------------------------------------------------
(***************************************************************************)
(* The vendor: PATCH /respond/:token                                       *)
(***************************************************************************)

\* 404 for a token no row has; 409 for what is cancelled or completed.
BeginAnswer(v, token, completed) ==
  /\ answering[v].phase = "idle"
  /\ token \in mailed /\ Exists /\ form.token = token
  /\ form.status \notin {"cancelled", "completed"}
  /\ answering' = [answering EXCEPT ![v] =
       [phase |-> "write", token |-> token, completed |-> completed]]
  /\ UNCHANGED <<form, sending, mailed, tokens, saves, misled, submission>>

WriteAnswers(v) ==
  LET a == answering[v]
      others == \E w \in VendorTab \ {v} : answering[w].phase # "idle"
  IN
  /\ a.phase = "write"
  /\ saves < MaxSaves /\ saves' = saves + 1
  /\ IF Exists /\ form.token = a.token
     THEN /\ form' = [form EXCEPT !.answers = saves',
                                  !.status = IF a.completed THEN "completed" ELSE "in_progress"]
          /\ submission' = IF a.completed /\ ~others THEN saves' ELSE 0
     ELSE UNCHANGED <<form, submission>>
  /\ answering' = [answering EXCEPT ![v] = NotAnswering]
  /\ UNCHANGED <<sending, mailed, tokens, misled>>

AnswerFails(v) ==
  /\ answering[v].phase # "idle"
  /\ answering' = [answering EXCEPT ![v] = NotAnswering]
  /\ UNCHANGED <<form, sending, mailed, tokens, saves, misled, submission>>

QuestionnaireNext ==
  \/ \E to \in FormStatus, rewrites \in BOOLEAN : EditForm(to, rewrites)
  \/ DeleteForm
  \/ \E u \in Staff :
       \/ BeginSend(u) \/ BeginReminder(u) \/ RecordSent(u) \/ SendFails(u)
       \/ \E delivered \in BOOLEAN : MailLink(u, delivered)
  \/ \E v \in VendorTab :
       \/ \E token \in mailed, completed \in BOOLEAN : BeginAnswer(v, token, completed)
       \/ WriteAnswers(v) \/ AnswerFails(v)

QuestionnaireSpec == QuestionnaireInit /\ [][QuestionnaireNext]_formVars
-----------------------------------------------------------------------------
\* Type correctness.
QuestionnaireTypeOK ==
  /\ form.status \in FormStatus \cup {"deleted"}
  /\ form.token \in 1 .. tokens \cup {NoToken} /\ form.answers \in 0 .. saves
  /\ \A u \in Staff : sending[u].phase \in {"idle", "mail", "record"}
  /\ \A v \in VendorTab : answering[v].phase \in {"idle", "write"}
  /\ mailed \subseteq 1 .. tokens /\ tokens <= MaxTokens /\ saves <= MaxSaves
  /\ misled \in BOOLEAN /\ submission \in 0 .. saves

\* The link in a vendor's mail opens the questionnaire once the send that mailed it
\* has ended, however often it is sent, reminded of, edited and answered: unless two
\* sends overlap or one fails between its mail and its UPDATE, which kill a link.
MailedLinkWorks ==
  ~misled => \A token \in mailed :
    \/ token = form.token \/ ~Exists
    \/ \E u \in Staff : sending[u].phase = "record" /\ sending[u].token = token

\* What the vendor has submitted stays submitted, as it was, until staff edit or
\* delete it: no send or reminder that read an older row reopens it, and no answers
\* are taken after it.  (Only a request of the vendor's own that was in flight when
\* the submission was written may still overwrite it.)
SubmissionStands ==
  submission # 0 => form.status = "completed" /\ form.answers = submission
=============================================================================

--------------------------- MODULE CognitoRedirect ---------------------------
(***************************************************************************)
(* fillOtpAndWaitForCognitoRedirect of                                     *)
(* packages/playwright-toolkit/src/lib/cognitoDiagnostics.ts.              *)
(*                                                                         *)
(* A one-time code is typed into the page, which sends it to Cognito; the  *)
(* call waits for the redirect that follows, against a monitor of the      *)
(* page's requests that tells a refused code at once.  The page is the     *)
(* browser's: what it sends, what is answered, whether the code can be     *)
(* typed in and when the page changes is up to it.                         *)
(*                                                                         *)
(* A text is the set of the kinds of its fragments.                        *)
(***************************************************************************)
EXTENDS Retry

CONSTANTS
  Requests,       \* the requests the page may send: [method, isCognito, target, challenge]
  RequestOf,      \* what each of them is
  ResponseStatuses,
  BodyOf,         \* the text of each one's response
  PageText,       \* what the page shows
  PlaywrightText, \* what an error of Playwright says
  RedirectTimeout, \* expectedUrlTimeoutMs
  MaxSent         \* bound: the requests that the page sends

ASSUME CognitoAssumption ==
  /\ RedirectTimeout \in Nat /\ MaxSent \in Nat
  /\ ResponseStatuses \subseteq 200 .. 599

VARIABLES
  otp,      \* where the call is
  sent,     \* what has become of each request
  monitor,  \* the CognitoChallengeMonitor: [listening, due, attempt]
  bodies,   \* the responses whose text it awaits
  arrived,  \* the page is at the expected URL
  urlDue,   \* when waitForURL gives up
  shown,    \* what the page shows
  sample,   \* pageTextSample: [isTaken, text]
  shot,     \* how far the screenshot is
  report,   \* what the call has answered
  \* history: when the monitor first knew all of a challenge's outcome
  heardAt

otpVars == <<otp, sent, monitor, bodies, arrived, urlDue, shown, sample, shot, report, heardAt>>
pageVars == <<arrived, urlDue, shown, sample, shot>>

Unheard == -1
NoRequest == "none"

Secrets == {"bearer", "jwt", "field", "parameter", "email", "number"}

\* sanitizeCognitoDiagnosticText.
Sanitized(text) == (text \ Secrets) \cup {"redacted" : secret \in text \cap Secrets}

\* redact, in the page: fields and parameters are not looked for there.
Redacted(text) ==
  LET found == text \cap {"bearer", "jwt", "email", "number"}
  IN  (text \ found) \cup {"redacted" : secret \in found}

Attempt(type, request, status, text) ==
  [type |-> type, request |-> request, status |-> status, text |-> text]
NotObserved == Attempt("not-observed", NoRequest, 0, {})
NoAttempt == Attempt("none", NoRequest, 0, {})

NoReport == [kind |-> "none"]
FillRaised == [kind |-> "raised"]      \* the code could not be typed in
Redirected == [kind |-> "redirected"]

IsCognitoOtpChallengeRequest(r) ==
  /\ RequestOf[r].method = "POST" /\ RequestOf[r].isCognito
  /\ RequestOf[r].target = "RespondToAuthChallenge"
  /\ RequestOf[r].challenge \in {"EMAIL_OTP", "SMS_OTP"}

\* waitForTerminalCognitoChallengeFailure rejects; for other attempts it never settles.
IsTerminalFailure(a) ==
  \/ a.type = "request-failure"
  \/ a.type = "response" /\ a.status \notin 200 .. 299

OtpInit ==
  /\ otp = "idle"
  /\ sent = [r \in Requests |-> [state |-> "unsent", status |-> 0]]
  /\ monitor = [listening |-> FALSE, due |-> 0, attempt |-> NoAttempt]
  /\ bodies = {}
  /\ arrived = FALSE /\ urlDue = 0
  /\ shown = PageText
  /\ sample = [isTaken |-> FALSE, text |-> {}] /\ shot = "none"
  /\ report = NoReport
  /\ heardAt = Unheard
-----------------------------------------------------------------------------
\* completeAttempt, of which only the first call counts: the timer is cleared and the
\* listeners are removed.
Complete(attempt0) ==
  monitor' = IF monitor.attempt # NoAttempt THEN monitor
             ELSE [monitor EXCEPT !.attempt = attempt0, !.listening = FALSE]

Hear == heardAt' = IF heardAt = Unheard THEN loop ELSE heardAt

\* The monitor is set up and the code is being typed in.
OtpCalls ==
  /\ otp \in {"idle", "done"} /\ now <= LastStart
  /\ otp' = "filling"
  /\ monitor' = [listening |-> TRUE, due |-> loop + RedirectTimeout, attempt |-> NoAttempt]
  /\ bodies' = {}
  /\ sample' = [isTaken |-> FALSE, text |-> {}] /\ shot' = "none"
  /\ report' = NoReport
  /\ heardAt' = Unheard
  /\ UNCHANGED <<sent, arrived, urlDue, shown>>

\* Mutant: the monitor is left alone.
FillFailsQuietly ==
  /\ otp = "filling"
  /\ otp' = "done" /\ report' = FillRaised
  /\ UNCHANGED <<sent, monitor, bodies, heardAt>> /\ UNCHANGED pageVars

FillFails ==
  /\ otp = "filling"
  /\ Complete(NotObserved)
  /\ otp' = "done" /\ report' = FillRaised
  /\ UNCHANGED <<sent, bodies, heardAt>> /\ UNCHANGED pageVars

FillSucceeds ==
  /\ otp = "filling"
  /\ otp' = "racing"
  /\ urlDue' = loop + RedirectTimeout
  /\ UNCHANGED <<sent, monitor, bodies, arrived, shown, sample, shot, report, heardAt>>

\* The page sends a request, perhaps before the filling is known to be over.
PageSends(r) ==
  /\ otp # "idle" /\ sent[r].state = "unsent"
  /\ Cardinality({q \in Requests : sent[q].state # "unsent"}) < MaxSent
  /\ sent' = [sent EXCEPT ![r].state = "sent"]
  /\ UNCHANGED <<otp, monitor, bodies, report, heardAt>> /\ UNCHANGED pageVars

\* handleResponse.  The text of a success is left alone, since it may hold tokens.
RequestAnswered(r, status) ==
  /\ sent[r].state = "sent"
  /\ sent' = [sent EXCEPT ![r] = [state |-> "answered", status |-> status]]
  /\ LET isHeard == monitor.listening /\ IsCognitoOtpChallengeRequest(r) IN
     \/ /\ isHeard /\ status \in 200 .. 399
        /\ Complete(Attempt("response", r, status, {"omitted"}))
        /\ Hear
        /\ UNCHANGED bodies
     \/ /\ isHeard /\ status \notin 200 .. 399
        /\ bodies' = bodies \cup {r}
        /\ UNCHANGED <<monitor, heardAt>>
     \/ /\ ~isHeard
        /\ UNCHANGED <<monitor, bodies, heardAt>>
  /\ UNCHANGED <<otp, report>> /\ UNCHANGED pageVars

\* The text of a response has come, or it cannot be had.
BodySettles(r) ==
  /\ r \in bodies
  /\ bodies' = bodies \ {r}
  /\ \E text \in {Sanitized(BodyOf[r]), {"unavailable"}} :
       Complete(Attempt("response", r, sent[r].status, text))
  /\ Hear
  /\ UNCHANGED <<otp, sent, report>> /\ UNCHANGED pageVars

\* handleRequestFailure.
RequestFails(r) ==
  /\ sent[r].state = "sent"
  /\ sent' = [sent EXCEPT ![r].state = "failed"]
  /\ IF monitor.listening /\ IsCognitoOtpChallengeRequest(r)
     THEN Complete(Attempt("request-failure", r, 0, Sanitized(PlaywrightText))) /\ Hear
     ELSE UNCHANGED <<monitor, heardAt>>
  /\ UNCHANGED <<otp, bodies, report>> /\ UNCHANGED pageVars

MonitorExpires ==
  /\ monitor.listening /\ loop >= monitor.due
  /\ Complete(NotObserved)
  /\ UNCHANGED <<otp, sent, bodies, report, heardAt>> /\ UNCHANGED pageVars

\* The page goes where it is expected.
PageArrives ==
  /\ otp \in {"filling", "racing"} /\ ~arrived
  /\ arrived' = TRUE
  /\ UNCHANGED <<otp, sent, monitor, bodies, urlDue, shown, sample, shot, report, heardAt>>

\* waitForURL wins the race.
RedirectSeen ==
  /\ otp = "racing" /\ arrived
  /\ Complete(NotObserved)
  /\ otp' = "done" /\ report' = Redirected
  /\ UNCHANGED <<sent, bodies, heardAt>> /\ UNCHANGED pageVars

\* waitForURL gives up, or the page is closed; or the code has been refused.
RaceFails ==
  /\ otp = "racing"
  /\ otp' = "diagnosing"
  /\ \/ /\ report' = [kind |-> "failing", cause |-> "url"]
     \/ /\ IsTerminalFailure(monitor.attempt)
        /\ report' = [kind |-> "failing", cause |-> "challenge"]
  /\ UNCHANGED <<sent, monitor, bodies, heardAt>> /\ UNCHANGED pageVars

\* getVisiblePageTextSample, beside the screenshot.
TextIsSampled ==
  /\ otp = "diagnosing" /\ ~sample.isTaken
  /\ sample' \in [isTaken : {TRUE}, text : {Sanitized(shown), Sanitized(PlaywrightText)}]
  /\ UNCHANGED <<otp, sent, monitor, bodies, arrived, urlDue, shown, shot, report, heardAt>>

\* attachSanitizedScreenshot: the page's text is replaced, then a picture taken and
\* attached.  It is not taken without testInfo, and it may fail at every step.
ScreenshotGoesOn ==
  /\ otp = "diagnosing" /\ shot \in {"none", "redacted"}
  /\ \/ shot = "none" /\ shot' = "redacted" /\ shown' = Redacted(shown)
     \/ shot = "redacted" /\ shot' = "attached" /\ UNCHANGED shown
     \/ shot' = "unavailable" /\ UNCHANGED shown
  /\ UNCHANGED <<otp, sent, monitor, bodies, arrived, urlDue, sample, report, heardAt>>

\* All of getFailureDiagnostics has settled, and the call fails.
RedirectFails ==
  /\ otp = "diagnosing"
  /\ monitor.attempt # NoAttempt /\ sample.isTaken /\ shot \in {"attached", "unavailable"}
  /\ otp' = "done"
  /\ report' = [kind |-> "failed", cause |-> report.cause, challenge |-> monitor.attempt,
                pageText |-> sample.text, screenshot |-> shot,
                lastError |-> IF report.cause = "url" THEN Sanitized(PlaywrightText)
                              ELSE Sanitized(monitor.attempt.text)]
  /\ UNCHANGED <<sent, monitor, bodies, heardAt>> /\ UNCHANGED pageVars

\* What the browser does.
PageNext ==
  \/ FillFails \/ FillSucceeds \/ PageArrives
  \/ \E r \in Requests :
       \/ PageSends(r) \/ BodySettles(r) \/ RequestFails(r)
       \/ \E status \in ResponseStatuses : RequestAnswered(r, status)

OtpNext ==
  /\ \/ OtpCalls \/ PageNext \/ MonitorExpires \/ RedirectSeen \/ RaceFails
     \/ TextIsSampled \/ ScreenshotGoesOn \/ RedirectFails
  /\ UNCHANGED retryVars

OtpTimersRun == monitor.listening \/ otp = "racing"

\* Timers are late by at most LateBy, and a redirect that is there is seen.
OtpOverdue ==
  \/ monitor.listening /\ loop >= monitor.due + LateBy
  \/ otp = "racing" /\ (arrived \/ IsTerminalFailure(monitor.attempt) \/ loop >= urlDue + LateBy)
-----------------------------------------------------------------------------
\* What a failure reports is what happened, whichever of the redirect, the responses,
\* their bodies, the timers and the end of the filling came first: a code is said to be
\* refused because a challenge of Cognito was, as the report has it; none is said to be
\* "not observed" (cognitoDiagnostics.ts:288) when the outcome of one was known in time;
\* and nothing secret is in it ("On failure it reports the observed Cognito challenge,
\* sanitized response/page text", cognitoDiagnostics.ts:61).  However the call ends, no
\* listener is left on the page.
RedirectReportsAreTrue ==
  /\ otp \in {"idle", "done"} => ~monitor.listening
  /\ report.kind = "redirected" => arrived
  /\ report.kind = "failed" =>
       LET a == report.challenge IN
       /\ report.cause = "challenge" => IsTerminalFailure(a)
       /\ a.type \in {"response", "request-failure"} =>
            /\ IsCognitoOtpChallengeRequest(a.request)
            /\ sent[a.request].status = a.status
            /\ sent[a.request].state = IF a.type = "response" THEN "answered" ELSE "failed"
       /\ a.type = "not-observed" => heardAt = Unheard \/ heardAt >= monitor.due
       /\ (a.text \cup report.pageText \cup report.lastError) \cap Secrets = {}
-----------------------------------------------------------------------------
\* What makes it inductive.

\* The attempt that the monitor settled with is one that was seen, or it saw none in time.
AttemptIsTrue ==
  LET a == monitor.attempt IN
  /\ a.type \in {"response", "request-failure"} =>
       /\ a.request \in Requests /\ IsCognitoOtpChallengeRequest(a.request)
       /\ sent[a.request] = [state |-> IF a.type = "response" THEN "answered" ELSE "failed",
                             status |-> a.status]
  /\ a.type = "not-observed" /\ report.kind \notin {"raised", "redirected"} =>
       /\ loop >= monitor.due
       /\ heardAt = Unheard \/ heardAt >= monitor.due
  /\ a.text \cap Secrets = {}

\* While the monitor listens it has heard nothing, and what it has to read is an answer to
\* a challenge.
MonitorInv ==
  /\ monitor \in [listening : BOOLEAN, due : Nat, attempt : {monitor.attempt}]
  /\ heardAt \in Nat \cup {Unheard}
  /\ sent \in [Requests -> [state : {"unsent", "sent", "answered", "failed"}, status : Nat]]
  /\ \A r \in Requests : sent[r].state # "answered" => sent[r].status = 0
  /\ monitor.listening <=> otp # "idle" /\ monitor.attempt = NoAttempt
  /\ monitor.listening => heardAt = Unheard
  /\ \A r \in bodies : /\ r \in Requests /\ IsCognitoOtpChallengeRequest(r)
                       /\ sent[r].state = "answered"

\* A call ends only when the monitor has settled, and reports what it settled with.
ReportInv ==
  /\ otp = "done" => monitor.attempt # NoAttempt
  /\ otp = "diagnosing" <=> report.kind = "failing"
  /\ report.kind \in {"raised", "redirected", "failed"} => otp = "done"
  /\ report.kind = "redirected" => arrived
  /\ report.kind \in {"failing", "failed"} /\ report.cause = "challenge" =>
       IsTerminalFailure(monitor.attempt)
  /\ sample.isTaken => sample.text \cap Secrets = {}
  /\ report.kind = "failed" =>
       /\ report.challenge = monitor.attempt
       /\ (report.pageText \cup report.lastError) \cap Secrets = {}

OtpInv == MonitorInv /\ AttemptIsTrue /\ ReportInv
=============================================================================

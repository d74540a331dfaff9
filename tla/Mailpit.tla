------------------------------ MODULE Mailpit ------------------------------
(***************************************************************************)
(* fetchMailpitValue of packages/playwright-toolkit/src/lib/mailpit.ts: a  *)
(* poll for a mail that holds a value (a magic link, a one-time code).     *)
(*                                                                         *)
(* Each attempt searches the mailbox, which is Mailpit's and receives      *)
(* mails meanwhile, and reads the newest few of the mails found.  Values   *)
(* are kept from attempt to attempt, and what the attempts met is counted. *)
(*                                                                         *)
(* A text is a sequence of tokens: a link to the login page, a run of      *)
(* eight digits or of four, a space, a style or script element, or a word. *)
(***************************************************************************)
EXTENDS Retry, SetupRetry, SequencesExt

CONSTANTS
  Mail,           \* the call of fetchMailpitValue
  MailModes,
  Mails,          \* the mails that may be delivered
  Created,        \* when each was created, NoDate when the search result has no usable date
  Malformed,      \* those whose search result has not the fields of a summary
  TextOf, HtmlOf, \* Text and HTML of each
  Excluded,       \* excludedValues, by what is looked for
  Statuses,       \* with which Mailpit may refuse a request
  SentAfter,      \* sentAfter less the tolerance of 30 s, NoDate for undefined
  MaxMessages,    \* MAX_MESSAGES_TO_FETCH
  NoDate, NoMail

ASSUME MailAssumption ==
  /\ Mail \in Calls /\ MailModes \subseteq Modes
  /\ \A m \in MailModes : m.kind = "poll" /\ m.classifies
  /\ NoDate \notin Int /\ Created \in [Mails -> Int \cup {NoDate}]
  /\ SentAfter \in Int \cup {NoDate}
  /\ MaxMessages \in Nat /\ NoMail \notin Mails
  /\ Malformed \subseteq Mails /\ Statuses \subseteq 300 .. 599
  /\ \A text \in {TextOf[m] : m \in Mails} \cup {HtmlOf[m] : m \in Mails} :
       \A i \in DOMAIN text : text[i].kind \in {"link", "eight", "four", "space", "style", "word"}

VARIABLES
  box,        \* the mails delivered
  label,      \* what the call looks for: a magic "link" or a "code"
  phase,      \* of the probe: "none", "searching" or "reading"
  candidates, \* the mails it has still to look at
  values,     \* valuesByMessageId
  snapshot,   \* pollingSnapshot
  found,      \* the mail the answer comes from
  \* history of the probe: what the search found, and the reads that failed
  searched, missed

mailVars == <<box, label, phase, candidates, values, snapshot, found, searched, missed>>

NoValue == <<>>   \* what extractValue finds is a link, a code, or the two halves of one

\* createMailpitPollingSnapshot.
EmptySnapshot ==
  [searches |-> 0, results |-> 0, candidates |-> 0, undated |-> 0, fetched |-> 0,
   misses |-> 0, excluded |-> 0, errors |-> 0, statuses |-> {}, newest |-> NoDate]

MailInit ==
  /\ box = {}
  /\ label = "link"
  /\ phase = "none"
  /\ candidates = <<>>
  /\ values = [m \in {} |-> NoValue]
  /\ snapshot = EmptySnapshot
  /\ found = NoMail
  /\ searched = {} /\ missed = {}
-----------------------------------------------------------------------------
\* What is looked for in a mail.

TokensOf(text, kinds) == SelectSeq(text, LAMBDA token : token.kind \in kinds)
FirstValue(tokens) == IF tokens = <<>> THEN NoValue ELSE <<Head(tokens).value>>

\* extractMagicLinkFromMailpitMessage: the first link of the text, or else of the HTML.
MagicLink(m) == FirstValue(TokensOf(TextOf[m] \o HtmlOf[m], {"link"}))

\* extractEmailOtpCodeFromContent: eight digits, or else two groups of four with nothing
\* but white space between them.
CodeIn(text) ==
  LET eights == TokensOf(text, {"eight"})
      solid == SelectSeq(text, LAMBDA token : token.kind # "space")
      pairs == {i \in 1 .. Len(solid) - 1 : solid[i].kind = "four" /\ solid[i + 1].kind = "four"}
      first == CHOOSE i \in pairs : \A j \in pairs : i <= j
  IN  IF eights # <<>> \/ pairs = {} THEN FirstValue(eights)
      ELSE <<solid[first].value, solid[first + 1].value>>

\* extractEmailOtpCodeFromMailpitMessage: in HTML the tags, which hold the links, are
\* white space, and styles and scripts nothing.
OtpCode(m) ==
  LET ofText == CodeIn(TextOf[m])
  IN  IF ofText # NoValue THEN ofText
      ELSE CodeIn(SelectSeq(HtmlOf[m], LAMBDA token : token.kind \notin {"link", "style"}))

ExtractValue(m) == IF label = "link" THEN MagicLink(m) ELSE OtpCode(m)

IsWanted(value) == value # NoValue /\ value \notin Excluded[label]

\* How requestMailpitJson may fail: the request is not answered, or not in time; it is
\* refused; its body cannot be read.
JsonFailures ==
  [kind : {"unreachable", "unreadable"}, status : {NoStatus}]
    \cup [kind : {"refused"}, status : Statuses]

\* How the client's requests may fail: the body may not be what it should be, either.
RequestFailures == JsonFailures \cup {[kind |-> "malformed", status |-> NoStatus]}

\* isMailpitMessageSummary filters what is found.
Summaries(mails) == mails \ Malformed

IsTransientMailpitError(e) ==
  e.kind = "unreachable" \/ e.status = 404 \/ IsRetryableHttpStatus(e.status)

\* recordTransientRequestError.
WithRequestError(e) ==
  [snapshot EXCEPT !.errors = @ + 1, !.statuses = @ \cup {e.status}]
-----------------------------------------------------------------------------
\* getMailpitMessageTimestampMs is defined.
IsDated(m) == Created[m] # NoDate

IsMessageSentAfter(m) == SentAfter = NoDate \/ ~IsDated(m) \/ Created[m] >= SentAfter

\* compareMailpitMessagesNewestFirst: m may stand before n.  Undated mails come last.
NewestFirst(m, n) ==
  IF IsDated(m) THEN ~IsDated(n) \/ Created[m] >= Created[n] ELSE ~IsDated(n)

\* Mutant: the search result is cut before it is sorted.
CandidatesCutFirst(mails) ==
  {r \in UNION {SetToSeqs(cut) : cut \in
       {k \in SUBSET {m \in mails : IsMessageSentAfter(m)} : Cardinality(k) <= MaxMessages}} :
     \A i, j \in DOMAIN r : i < j => NewestFirst(r[i], r[j])}

\* The orders in which the mails of a search may be looked at; the search returns mails
\* of one date in any order.
Candidates(mails) ==
  {SubSeq(q, 1, Smaller(MaxMessages, Len(q))) :
     q \in {r \in SetToSeqs({m \in mails : IsMessageSentAfter(m)}) :
              \A i, j \in DOMAIN r : i < j => NewestFirst(r[i], r[j])}}

\* recordNewestCandidateTimestamp.
NewestDate(mails) ==
  LET dates == ({Created[m] : m \in mails} \cup {snapshot.newest}) \ {NoDate}
  IN  IF dates = {} THEN NoDate ELSE CHOOSE d \in dates : \A e \in dates : e <= d

\* What the search returns is counted, and so is what of it is eligible.
WithSearch(mails) ==
  LET eligible == {m \in mails : IsMessageSentAfter(m)}
  IN  [snapshot EXCEPT
         !.results = @ + Cardinality(mails),
         !.undated = @ + Cardinality({m \in mails : ~IsDated(m)}),
         !.candidates = @ + Cardinality(eligible),
         !.newest = NewestDate(eligible)]

\* A mail has been read, and this is what was found in it.
WithMail(value) ==
  [snapshot EXCEPT
     !.fetched = @ + 1,
     !.misses = IF value = NoValue THEN @ + 1 ELSE @,
     !.excluded = IF value # NoValue /\ value \in Excluded[label] THEN @ + 1 ELSE @]
-----------------------------------------------------------------------------
\* A mail that was there before the call might as well arrive before its first search.
Deliver(m) ==
  /\ pc[Mail] # "idle" /\ m \notin box
  /\ IsDated(m) => Created[m] <= now
  /\ box' = box \cup {m}
  /\ UNCHANGED <<label, phase, candidates, values, snapshot, found, searched, missed>>
  /\ UNCHANGED retryVars

BeginProbe(counts) ==
  /\ phase' = "searching" /\ candidates' = <<>>
  /\ snapshot' = [counts EXCEPT !.searches = @ + 1]

\* fetchMagicLinkFromMailpit or fetchEmailOtpCodeFromMailpit.
MailCalls ==
  /\ now <= LastStart
  /\ label' \in {"link", "code"}
  /\ \E m \in MailModes :
       /\ Call(Mail, m)
       /\ IF ValidMode(m) THEN BeginProbe(EmptySnapshot)
          ELSE snapshot' = EmptySnapshot /\ UNCHANGED <<phase, candidates>>
       /\ values' = [i \in {} |-> NoValue]
       /\ found' = NoMail
       /\ UNCHANGED <<box, searched, missed>>

\* The probe's operation settles, and with it the probe.
ProbeEnds(outcome) ==
  /\ \E a \in live[Mail] : OperationSettles(Mail, a, outcome)
  /\ phase' = "none"
  /\ candidates' = <<>>

\* searchMessages answers.
SearchAnswers ==
  /\ phase = "searching"
  /\ LET mails == Summaries(box) IN
       /\ \E q \in Candidates(mails) : candidates' = q
       /\ snapshot' = WithSearch(mails)
       /\ searched' = mails
  /\ phase' = "reading"
  /\ missed' = {}
  /\ UNCHANGED <<box, label, values, found>>
  /\ UNCHANGED retryVars

\* A search that fails for a while is told as "not found".
SearchFails ==
  /\ phase = "searching"
  /\ \E e \in RequestFailures :
       \/ /\ IsTransientMailpitError(e)
          /\ snapshot' = WithRequestError(e)
          /\ ProbeEnds("transient")
       \/ /\ ~IsTransientMailpitError(e)
          /\ ProbeEnds("deterministic")
          /\ UNCHANGED snapshot
  /\ UNCHANGED <<box, label, values, found, searched, missed>>

\* The candidate's value is taken, or it is passed over.
TakeOrPass(m, value) ==
  IF IsWanted(value)
  THEN /\ found' = m
       /\ ProbeEnds("value")
  ELSE /\ candidates' = Tail(candidates)
       /\ UNCHANGED <<phase, found>> /\ UNCHANGED retryVars

KnownCandidate ==
  /\ phase = "reading" /\ candidates # <<>> /\ Head(candidates) \in DOMAIN values
  /\ TakeOrPass(Head(candidates), values[Head(candidates)])
  /\ UNCHANGED <<box, label, values, snapshot, searched, missed>>

\* getMessage answers and the value is extracted and kept.
ReadAnswers ==
  /\ phase = "reading" /\ candidates # <<>> /\ Head(candidates) \notin DOMAIN values
  /\ LET m == Head(candidates)
         value == ExtractValue(m)
     IN  /\ values' = [i \in DOMAIN values \cup {m} |-> IF i = m THEN value ELSE values[i]]
         /\ snapshot' = WithMail(value)
         /\ TakeOrPass(m, value)
  /\ UNCHANGED <<box, label, searched, missed>>

\* getMessage fails: a transient failure leaves the mail to the next probe and this one
\* to older mails.
ReadFails ==
  /\ phase = "reading" /\ candidates # <<>> /\ Head(candidates) \notin DOMAIN values
  /\ \E e \in RequestFailures :
       \/ /\ ~IsTransientMailpitError(e)
          /\ ProbeEnds("deterministic")
          /\ UNCHANGED <<snapshot, missed>>
       \/ /\ IsTransientMailpitError(e)
          /\ snapshot' = WithRequestError(e)
          /\ candidates' = Tail(candidates)
          /\ missed' = missed \cup {Head(candidates)}
          /\ UNCHANGED phase /\ UNCHANGED retryVars
  /\ UNCHANGED <<box, label, values, found, searched>>

NothingFound ==
  /\ phase = "reading" /\ candidates = <<>>
  /\ ProbeEnds("transient")
  /\ UNCHANGED <<box, label, values, snapshot, found, searched, missed>>

\* The call's own steps.  When its sleep ends in an attempt, a probe begins.
MailGoesOn ==
  \/ /\ AttemptExpires(Mail) \/ HookReturns(Mail) \/ SleepExpires(Mail)
     /\ UNCHANGED mailVars
  \/ /\ SleepEnds(Mail)
     /\ IF pc'[Mail] = "operation" THEN BeginProbe(snapshot)
        ELSE UNCHANGED <<phase, candidates, snapshot>>
     /\ UNCHANGED <<box, label, values, found, searched, missed>>

MailNext ==
  \/ \E m \in Mails : Deliver(m)
  \/ MailCalls
  \/ SearchAnswers \/ SearchFails
  \/ KnownCandidate \/ ReadAnswers \/ ReadFails \/ NothingFound
  \/ MailGoesOn
-----------------------------------------------------------------------------
\* The answer comes from the newest mail that has a wanted value: a newer one in the
\* search it comes from was excluded, held nothing, or could not be read (README.md:268,
\* "The pollers search newest-first"); and it is not older than sentAfter.
NewestWins ==
  pc[Mail] = "done" /\ result[Mail].kind = "value" =>
    /\ found \in searched /\ IsWanted(ExtractValue(found)) /\ IsMessageSentAfter(found)
    /\ \A m \in searched \ missed :
         IsMessageSentAfter(m) /\ ~NewestFirst(found, m) => ~IsWanted(ExtractValue(m))

\* What an answer or a timeout is explained by adds up, though the probes go over the
\* same mails again and some outlive their attempt: a mail is read and judged once, no
\* more mails than the searches returned; every failure has its status; a search is
\* counted for each attempt; and the newest candidate is one that could be found.
DiagnosticsAddUp ==
  /\ snapshot.fetched = Cardinality(DOMAIN values)
  /\ snapshot.fetched =
       snapshot.misses + snapshot.excluded + Cardinality({m \in DOMAIN values : IsWanted(values[m])})
  /\ snapshot.fetched <= snapshot.candidates /\ snapshot.candidates <= snapshot.results
  /\ (snapshot.errors = 0) = (snapshot.statuses = {})
  /\ pc[Mail] # "idle" /\ attempt[Mail] > 0 => snapshot.searches = attempt[Mail]
  /\ snapshot.newest = NoDate \/ \E m \in Summaries(box) : Created[m] = snapshot.newest

MailAnswersAreExplained == NewestWins /\ DiagnosticsAddUp
-----------------------------------------------------------------------------
\* What makes them inductive.

Eligible(mails) == {m \in mails : IsMessageSentAfter(m)}
MailSucceeded == pc[Mail] = "done" /\ result[Mail].kind = "value"

MailTypeOK ==
  /\ box \subseteq Mails /\ IsFiniteSet(box)
  /\ \A m \in box : IsDated(m) => Created[m] <= now
  /\ label \in {"link", "code"}
  /\ phase \in {"none", "searching", "reading"}
  /\ candidates \in Seq(Mails)
  /\ snapshot \in [searches : Nat, results : Nat, candidates : Nat, undated : Nat,
                   fetched : Nat, misses : Nat, excluded : Nat, errors : Nat,
                   statuses : {snapshot.statuses}, newest : Int \cup {NoDate}]
  /\ searched \subseteq Summaries(box)

\* What is known of a mail is what is in it; and what was read was searched and counted.
ValuesInv ==
  /\ DOMAIN values \subseteq Eligible(searched)
  /\ values = [m \in DOMAIN values |-> ExtractValue(m)]
  /\ phase = "reading" \/ DOMAIN values # {} =>
       Cardinality(Eligible(searched)) <= snapshot.candidates

\* A probe belongs to an attempt.  While it reads, a mail that it has passed over was not
\* wanted or could not be read, and one that it will not read is not newer than those
\* that it will.
ProbeInv ==
  /\ phase # "none" => live[Mail] # {} /\ ~MailSucceeded
  /\ phase = "reading" =>
       /\ \A i \in DOMAIN candidates : candidates[i] \in Eligible(searched)
       /\ \A i, j \in DOMAIN candidates : i < j => NewestFirst(candidates[i], candidates[j])
       /\ \A m \in Eligible(searched) \ missed :
            \/ ~IsWanted(ExtractValue(m))
            \/ \E i \in DOMAIN candidates : candidates[i] = m
            \/ \A i \in DOMAIN candidates : NewestFirst(candidates[i], m)

MailInv == MailTypeOK /\ ValuesInv /\ ProbeInv /\ NewestWins /\ DiagnosticsAddUp
=============================================================================

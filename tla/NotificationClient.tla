------------------------- MODULE NotificationClient -------------------------
(***************************************************************************)
(* What packages/notifications offers besides triggerChunked:               *)
(* NotificationJobEnqueuer.enqueueOneOrMore with NotificationClient.trigger  *)
(* (the older way to notify), cancel, appendPushToken, upsertWorkplace,      *)
(* upsertUserPreferences and signUserToken.                                  *)
(*                                                                           *)
(* The job queue and the provider are external.  The queue keeps one job per *)
(* unique key.  The provider answers a known idempotency key with what it    *)
(* answered before, and refuses one that comes with another body.  Requests  *)
(* may be refused, arrive late or not at all, and answers may be lost.  All  *)
(* happens within the 24 hours the provider remembers a key.                 *)
(***************************************************************************)
EXTENDS Integers, Sequences, FiniteSets, SequencesExt

CONSTANTS
  Apps,          \* processes of services that use the client
  Workers,       \* workers of the queue that run notification jobs
  Operations,    \* per app the operations it uses
  TokenOf,       \* per app the push token it adds
  OldTokens,     \* push tokens of the user before the first request
  Events,        \* what one notifies of: the idempotencyKeyParts with their workflow
  Lists,         \* per event the lists of recipients that are enqueued
  Workplace,     \* per event the workplaceId of the body
  Variables,     \* what a job may find for the template variables of the body when it runs
  MaxRecipientsCount,  \* MAXIMUM_RECIPIENTS_COUNT
  MaxRetries,    \* IdempotentKnock.maxRetries
  MaxFlying,     \* bound: late requests at a time; another one is lost
  MaxLists,      \* bound: different lists enqueued for an event
  HasSigningKey,
  NoJob          \* no list, no job

ASSUME ClientAssumption ==
  /\ MaxRecipientsCount \in Nat \ {0} /\ MaxRetries \in Nat /\ MaxFlying \in Nat
  /\ \A e \in Events : \A l \in Lists[e] : l \in Seq(ToSet(l))
  /\ Apps \cap Workers = {}
  /\ HasSigningKey \in BOOLEAN

VARIABLES
  calls,      \* per app and worker its call of the client
  flying,     \* requests nobody waits for that may still reach the provider
  tokens,     \* the channel data of the user: {} also when there is none
  memory,     \* the idempotency keys it knows, with their bodies
  notified,   \* per event how often it notified each recipient
  landing,    \* jobs on their way to the queue
  queue,      \* jobs in the queue
  enqueued,   \* per event the list being enqueued and how that went
  expired,    \* events whose expiresAt is past
  lists,      \* history: per event the lists that were enqueued
  excused,    \* history: <<event, recipient>> whose job ended as expired, or was a dry run
  contended,  \* history: apps whose appending of a token overlaps another one
  appended    \* history: tokens whose appending contended no other and was answered with
              \* success

pushTokens == <<tokens, contended, appended>>
jobs == <<landing, queue, enqueued, lists>>
vars == <<calls, flying, memory, notified, expired, excused, pushTokens, jobs>>

Recipients(e) == UNION {ToSet(l) : l \in Lists[e]}
Callers == Apps \cup Workers
Idle == [at |-> "idle", request |-> NoJob, tries |-> 0, answer |-> "none"]

Init ==
  /\ calls = [c \in Callers |-> Idle]
  /\ flying = {} /\ memory = {}
  /\ tokens = OldTokens
  /\ notified = [e \in Events |-> [r \in Recipients(e) |-> 0]]
  /\ landing = {} /\ queue = {}
  /\ enqueued = [e \in Events |-> [list |-> NoJob, outcome |-> "none"]]
  /\ expired = {}
  /\ lists = [e \in Events |-> {}]
  /\ excused = {}
  /\ contended = {} /\ appended = {}

-----------------------------------------------------------------------------
(* Idempotency keys.  createDeterministicHash is taken to be injective.      *)

\* Mutant: the recipients are hashed in the order they came in.
UnsortedHash(params) == params

\* Mutant: the recipients are left out.
HashWithoutRecipients(params) == [params EXCEPT !.recipients = <<>>]

\* How often each is on a list, which is all that is left of it when it is sorted.
ToSorted(recipients) ==
  [r \in ToSet(recipients) |-> Cardinality({i \in DOMAIN recipients : recipients[i] = r})]

\* The recipients are sorted: lists of the same recipients have one hash.
TriggerIdempotencyKeyParamsToHash(params) ==
  [params EXCEPT !.recipients = ToSorted(params.recipients)]

\* Chunks are numbered from 1, and there is always one.
ChunkRecipients(l) ==
  LET size(n) == n * MaxRecipientsCount
      last == IF l = <<>> THEN 1 ELSE (Len(l) + MaxRecipientsCount - 1) \div MaxRecipientsCount
  IN  {[number |-> n, recipients |-> SubSeq(l, size(n - 1) + 1,
                                      IF size(n) < Len(l) THEN size(n) ELSE Len(l))] :
         n \in 1 .. last}

KeyParams(e, chunk) ==
  [event |-> e, chunk |-> chunk.number, recipients |-> chunk.recipients,
   workplaceId |-> "none"]

Job(e, chunk) == KeyParams(e, chunk)
UniqueKey(job) == TriggerIdempotencyKeyParamsToHash(job)

-----------------------------------------------------------------------------
(* enqueueOneOrMore. *)

\* All chunks are enqueued at once.
EnqueueOneOrMore(e, list) ==
  /\ enqueued[e].outcome # "waiting"
  /\ Cardinality(lists[e] \cup {list}) <= MaxLists
  /\ landing' = landing \cup {Job(e, chunk) : chunk \in ChunkRecipients(list)}
  /\ enqueued' = [enqueued EXCEPT ![e] = [list |-> list, outcome |-> "waiting"]]
  /\ lists' = [lists EXCEPT ![e] = @ \cup {list}]
  /\ UNCHANGED <<calls, flying, memory, notified, queue, expired, excused, pushTokens>>

\* Promise.all is done when every job is, or fails with the first that does.
Arrives(job, fails) ==
  LET e == job.event IN
  /\ job \in landing
  /\ landing' = landing \ {job}
  /\ enqueued' =
       [enqueued EXCEPT ![e].outcome =
          IF @ # "waiting" THEN @
          ELSE IF fails THEN "failed"
          ELSE IF \E j \in landing' : j.event = e THEN @ ELSE "ok"]
  /\ UNCHANGED <<calls, flying, memory, notified, lists, expired, excused, pushTokens>>

JobLands(job) ==
  /\ Arrives(job, FALSE)
  /\ queue' = IF \E j \in queue : UniqueKey(j) = UniqueKey(job) THEN queue ELSE queue \cup {job}

JobFailsToLand(job) == Arrives(job, TRUE) /\ UNCHANGED queue

-----------------------------------------------------------------------------
(* Calls of the client. *)

Answer(c, answer) == [calls EXCEPT ![c] = [@ EXCEPT !.at = "answered", !.answer = answer]]

\* Requests like one that is late already count as one with it.
Late(request) ==
  IF Cardinality(flying) < MaxFlying THEN flying \cup {request} ELSE flying

\* toTriggerBody: recipients keep their order.  A job carries no body: its handler makes it,
\* with template variables that it queries when it runs.
ToTriggerBody(job, data) ==
  [recipients |-> job.recipients, tenant |-> Workplace[job.event], data |-> data]

TriggerRequest(job, data) ==
  [op |-> "trigger", job |-> job, body |-> ToTriggerBody(job, data),
   key |-> TriggerIdempotencyKeyParamsToHash([job EXCEPT !.workplaceId = Workplace[job.event]])]

\* validateTriggerRequest; the key of a job can always be parsed.
ValidateTriggerRequest(job) ==
  IF Len(job.recipients) = 0 THEN "recipientCountBelowMinimum"
  ELSE IF Len(job.recipients) > MaxRecipientsCount THEN "recipientCountAboveMaximum"
  ELSE IF job.event \in expired THEN "expired"
  ELSE "ok"

\* A worker starts a job that no other runs.  A dry run is validated, and asks nothing of
\* the provider.
Trigger(w, job, data, dryRun) ==
  /\ calls[w].at = "idle" /\ job \in queue
  /\ \A v \in Workers : calls[v].at # "idle" => calls[v].request.job # job
  /\ LET verdict == ValidateTriggerRequest(job)
         answer == IF verdict # "ok" THEN verdict ELSE IF dryRun THEN "dryRun" ELSE "none"
     IN
     calls' = [calls EXCEPT ![w] =
                 [at |-> IF answer = "none" THEN "asking" ELSE "answered",
                  request |-> TriggerRequest(job, data), tries |-> 0, answer |-> answer]]
  /\ UNCHANGED <<flying, memory, notified, expired, excused, pushTokens, jobs>>

\* The handler ends the job unless the failure may pass; then the queue runs it again.
WorkerDone(w) ==
  /\ calls[w].at = "answered"
  /\ LET job == calls[w].request.job
         ends == calls[w].answer \notin {"rateLimited", "unknown"} IN
     /\ queue' = IF ends THEN queue \ {job} ELSE queue
     /\ excused' = IF calls[w].answer \in {"expired", "dryRun"}
                   THEN excused \cup ({job.event} \X ToSet(job.recipients)) ELSE excused
  /\ calls' = [calls EXCEPT ![w] = Idle]
  /\ UNCHANGED <<flying, memory, notified, landing, enqueued, lists, expired,
                 pushTokens>>

\* The worker dies, and what it asked for may still arrive; the queue runs the job again.
WorkerDies(w) ==
  /\ calls[w].at # "idle"
  /\ flying' = IF calls[w].at = "asking" THEN Late(calls[w].request) ELSE flying
  /\ calls' = [calls EXCEPT ![w] = Idle]
  /\ UNCHANGED <<memory, notified, expired, excused, pushTokens, jobs>>

\* The appending of a token that is under way, or that may still come to something.
IsAppending(c) == calls[c].at \in {"reading", "asking"} /\ calls[c].request.op = "append"

\* An app calls the client; verdict is how the call ends at once, or "none".
AppCalls(a, operation, at, verdict) ==
  /\ calls[a].at = "idle" /\ operation \in Operations[a]
  /\ calls' = [calls EXCEPT ![a] =
       [Idle EXCEPT !.at = at, !.request = [op |-> operation, data |-> {}], !.answer = verdict]]
  /\ UNCHANGED <<flying, memory, notified, tokens, appended, expired, excused, jobs>>

\* Those that are under way overlap this one, and so may one that is late.
AppendPushToken(a) ==
  /\ AppCalls(a, "append", "reading", "none")
  /\ LET others == {c \in Apps : IsAppending(c)} IN
     contended' = contended \cup others
       \cup IF others = {} /\ \A f \in flying : f.op # "append" THEN {} ELSE {a}

\* A dry run asks nothing of the provider.
Cancel(a, dryRun) ==
  /\ IF dryRun
     THEN AppCalls(a, "cancel", "answered", "ok")
     ELSE AppCalls(a, "cancel", "asking", "none")
  /\ UNCHANGED contended

UpsertWorkplace(a) == AppCalls(a, "workplace", "asking", "none") /\ UNCHANGED contended

UpsertUserPreferences(a) == AppCalls(a, "preferences", "asking", "none") /\ UNCHANGED contended

\* A token is signed with the key of the client, without the provider.
SignUserToken(a) ==
  /\ AppCalls(a, "sign", "answered", IF HasSigningKey THEN "ok" ELSE "missingSigningKey")
  /\ UNCHANGED contended

AppDone(a) ==
  /\ calls[a].at = "answered"
  /\ appended' = IF /\ calls[a].request.op = "append" /\ calls[a].answer = "ok"
                    /\ a \notin contended
                 THEN appended \cup {TokenOf[a]} ELSE appended
  /\ contended' = contended \ {a}
  /\ calls' = [calls EXCEPT ![a] = Idle]
  /\ UNCHANGED <<flying, memory, notified, tokens, expired, excused, jobs>>

-----------------------------------------------------------------------------
(* appendPushToken: the tokens are read and written back. *)

\* [...new Set([...existing, token])].
Write(a, existing) ==
  [calls EXCEPT ![a].at = "asking", ![a].tries = 0,
                ![a].request.data = existing \cup {TokenOf[a]}]

ReadAnswers(a) ==
  /\ calls[a].at = "reading"
  /\ calls' = Write(a, tokens)
  /\ UNCHANGED <<flying, memory, notified, pushTokens, expired, excused, jobs>>

\* Mutant: whatever goes wrong, there are no tokens.
AfterReadErrorStartsEmpty(a, status) == Write(a, {})

\* A 404 means there are no channel data; other errors end the call.
AfterReadError(a, status) ==
  IF status = "notFound" THEN Write(a, {}) ELSE Answer(a, status)

\* The provider answers 404 to one who has no channel data, and the SDK gives up on
\* what it cannot retry, or has retried.
ReadFails(a, status) ==
  /\ calls[a].at = "reading"
  /\ status = "notFound" => tokens = {}
  /\ calls' = IF status \in {"rateLimited", "unknown"} /\ calls[a].tries < MaxRetries
              THEN [calls EXCEPT ![a].tries = @ + 1]
              ELSE AfterReadError(a, status)
  /\ UNCHANGED <<flying, memory, notified, pushTokens, expired, excused, jobs>>

-----------------------------------------------------------------------------
(* The provider. *)

provider == <<tokens, memory, notified>>

Known(request) == {m \in memory : m.key = request.key}
Conflicts(request) ==
  request.op = "trigger" /\ \E m \in Known(request) : m.body # request.body

\* Of a workplace, preferences and a cancellation only the answer matters here.
Receive(request) ==
  CASE request.op = "append" -> tokens' = request.data /\ UNCHANGED <<memory, notified>>
    [] request.op = "trigger" /\ Known(request) = {} ->
         /\ memory' = memory \cup {[key |-> request.key, body |-> request.body]}
         /\ notified' =
              [notified EXCEPT ![request.job.event] =
                 [r \in DOMAIN @ |->
                    IF r \in ToSet(request.body.recipients) THEN @[r] + 1 ELSE @[r]]]
         /\ UNCHANGED tokens
    [] OTHER -> UNCHANGED provider

\* The SDK repeats a request that failed for a while, then the client reports the error.
AfterError(c, status) ==
  IF status \in {"rateLimited", "unknown"} /\ calls[c].tries < MaxRetries
  THEN [calls EXCEPT ![c].tries = @ + 1]
  ELSE Answer(c, status)

Accept(c) ==
  /\ calls[c].at = "asking" /\ ~Conflicts(calls[c].request)
  /\ Receive(calls[c].request)
  /\ calls' = Answer(c, "ok")
  /\ UNCHANGED <<flying, contended, appended, expired, excused, jobs>>

\* A 4xx, a 429 or a 5xx.  A trigger is well-formed: a 4xx says that its key is known
\* with another body.
Refuse(c, status) ==
  /\ calls[c].at = "asking"
  /\ calls[c].request.op = "trigger" =>
       (status = "clientError" <=> Conflicts(calls[c].request))
  /\ calls' = AfterError(c, status)
  /\ UNCHANGED <<flying, provider, contended, appended, expired, excused, jobs>>

\* The answer is lost.
Loses(c) ==
  /\ calls[c].at = "asking" /\ ~Conflicts(calls[c].request)
  /\ Receive(calls[c].request)
  /\ calls' = AfterError(c, "unknown")
  /\ UNCHANGED <<flying, contended, appended, expired, excused, jobs>>

\* The request is not answered in time; it may arrive later, or never.
TimesOut(c) ==
  /\ calls[c].at = "asking"
  /\ flying' = Late(calls[c].request)
  /\ calls' = AfterError(c, "unknown")
  /\ UNCHANGED <<provider, contended, appended, expired, excused, jobs>>

ArrivesLate(request) ==
  /\ request \in flying
  /\ flying' = flying \ {request}
  /\ \/ ~Conflicts(request) /\ Receive(request)
     \/ UNCHANGED provider
  /\ UNCHANGED <<calls, contended, appended, expired, excused, jobs>>

Expire(e) ==
  /\ e \notin expired
  /\ expired' = expired \cup {e}
  /\ UNCHANGED <<calls, flying, memory, notified, excused, pushTokens, jobs>>

-----------------------------------------------------------------------------
Statuses == {"clientError", "rateLimited", "unknown"}

Next ==
  \/ \E e \in Events : Expire(e) \/ \E list \in Lists[e] : EnqueueOneOrMore(e, list)
  \/ \E job \in landing : JobLands(job) \/ JobFailsToLand(job)
  \/ \E w \in Workers :
       \/ WorkerDone(w) \/ WorkerDies(w)
       \/ \E job \in queue, data \in Variables, dryRun \in BOOLEAN : Trigger(w, job, data, dryRun)
  \/ \E a \in Apps : \/ AppendPushToken(a) \/ UpsertWorkplace(a)
                     \/ UpsertUserPreferences(a) \/ SignUserToken(a)
                     \/ \E dryRun \in BOOLEAN : Cancel(a, dryRun)
                     \/ AppDone(a)
                     \/ ReadAnswers(a)
                     \/ \E status \in Statuses \cup {"notFound"} : ReadFails(a, status)
  \/ \E c \in Callers : \/ Accept(c) \/ Loses(c) \/ TimesOut(c)
                        \/ \E status \in Statuses : Refuse(c, status)
  \/ \E request \in flying : ArrivesLate(request)

Spec == Init /\ [][Next]_vars

-----------------------------------------------------------------------------
TypeOK ==
  /\ \A c \in Callers : /\ calls[c].at \in {"idle", "reading", "asking", "answered"}
                        /\ calls[c].tries \in 0 .. MaxRetries
  /\ tokens \subseteq OldTokens \cup {TokenOf[a] : a \in Apps}
  /\ \A job \in landing \cup queue : job.event \in Events
  /\ expired \subseteq Events

\* Adding a push token never loses one from before, nor one that was added while no other
\* was, whatever is added beside it later (appendPushToken reads the tokens and writes them
\* back, so what a failed reading means to it decides over all of them).  Of tokens that are
\* added at a time one may be lost, as nothing makes the two calls of the provider one.
TokensSurvive == OldTokens \cup appended \subseteq tokens

\* Enqueueing an event again, after a failure, a crash or by mistake, notifies nobody
\* twice, even with the recipients in another order, as long as one chunk holds them:
\* the key is made of the sorted recipients of the chunk.  One list notifies twice only
\* those that it names twice, and not within a chunk.
ReenqueuedNotifiedOnce ==
  \A e \in Events : \A r \in DOMAIN notified[e] :
    notified[e][r] > 1 =>
      \E l, k \in lists[e] :
        \/ l # k /\ (Len(l) > MaxRecipientsCount \/ ToSorted(l) # ToSorted(k))
        \/ /\ l = k /\ Len(l) > MaxRecipientsCount
           /\ \E i, j \in DOMAIN l : i # j /\ l[i] = r /\ l[j] = r

\* Whoever was on a list that was enqueued is notified, unless the event expired or the
\* job was a dry run: what the queue or the provider takes for a duplicate never was the only
\* request.
NobodyMissed ==
  \A e \in Events : enqueued[e].outcome = "ok" =>
    \A r \in ToSet(enqueued[e].list) :
      \/ notified[e][r] > 0
      \/ <<e, r>> \in excused
      \/ \E job \in queue : job.event = e /\ r \in ToSet(job.recipients)
-----------------------------------------------------------------------------
\* What makes these inductive.

AllTokens == OldTokens \cup {TokenOf[a] : a \in Apps}

\* The jobs of the lists that were enqueued.
Enqueued ==
  UNION {{Job(e, chunk) : chunk \in UNION {ChunkRecipients(l) : l \in lists[e]}} : e \in Events}

TriggerRequests == {TriggerRequest(job, data) : job \in Enqueued, data \in Variables}
AppRequests ==
  [op : {"append", "cancel", "workplace", "preferences", "sign"}, data : SUBSET AllTokens]

Answers ==
  {"none", "ok", "expired", "recipientCountBelowMinimum", "recipientCountAboveMaximum",
   "clientError", "rateLimited", "unknown", "dryRun", "missingSigningKey"}

CallType(requests) ==
  [at : {"idle", "reading", "asking", "answered"}, request : requests,
   tries : 0 .. MaxRetries, answer : Answers]

\* A worker triggers jobs that were enqueued, an app asks for the rest.
CallsInv ==
  /\ calls \in [Callers -> CallType({NoJob} \cup TriggerRequests \cup AppRequests)]
  /\ \A w \in Workers : calls[w].at # "idle" =>
       calls[w].at # "reading" /\ calls[w].request \in TriggerRequests
  /\ \A a \in Apps : calls[a].at # "idle" => calls[a].request \in AppRequests
  /\ \A a \in Apps : calls[a].at = "reading" => calls[a].request.op = "append"
  /\ flying \subseteq TriggerRequests \cup AppRequests
  /\ tokens \subseteq AllTokens

\* The appending requests that may reach the provider yet, and the tokens whose appending
\* has succeeded.
Pending ==
  {f \in flying : f.op = "append"}
    \cup {calls[a].request : a \in {x \in Apps : calls[x].at = "asking" /\ IsAppending(x)}}
Added ==
  appended \cup {TokenOf[a] : a \in {x \in Apps \ contended : /\ calls[x].at = "answered"
                                                             /\ calls[x].request.op = "append"
                                                             /\ calls[x].answer = "ok"}}

\* What may be written yet keeps the old tokens and those that were added: beside an
\* appending that overlaps no other there is none, and what may be written comes from it.
TokensInv ==
  /\ \A data \in {tokens} \cup {f.data : f \in Pending} : OldTokens \cup Added \subseteq data
  /\ \A a \in Apps : calls[a].at = "asking" /\ IsAppending(a) => TokenOf[a] \in calls[a].request.data
  /\ \A a \in Apps \ contended : IsAppending(a) =>
       /\ \A b \in Apps : IsAppending(b) => b = a
       /\ \A f \in Pending : calls[a].at = "asking" /\ f = calls[a].request

\* What the provider remembers are keys of the jobs enqueued, each once, and it has
\* notified the recipients of a key once for it.
Tells(m, e, r) == m.key.event = e /\ r \in ToSet(m.body.recipients)
MemoryInv ==
  /\ \A m \in memory : \E request \in TriggerRequests :
       m.key = request.key /\ m.body = request.body
  /\ \A m, n \in memory : m.key = n.key => m = n
  /\ notified = [e \in Events |-> notified[e]]
  /\ \A e \in Events :
       /\ notified[e] \in [Recipients(e) -> Nat]
       /\ \A r \in Recipients(e) :
            /\ notified[e][r] > 0 <=> \E m \in memory : Tells(m, e, r)
            /\ notified[e][r] > 1 => \E m, n \in memory : Tells(m, e, r) /\ Tells(n, e, r) /\ m # n

\* Whom the worker tells was told already.
AnswersInv ==
  \A w \in Workers : calls[w].at = "answered" =>
    LET job == calls[w].request.job IN
    /\ calls[w].answer \in {"ok", "clientError"} =>
         \A r \in ToSet(job.recipients) : notified[job.event][r] > 0
    /\ calls[w].answer = "recipientCountBelowMinimum" => ToSet(job.recipients) = {}
    /\ calls[w].answer \notin {"none", "recipientCountAboveMaximum", "missingSigningKey"}

\* Whoever is on the list that is being enqueued, or was, is cared for.
CaredFor(e, r, jobsLeft) ==
  \/ notified[e][r] > 0
  \/ <<e, r>> \in excused
  \/ \E job \in jobsLeft : job.event = e /\ r \in ToSet(job.recipients)
JobsInv ==
  /\ lists \in [Events -> SUBSET UNION {Lists[e] : e \in Events}]
  /\ \A e \in Events : lists[e] \subseteq Lists[e]
  /\ landing \cup queue \subseteq Enqueued
  /\ enqueued \in [Events -> [list : {NoJob} \cup UNION {lists[e] : e \in Events},
                             outcome : {"none", "waiting", "ok", "failed"}]]
  /\ \A e \in Events :
       /\ enqueued[e].outcome \in {"waiting", "ok"} =>
            /\ enqueued[e].list \in lists[e]
            /\ \A r \in ToSet(enqueued[e].list) : CaredFor(e, r, queue \cup landing)
       /\ enqueued[e].outcome = "ok" => \A job \in landing : job.event # e

ClientInv == CallsInv /\ TokensInv /\ MemoryInv /\ AnswersInv /\ JobsInv
=============================================================================

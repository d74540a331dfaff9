----------------------- MODULE TriggerNotificationJob -----------------------
(***************************************************************************)
(* One notification job of packages/notifications, from its enqueueing to    *)
(* its end: TriggerNotificationJob.perform, which the README has services    *)
(* copy, NotificationClient.triggerChunked, the retry of the provider's SDK   *)
(* (IdempotentKnock), the job queue and the provider.                        *)
(*                                                                           *)
(* The queue and the provider are external.  The queue runs a job again      *)
(* after it throws, up to MaxAttempts times, and after its worker died.  The *)
(* provider notifies on the first request with an idempotency key, answers   *)
(* later ones with the same response while it remembers the key, and refuses *)
(* a known key with another body.  Requests and responses can be lost or     *)
(* late.  Recipients are named by their place in the request.                *)
(***************************************************************************)
EXTENDS Integers, FiniteSets

CONSTANTS
  MaxRecipients,    \* bound: recipients of a request
  ChunkSize,        \* MAXIMUM_RECIPIENTS_COUNT
  ExpiryTimes,      \* expiresAt of requests; the job is enqueued at time 0
  NotATime,         \* an expiresAt that is no date
  MaxAttempts,      \* attempts the queue grants
  MaxRetries,       \* IdempotentKnock.maxRetries
  MaxDeaths,        \* bound: workers that die
  RememberFor,      \* how long the provider remembers an idempotency key
  RunTime,          \* the longest a run takes
  FlightTime,       \* the longest a request is under way
  MaxTime           \* bound: the clock stops here

Positions == 1 .. MaxRecipients

ASSUME SizesAssumption ==
  /\ MaxRecipients \in Nat
  /\ ChunkSize \in Nat \ {0}
  /\ MaxAttempts \in Nat \ {0}
  /\ MaxRetries \in Nat
  /\ MaxDeaths \in Nat
ASSUME TimesAssumption ==
  /\ ExpiryTimes \subseteq Nat
  /\ NotATime \notin Nat
  /\ RememberFor \in Nat
  /\ RunTime \in Nat
  /\ FlightTime \in Nat
  /\ MaxTime \in Nat

VARIABLES
  now,
  request,    \* the SerializableTriggerChunkedRequest stored in the job
  outcome,    \* "pending" while the queue has the job
  attempts,   \* attemptsCount: attempts that threw
  deaths,     \* workers that died
  pc,         \* where the current run is
  started,    \* when it began
  chunk,      \* the chunk it sends
  tries,      \* requests it has made for this chunk
  reply,      \* the provider's answer to the request it waits for
  flying,     \* requests nobody waits for that may still reach the provider;
              \* like ones made at the same time count as one
  sentAt,     \* when the request it waits for was made
  memory,     \* the idempotency keys the provider has seen
  notified,   \* how often each recipient has been notified
  lastAt,     \* history: when somebody was last notified
  conflict    \* history: a known key came with another body

vars == <<now, request, outcome, attempts, deaths, pc, started, chunk, tries,
          reply, flying, sentAt, memory, notified, lastAt, conflict>>

Request == [size : 0 .. MaxRecipients, expiresAt : ExpiryTimes \cup {NotATime},
            dryRun : BOOLEAN]

Outcomes == {"pending", "sent", "dryRun", "expired", "clientError", "exhausted"}
Replies == {"none", "ok", "clientError", "rateLimited", "unknown"}

-----------------------------------------------------------------------------
(* Chunks and their requests. *)

\* Mutant: a chunk begins with the last recipient of the chunk before it.
OverlappingBody(c) ==
  {i \in 1 .. request.size : (c - 1) * ChunkSize <= i /\ i <= c * ChunkSize}

\* The recipients of chunk c; chunkRecipients numbers the chunks from 1.
ChunkBody(c) ==
  {i \in 1 .. request.size : (c - 1) * ChunkSize < i /\ i <= c * ChunkSize}

IsLastChunk(c) == c * ChunkSize >= request.size

\* Mutant: every chunk is sent with the job's idempotency key.
JobKey(c) == 0

\* Mutant: every attempt makes up new keys.
AttemptKey(c) == attempts * (MaxRecipients + 1) + c

\* `${idempotencyKey}-${chunkNumber}`: the job's key is the same in every run.
ChunkKey(c) == c

Remembered(key) == {m \in memory : m.key = key /\ now - m.at < RememberFor}

\* The provider gets a request for chunk c.
Receive(c) ==
  LET body  == ChunkBody(c)
      known == Remembered(ChunkKey(c))
  IN  /\ memory' = IF known = {}
                   THEN memory \cup {[key |-> ChunkKey(c), body |-> body, at |-> now]}
                   ELSE memory
      /\ notified' = IF known = {}
                     THEN [i \in Positions |-> IF i \in body THEN notified[i] + 1
                                               ELSE notified[i]]
                     ELSE notified
      /\ lastAt' = IF known = {} THEN now ELSE lastAt
      /\ conflict' = (conflict \/ \E m \in known : m.body # body)

-----------------------------------------------------------------------------
Init ==
  /\ now = 0
  /\ request \in Request
  /\ outcome = "pending"
  /\ attempts = 0 /\ deaths = 0
  /\ pc = "idle" /\ started = 0
  /\ chunk = 1 /\ tries = 0 /\ reply = "none" /\ sentAt = 0
  /\ flying = {}
  /\ memory = {}
  /\ notified = [i \in Positions |-> 0]
  /\ lastAt = 0
  /\ conflict = FALSE

provider == <<memory, notified, lastAt, conflict>>

\* The queue hands the job to a worker.
StartRun ==
  /\ pc = "idle" /\ outcome = "pending"
  /\ pc' = "validate"
  /\ started' = now
  /\ UNCHANGED <<now, request, outcome, attempts, deaths, chunk, tries, reply,
                 flying, sentAt, provider>>

\* The run ends and with it the job: perform returns.
EndJob(result) ==
  /\ outcome' = result
  /\ pc' = "idle"

IsBroken == request.size = 0 \/ request.expiresAt = NotATime

\* Mutant: the expiry is only looked at in the first attempt.
FirstAttemptVerdict ==
  IF IsBroken THEN "clientError"
  ELSE IF attempts = 0 /\ now > request.expiresAt THEN "expired"
  ELSE IF request.dryRun THEN "dryRun" ELSE "send"

\* validateTriggerChunkedRequest, then the dry run.
Verdict ==
  IF IsBroken THEN "clientError"
  ELSE IF now > request.expiresAt THEN "expired"
  ELSE IF request.dryRun THEN "dryRun" ELSE "send"

Validate ==
  /\ pc = "validate"
  /\ \/ /\ Verdict = "send"
        /\ pc' = "send" /\ chunk' = 1 /\ tries' = 0
        /\ UNCHANGED outcome
     \/ /\ Verdict # "send"
        /\ EndJob(Verdict)
        /\ UNCHANGED <<chunk, tries>>
  /\ UNCHANGED <<now, request, attempts, deaths, started, reply, flying,
                 sentAt, provider>>

\* provider.workflows.trigger: the SDK makes a request.
Send ==
  /\ pc = "send"
  /\ pc' = "wait"
  /\ tries' = tries + 1
  /\ reply' = "none"
  /\ sentAt' = now
  /\ UNCHANGED <<now, request, outcome, attempts, deaths, started, chunk,
                 flying, provider>>

\* The provider takes the request; a known key with another body is refused.
ProviderTakes ==
  /\ pc = "wait" /\ reply = "none"
  /\ Receive(chunk)
  /\ reply' = IF \E m \in Remembered(ChunkKey(chunk)) : m.body # ChunkBody(chunk)
              THEN "clientError" ELSE "ok"
  /\ UNCHANGED <<now, request, outcome, attempts, deaths, pc, started, chunk,
                 tries, flying, sentAt>>

\* The provider refuses: 4xx, 429 or 5xx (toNotificationError).
ProviderRefuses ==
  /\ pc = "wait" /\ reply = "none"
  /\ reply' \in {"clientError", "rateLimited", "unknown"}
  /\ UNCHANGED <<now, request, outcome, attempts, deaths, pc, started, chunk,
                 tries, flying, sentAt, provider>>

\* No answer arrives in time: the request, or its answer, is lost or late.
TimeOut ==
  /\ pc = "wait" /\ reply \in {"none", "ok"}
  /\ reply' = "unknown"
  /\ flying' = IF reply = "none" THEN flying \cup {[chunk |-> chunk, at |-> sentAt]}
               ELSE flying
  /\ UNCHANGED <<now, request, outcome, attempts, deaths, pc, started, chunk,
                 tries, sentAt, provider>>

\* A request nobody waits for reaches the provider, or is lost.
LateArrival ==
  \E f \in flying :
    /\ flying' = flying \ {f}
    /\ Receive(f.chunk) \/ UNCHANGED provider
    /\ UNCHANGED <<now, request, outcome, attempts, deaths, pc, started, chunk,
                   tries, reply, sentAt>>

\* Mutant: a throwing job is not counted as an attempt.
ThrowUncounted ==
  /\ pc' = "idle"
  /\ UNCHANGED <<outcome, attempts>>

\* Mutant: the attempts are counted, but nothing is made of the count.
ThrowForever ==
  /\ pc' = "idle"
  /\ attempts' = attempts + 1
  /\ UNCHANGED outcome

\* perform throws: the queue runs the job again while it has attempts left.
Throw ==
  /\ pc' = "idle"
  /\ attempts' = attempts + 1
  /\ outcome' = IF attempts + 1 = MaxAttempts THEN "exhausted" ELSE outcome

ChunkSent ==
  /\ pc = "wait" /\ reply = "ok"
  /\ \/ /\ ~IsLastChunk(chunk)
        /\ pc' = "send" /\ chunk' = chunk + 1 /\ tries' = 0
        /\ UNCHANGED outcome
     \/ /\ IsLastChunk(chunk)
        /\ EndJob("sent")
        /\ UNCHANGED <<chunk, tries>>
  /\ UNCHANGED <<now, request, attempts, deaths, started, reply, flying,
                 sentAt, provider>>

\* Mutant: a failed chunk is logged and the loop goes on.
SkipFailedChunk ==
  /\ pc = "wait" /\ reply \in {"clientError", "rateLimited", "unknown"}
  /\ pc' = "send" /\ chunk' = chunk + 1 /\ tries' = 0
  /\ ~IsLastChunk(chunk)
  /\ UNCHANGED <<now, request, outcome, attempts, deaths, started, reply,
                 flying, sentAt, provider>>

\* The SDK repeats a failed request or hands the error on: a client error ends
\* the job for good, any other one makes perform throw.
ChunkFailed ==
  /\ pc = "wait" /\ reply \in {"clientError", "rateLimited", "unknown"}
  /\ \/ /\ tries <= MaxRetries
        /\ pc' = "send"
        /\ UNCHANGED <<outcome, attempts>>
     \/ /\ reply = "clientError"
        /\ EndJob("clientError")
        /\ UNCHANGED attempts
     \/ /\ reply # "clientError"
        /\ Throw
  /\ UNCHANGED <<now, request, deaths, started, chunk, tries, reply, flying,
                 sentAt, provider>>

\* A worker dies in the middle of a run; the queue has the job run again.
Die ==
  /\ pc # "idle"
  /\ deaths < MaxDeaths
  /\ deaths' = deaths + 1
  /\ pc' = "idle"
  /\ flying' = IF pc = "wait" /\ reply = "none"
               THEN flying \cup {[chunk |-> chunk, at |-> sentAt]} ELSE flying
  /\ UNCHANGED <<now, request, outcome, attempts, started, chunk, tries, reply,
                 sentAt, provider>>

\* Runs and requests do not last for ever.  The next chunk is sent as soon as
\* the last one is answered; the SDK waits before it repeats a request.
Tick ==
  /\ now < MaxTime
  /\ pc = "send" => tries > 0
  /\ pc # "idle" => now < started + RunTime
  /\ pc = "wait" /\ reply = "none" => now < sentAt + FlightTime
  /\ \A f \in flying : now < f.at + FlightTime
  /\ now' = now + 1
  /\ UNCHANGED <<request, outcome, attempts, deaths, pc, started, chunk, tries,
                 reply, flying, sentAt, provider>>

RunStep ==
  \/ StartRun \/ Validate \/ Send \/ TimeOut \/ ChunkSent \/ ChunkFailed

Next ==
  \/ RunStep
  \/ ProviderTakes \/ ProviderRefuses \/ LateArrival
  \/ Die \/ Tick

Spec == Init /\ [][Next]_vars

\* The queue starts what it has, and a run goes on by itself: the SDK stops
\* waiting after 60 seconds.  Nothing is asked of the provider.
FairSpec == Spec /\ WF_vars(RunStep)

-----------------------------------------------------------------------------
(* Properties. *)

\* Every variable has its type.
TypeOK ==
  /\ now \in Nat
  /\ request \in Request
  /\ outcome \in Outcomes
  /\ attempts \in 0 .. MaxAttempts
  /\ deaths \in 0 .. MaxDeaths
  /\ pc \in {"idle", "validate", "send", "wait"}
  /\ started \in Nat
  /\ chunk \in Nat \ {0}
  /\ tries \in 0 .. MaxRetries + 1
  /\ reply \in Replies
  /\ sentAt \in Nat
  /\ flying \subseteq [chunk : Nat \ {0}, at : Nat]
  /\ memory \subseteq [key : Nat, body : SUBSET Positions, at : Nat]
  /\ notified \in [Positions -> Nat]
  /\ lastAt \in Nat
  /\ conflict \in BOOLEAN

\* "Idempotency keys prevent duplicate notifications": however often a job is
\* run, requests are repeated and late ones arrive, nobody is notified twice.
NotifiedOnce == \A i \in Positions : notified[i] <= 1

\* Storing the request in the job eliminates "idempotency key conflicts": the
\* provider never sees a key again with another body.
KeysNeverConflict == ~conflict

\* expiresAt is checked at the start of every run, so a notification is late by
\* a run and a request at most, whatever the backoff of the queue.
LatenessIsBounded ==
  request.expiresAt # NotATime =>
    lastAt <= request.expiresAt + RunTime + FlightTime

\* "Stale notifications prevention through expiresAt": no chunk is sent for the
\* first time in its run once the notification has expired.
NothingStale ==
  pc = "wait" /\ tries = 1 => sentAt <= request.expiresAt

Delivery == INSTANCE NotificationDelivery WITH size <- request.size

\* The job keeps the promise of NotificationDelivery.
KeepsPromise == Delivery!Spec

\* Every job is settled: sent, dropped with its reason, or out of attempts.
JobSettles == <>(outcome # "pending")

-----------------------------------------------------------------------------
(* Strengthenings of the invariants, for the proofs. *)

\* Retries and attempts stay within their limits because a run is only begun,
\* and a request only repeated, below them.
CountsInv ==
  /\ pc = "send" => tries <= MaxRetries
  /\ pc # "idle" => outcome = "pending"
  /\ outcome = "pending" => attempts < MaxAttempts

\* A run that sends began before the expiry; runs and requests end in time.
TimeInv ==
  /\ pc # "idle" => started <= now /\ now <= started + RunTime
  /\ pc \in {"send", "wait"} => ~IsBroken /\ started <= request.expiresAt
  /\ pc = "wait" => started <= sentAt /\ sentAt <= now
  /\ pc = "wait" /\ reply = "none" => now <= sentAt + FlightTime
  /\ \A f \in flying :
       /\ ~IsBroken /\ f.at <= request.expiresAt + RunTime
       /\ f.at <= now /\ now <= f.at + FlightTime

\* The provider remembers every chunk it got, and has notified its recipients.
MemoryInv ==
  /\ \A m \in memory : m.body = ChunkBody(m.key) /\ m.key >= 1
  /\ \A i \in Positions :
       notified[i] = IF \E m \in memory : i \in m.body THEN 1 ELSE 0

Known(c) == \E m \in memory : m.key = c

\* Chunks reach the provider in their order, since each is only sent when the one before it
\* was answered with success, in this run or an earlier one: what it knows is a prefix of
\* the chunks,
KnownPrefix == \A m \in memory : \A c \in 1 .. m.key : Known(c)

\* a chunk that is sent or under way is not behind its end and has recipients,
SentInOrder ==
  /\ pc \in {"send", "wait"} =>
       (chunk - 1) * ChunkSize < request.size /\ \A c \in 1 .. chunk - 1 : Known(c)
  /\ pc = "wait" /\ reply = "ok" => Known(chunk)
  /\ \A f \in flying :
       (f.chunk - 1) * ChunkSize < request.size /\ \A c \in 1 .. f.chunk - 1 : Known(c)

\* and whoever is in a chunk of the prefix has been notified, once.
NotifiedPrefix ==
  \A i \in Positions :
    notified[i] = IF i <= request.size /\ \E m \in memory : i <= m.key * ChunkSize
                  THEN 1 ELSE 0

PrefixInv == KnownPrefix /\ SentInOrder /\ NotifiedPrefix

RemembersLongEnough ==
  \A e \in ExpiryTimes : RememberFor > e + RunTime + FlightTime

=============================================================================

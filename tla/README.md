# A verification project for core-utils

`core-utils` is a monorepo of TypeScript libraries. Most of them are pure
functions and declarations; a few coordinate processes, retries, remote services
and the file system, and those are what this project is about. It holds TLA+
modules translated from the code, TLC runs that check them on small instances,
and proofs, checked by TLAPS, of what matters most for every value of the
constants. Line references are to the sources under `src/`.

## Inventory

| Component | State it keeps | Operations | What is hard | What makes it correct |
| --- | --- | --- | --- | --- |
| `playwright-toolkit`: admin token cache (`adminAuthToken.ts`) | a cache file and a lock file shared by processes | get or create, invalidate, refresh | interleaved file-system calls, crashes with the lock held, stale locks, late holders, tokens that expire or are rejected | one holder at a time; no duplicate mints; evicted tokens do not return; refreshes replace; answers were validated; calls end |
| `playwright-toolkit`: `retry.ts`, `deployedAssets.ts`, `mailpit.ts`, `setupRetry.ts` | attempt counters and deadlines of one call | retry with a budget, poll | timeouts racing answers, abandoned attempts, stability windows | attempts and time stay within their budgets; a window restarts on every failure; the newest message wins |
| `notifications`: chunked job (`notificationClient.ts`, `triggerNotification.job.ts`) | the stored request; the queue's attempts; the provider's idempotency keys | perform, triggerChunked | lost and late requests, two layers of retries, partial success, dying workers, expiry | nobody is notified twice; nothing is skipped; keys never conflict; jobs settle |
| `notifications`: other operations (`notificationClient.ts`, `notificationJobEnqueuer.ts`) | the provider's channel data and its idempotency keys; the queue's unique jobs | enqueueOneOrMore, trigger, cancel, appendPushToken, upsertWorkplace, upsertUserPreferences, signUserToken | read-modify-write of push tokens; jobs enqueued again in another order; retries of what arrived; late requests | tokens survive the adding of others; nobody on a list is missed; nobody is notified twice by jobs that meet |
| `clearance`: launcher (`launcher.ts`) | pidfile, port, daemons | start, stop, restart, status | commands racing each other and the daemons they spawn, crashes, timeouts | the pidfile names the daemon; restarts replace it; one daemon remains |
| `clearance`: proxy (`index.ts`, `hostRule.ts`, `allowlist.ts`) | settings, tunnels, an agent's sockets, a DNS cache | CONNECT, HTTP requests, authorize, resolveHost | events after an `await`, half-closed sockets, lookups answered out of order, timers of both sockets | targets are permitted; an address is not older than its TTL; a client gets one answer; tunnels end at both ends |
| `playwright-reporter-llm` | network groups, instances and bodies; console messages; actions; lifecycle records; results per test; the report's file | read a trace, admit a request, finalize, encode and join lifecycles, onBegin, onTestEnd, onError, onEnd | damaged archives, limits at every stage, eviction, greedy matching, retried tests, runs that die | limits cost the least telling first and never the bookkeeping; nothing is lost silently; every test is counted once, by its last attempt |
| `embedex` | a graph of files | embed, check | destinations that are sources of others, cycles, writes that fail half way | a check that succeeds means every copy is in step with its source |
| `playwright-toolkit`: redirect after a one-time code (`cognitoDiagnostics.ts`) | a monitor of the page's requests with a timer | fillOtpAndWaitForCognitoRedirect | answers, failures, the redirect and two timers in any order; secrets in texts | the report says what was observed first and holds no secret; listeners are removed |
| release script (`scripts/release.ts`) | tags, releases on GitHub, a run's list of failures | bump, push, create a release or update it | runs that overlap or are cancelled, answers that are lost, releases written by hand | a change is in one version; what a run calls released has its changelog |
| `execution-context` | AsyncLocalStorage | run in context, add metadata | nested contexts | metadata stays in its context |
| `config`, `rules-engine`, `util-ts`, `json-api`, `json-api-nestjs`, `phone-number`, `usa-states`, `contract-core` | none | pure functions, schemas | boundaries | agreement with a reference definition |
| `analytics`, `background-jobs-adapter`, `testing-core`, `nx-plugin`, linters and their configurations, `ai-rules`, `example-nestjs`, other scripts, `evals` | none of their own | wrappers, declarations, syntax-tree rules, scripts | - | - |

Interactions: services enqueue a notification job through the
`background-jobs-adapter`; the queue runs `TriggerNotificationJob.perform`, which
calls `NotificationClient`, which calls the provider through an SDK with retries
of its own. Playwright workers call the token cache, which runs an admin command
through `retry.ts`. Shells and agent wrappers call `clearance-ensure`, which
spawns the proxy, which resolves the host files the launcher checks. A test's
`NetworkBuilder`, `ActionBuilder` and lifecycle fixture feed the attempt that
`LlmReporter` keeps. The components share no other state with each other.

`PROJECT.json` lists every component with its status, and every hazard with the
properties that would catch it.

## Modules

| Module | What it is |
| --- | --- |
| `AdminAuthToken` | the token cache and its lock, one step per file-system call |
| `AdminAuthToken_proofs` | its theorems: the lock, what calls answer, and the probes that calls share |
| `NotificationDelivery` | what a notification job promises: the abstract specification |
| `TriggerNotificationJob` | a chunked job with its queue and its provider |
| `TriggerNotificationJob_proofs` | its theorems, the refinement of `NotificationDelivery` among them |
| `ClearanceLauncher` | the launcher's commands and their daemons |
| `Retry` | `runWithRetry`: any number of calls, in both modes |
| `SetupRetry` | how the failure of a request is judged: used by the two below |
| `DeployedAssets` | the wait for a graph of deployed assets, a poll whose attempts hold classified calls |
| `Mailpit` | the poll for a mail that holds a value |
| `CognitoRedirect` | the monitor of the redirect after a one-time code |
| `Readiness` | `Retry`, `DeployedAssets`, `Mailpit` and `CognitoRedirect` composed: what a Playwright test waits for |
| `Readiness_proofs` | theorems of `Retry` and of the waits: these are polls of `Retry`, and what each of them answers is true |
| `ClearanceConfig` | the proxy's settings, host rules and allowlists |
| `ClearanceProxy` | the proxy: connections, lookups, the cache, timers |
| `Clearance_proofs` | theorems of `ClearanceLauncher` and `ClearanceProxy` |
| `NotificationClient` | the other operations of the notification client, the enqueuer, the queue and the provider |
| `Release` | overlapping runs of the release script, git and GitHub |
| `Services_proofs` | theorems of `NotificationClient` and `Release` |
| `Lists` | loops over lists that the modules below share |
| `Lists_proofs` | what these loops give, and induction over turns and lists |
| `NetworkBuilder` | the requests of one attempt under limits |
| `ClientLifecycle` | what the browser observed, through a bounded attachment to the requests above |
| `TraceDiagnostics` | what else is read from damaged traces: console messages, the failing action, the timeline |
| `NetworkProcessing` | from an event of a trace to what `NetworkBuilder` is told |
| `LlmReporter` | the results of retried tests over runs that die, and the report |
| `Reporter_proofs` | theorems of `NetworkBuilder`, `ClientLifecycle`, `TraceDiagnostics` and `LlmReporter` |
| `Embedex` | a run of the command over chains of files that are edited |
| `Embedex_proofs` | its theorem |
| `MCAdminAuthToken`, `MCTriggerNotificationJob`, `MCClearanceLauncher`, `MCReadiness`, `MCClearanceProxy`, `MCServices`, `MCTools` | instances for TLC; in `MCServices` and `MCTools`, whose parts share nothing, a behaviour moves one part |

`NetworkProcessing` extends `TraceDiagnostics`, that `ClientLifecycle`, and that
`NetworkBuilder`, since each works on what the one before it keeps.

### AdminAuthToken

Each caller is an operating-system process with a request: get or create a token,
with or without validation, optionally with a credential that was rejected, or
invalidate one. `pc` follows `getOrCreateAdminAuthToken` (158-213),
`invalidateAdminAuthToken` (219-247), `runWithAdminAuthTokenLock` (760-808),
`tryAcquireLock`, `removeStaleLock`, `releaseLock` (810-870) and
`getOrCreateWithLock` (354-518). `cache` and `lock` are the two files. Every
`readFile`, `writeFile`, `rename` and `rm` is a step, because another process can
run between any two of them; the lock file is created and written in two
steps, so an empty one can be seen. Tokens are numbers in the order in which they are
minted, each with the policies that accept it and the time it lives. Minting,
validating and writing can fail; processes can die anywhere (`Crash`).

The time abstraction: `Tick` moves a clock that stays below `MaxTime`. Waiters give
up after `WaitTimeout`. `HoldersArePrompt` says that a holder finishes within
`lockStaleAfterMs`; the code bounds a probe by half of it but not the mint, so
both values are used.

### TriggerNotificationJob

A job is a request of up to `MaxRecipients` recipients. A run of
`TriggerNotificationJob.perform` validates the request (`Validate`, the checks in
the order of `validateTriggerChunkedRequest`, 685-729, then the dry run), sends its
chunks one after the other (`Send`, `ChunkSent`), and ends as the code says: a
client error or an expired request ends the job, anything else throws
(`ChunkFailed`, `Throw`). The SDK repeats a failed request up to `maxRetries` = 1
times. A chunk's key is the job's key and the chunk's number, so the model keeps
the number. The provider (external) notifies on the first request with a key and
remembers the key for `RememberFor` (24 hours, according to
`notificationJobEnqueuer.ts:57`). A request without an answer is put in `flying`,
from where it may still arrive or not (`LateArrival`). `Die` ends a run at any
point; the queue (external) starts another.

`KeepsPromise` is the refinement of `NotificationDelivery`: recipients are notified
in the order of the request, at most once each, and "sent" means all of them. The mapping
is `size <- request.size` and the identity otherwise; a `LateArrival` after the end
is a `Notify` of the abstract specification, which is why that action does not ask
for a pending job.

### ClearanceLauncher

Commands and daemons are processes; `pc` follows `ensureClearance` (151-198),
`stopClearance` (215-259), `statusClearance` (261-281) and `restartClearance`
(283-290), `proc` a daemon from its spawn over `LoadHosts` and `Bind` to its end.
`writeFileSync` is two steps (truncate, write), since a reader in between finds
garbage and takes it for no pid. `pollUntil` is a step that succeeds or one that
times out; with `Prompt`, timeouts only happen when waiting longer would not have
helped. The host files are a version, counted up by `EditHosts`, and whether
`resolveAllowlist` accepts them. `EADDRINUSE` ends the daemon that comes second;
SIGTERM has no handler, so it ends a daemon at any point.

### Retry, DeployedAssets, Mailpit, CognitoRedirect, Readiness

`Retry` is the engine, a state per call: `pc` says which promise of `runWithRetry`
(91-212) is awaited, that of the operation, the hook or the sleep. `Call` validates the
mode and calls the operation of the first attempt. `OperationSettles` is the
operation's answer, at any time: the race in `runWithinRetryBudget` (283-311) may be over
by then, and nobody listens. `AttemptExpires`, `HookExpires` and `SleepExpires` are the
timer of that race. `HookReturns` judges the failure (`getTerminalReason`) and
computes the delay; `SleepEnds` is the head of the loop. `live` holds the attempts whose
operations have not settled, `aborted` those whose signals are aborted: an abandoned
operation stays in `live` until it settles, if ever.

There are two clocks, since the code reads `Date.now` and Node's timers follow another
clock. Their milliseconds begin at different moments: `DateTick` and `LoopTick` take
turns, and what begins between them finds a timer early by the other clock's reading. A due timer
may fire up to `LateBy` later. `now` and `loop` do not go back; the code's
`Math.max(..., 0)` guards against a `Date.now` that does.

`DeployedAssets` adds the workers of `verifyDeployedAssets` (120-167) with the queue they
share, each check a classified call of `Retry` whose failures `ClassifySetupRetry` or the
check's own rules judge, and the stable window of `waitForDeployedAssets` (172-226), whose
operation is a whole verification. `Mailpit` adds the probe of `fetchMailpitValue`
(179-312): a search, then one candidate after the other, read or known from an earlier
probe, its value looked for in the text and then in the HTML. A mail is a sequence of
tokens; excluded values, malformed summaries and mails without a date are among them. In
both, requests may answer, fail for the moment, fail for good, or take for ever. `passed`,
`healthySince`, `searched` and `missed` are history that only properties read.

`CognitoRedirect` is `fillOtpAndWaitForCognitoRedirect`: the monitor's listeners for
requests, responses and failures, its timer, the body of a refused response that is read
while the redirect may still come, the race of `waitForURL`, and the report with what the
page shows, redacted, and a screenshot. The page (external) sends what it likes and is
answered at any time. A text is the set of the kinds of its fragments, which is enough to say that
no secret is left in a report. The late response to a challenge that an earlier call sent is
taken for this call's, and of a challenge sent after the monitor's timer the report says
"not observed"; `RedirectReportsAreTrue` speaks of what the monitor saw.

`Readiness` composes them: a test waits for one thing at a time, so the state of the others
rests. What was abandoned may still go on when the wait is over; the clock then stops, as
it does in a wait that has no timer.

### ClearanceConfig, ClearanceProxy

`ClearanceConfig` is `resolveClearanceConfig` with `normalizeHost`, the rules and the allowlist
files: what a written host becomes, which rule allows it, which settings are refused.
`ClearanceProxy` has, per connection, the request, how far its handler is (`idle`, `resolving`,
`refused`, `relaying`), when it asked, its target, both sockets (that of a plain request is
`connected` before its response makes it `open`), whether the body is still read
(`uploading`), whether the client's close is listened to (`watched`) and the status lines
written (`answers`); the cache and the clock are shared. `Ask` is a handler up to its first
`await` (`handleConnect`, 339, or `handleHttpRequest`, 416), `LookupAnswers` and `LookupFails`
what comes after it: a client that closed in between is not heard. Ends, errors, resets and idle
timers of both sockets are actions of their own and come in any order. The idle timer of a
tunnel's upstream runs from the start, that of a plain request (`setTimeout`, 480) only once its
socket is connected, so that `UpstreamIdles` does not end one that is queued or dialed. A URL
with port 0 is not one without a port (`NoPort`, 433). What Node does by itself
is external: half-closed sockets, pipes that end with their source, the agent's queue
(`Dequeue`), `clientError`, a response that breaks off (`ResponseBreaksOff`). `OneAnswer` names
the one exception it has: a body that does not parse adds its 400 to a response that is relayed.

### NotificationClient

`EnqueueOneOrMore` hashes each chunk's recipients, sorted, into the unique key of a job; all
jobs are enqueued at once and each may land or not, in any order. `Trigger` is a worker's
request with the key of `triggerIdempotencyKey.ts`, or a dry run (138), which is validated and
asks nothing; the worker may die, and the queue (external) runs a failed job again. The body is
made by the job's handler, which queries what is in it when it runs: each run may find other
data (`Variables`), under the same key. `AppendPushToken` reads the tokens, `ReadAnswers` or
`ReadFails` decides what is written back: a 404 means there are none, any other failure ends the
call. The other operations are one request each, or none (`signUserToken`, a dry run). The
provider (external) accepts, refuses, or does not answer, and a request that was given up may
still arrive. Provider and job handler are modelled from how the client uses them; all happens
within the 24 hours in which keys are remembered.

Two things hold only as far as the properties say, and no document promises more: of two tokens
that are appended at a time one can be lost though both calls succeed (460-471), since the
reading and the writing are two requests; `TokensSurvive` says that the loss goes no further,
neither to a token from before nor to one whose call overlapped no other (`contended`), whatever
is appended later. And an event that is enqueued again with more recipients than fit a chunk, in
another order, makes other chunks, so that some are notified twice. Nor does `enqueueOneOrMore`
look for a recipient that a list names twice: in two chunks there are two jobs for them, and
both are done. Within a request the provider is taken to notify everyone once.

### Release

A run of `scripts/release.ts` is at one place of its four phases. `BumpVersions` is nx on a
checkout of main (external: what changed since a project's last tag, and perhaps projects that
depend on it); `Push` succeeds only if main has not moved since, and then pushes the commit and
every tag; it may also succeed and be reported as failed. `Post`, `GetExisting` and
`PatchExisting` are the requests of `createGitHubRelease` (131-188) and `updateExistingRelease`
(99-129), each with the answers it may have and whether it took effect. The script goes through
the changelogs (`listed`, 285), not through the tags it pushed: a project that was bumped may
have none. A release that already exists, made by a lost earlier attempt or written by hand
(`ReleaseByHand`), is given the changelog. `.github/workflows/ci.yml:8` cancels a run when a
newer one begins (`CancelRun`).

What the script does not promise: a tag without a changelog gets no release. A tag whose release
failed, or whose run was cancelled after the push, stays without one, since the next run counts
from the tags; only the list of failures says so. A job that is run again on the commit it had
is not modelled.

### The reporter: NetworkProcessing, NetworkBuilder, ClientLifecycle, TraceDiagnostics, LlmReporter

`TraceDiagnostics.ParseTrace` reads an archive up to where it is damaged: console messages under
a limit whose eviction spares errors, the actions with their logs, and the time anchor, by which
the times of messages (and of nothing else) become those of the attempt.
`NetworkProcessing.BuildContext` and its neighbours make an observation of a snapshot of a
request: its shape, allow-listed headers, timings and duration, identifiers of its trace, and
bodies, any of which may be missing. `NetworkBuilder` admits the observation (`DropStaticAsset`,
`SuppressDuplicate`, `AdmitKnown`, `AdmitNew`), evicts a group or an instance of less worth when
a limit is reached, counts the references to bodies, and at last links redirects
(`AnnotateRedirects`) and asserts that all is accounted for (`Finalize`). `ClientLifecycle`
encodes the browser's records under limits of number and bytes, parses them, the older format
included, and joins each to the closest instance of its method, origin and path. `LlmReporter`
keeps an entry per test that the attempts of a retried test are merged into; the run may die,
also between writing the temporary file and renaming it, and another run follows. An attempt
that failed or ran out of time has an error, one that passed or was skipped has none, one that
was interrupted may have one (`MayErr`). The removal of the old report when a run begins is
taken to succeed.

`SignalSurvives` says what may be believed of the report of a damaged trace: as many warnings
and errors as fit are there, they are the first ones, in their order and with their types; if any
action that could be read failed, the failing action is one; and the timeline runs forward and
holds every retained request that has a time. `NetworkReportIsConsistent` has parts: `Accounted` (the code's own assertion), `NothingDangles`,
`WithinCaps`, `RedirectsGoForward` and `EachTellsOfItself` (what an instance tells is of one
request, the one it was made of). `LifecyclesAreTrue` has two: `NothingLostSilently` and
`JoinsAreStable`. `ReleasesAreTrue` of `Release` has `EachChangeIsReleasedOnce` and
`OutcomeIsTrue`.

### Embedex

A file is its pieces: texts, and tags with the texts they hold; a file's first line may name
destinations. `RunOf` builds the graph, finds cycles, sorts destinations after their sources and
embeds, as `embed.ts` and `dependencyGraph.ts` do. The recursion of `hasCycle` is a search that
makes one step at a time (`HasCycle`, on the path and what is done), the queue of
`topologicalSort` is taken off in turns (`TakeOff`). `Embed` checks or writes, `EmbedFails` writes
some of the files and stops; `Edit` changes a text where it is from or in a copy of it. Sources
are read at the same time and listed as they arrive: a run has one of `Orders`.

Four things are excluded by assumption, the first three since they are about text: a source that
is no markdown has no tags in it (nested tags are stripped for `md` and `mdx` only, so such a
source would make its destination grow with every run); the content holds no `$&` or `$$`
(`replaceAll` interprets them); no tag's text is within another's (139-157 of
`processDestinations.ts` replace one distinct text after the other, wherever it occurs, so that
a tag on one line without a prefix would also be replaced within the same tag with a prefix);
and nobody edits a file while a run reads and writes. The code enforces none of them:
`SuccessMeansInSync` and `SuccessIsInSync` say nothing of such files.

## Runs

| Run | Instance | What it shows |
| --- | --- | --- |
| `admin_prompt` | three callers, three tokens, no faults, holders prompt | the lock excludes, nobody mints while a usable token is cached, evicted tokens stay evicted, calls queued behind one probe share its verdict |
| `admin_faults` | two callers, one crash or failed write anywhere, locks stolen from late holders, `FairSpec` | refreshes replace, answers were validated, finished calls leave no lock, calls end |
| `admin_crash` (violation) | three callers, one of which dies with the lock | two waiters that judged the same stale lock: the second removes the first one's new lock, both mint |
| `notification_job` | up to five recipients in chunks of two, three attempts, one retry, one death, requests of every size, expiry and dry run, `FairSpec` | all properties of the job, refinement and settlement included |
| `stale_chunk` (violation) | the same without fairness | the second chunk is sent after `expiresAt` |
| `launcher_serial` | three commands of any kind, one after the other, two crashes, two edits | the pidfile, restarts and answers are right |
| `launcher_races` | two interleaved commands, one of which may be killed, a crash, a daemon started by hand, timeouts, `FairLauncherSpec` | one daemon remains, commands end |
| `launcher_restart` (violation) | three commands that may interleave | after two racing starts a lone restart leaves the old daemon in force |
| `readiness` | a poll of 1 or 2 ms and classified calls with and without hooks, modes that validation refuses, two assets with one or two workers, four mails, a redirect with three requests, `FairSpec` | attempts do not overlap, what is abandoned is aborted, polls end on time and every reason is true; a report of health is fresh and stable; the newest mail wins and the diagnostics add up; a failed redirect is reported as it happened |
| `proxy` | two connections, one of them also with forbidden and malformed requests, eight settings, `FairSpec` | targets are permitted, addresses fresh, a client gets one answer, tunnels end at both ends |
| `services` | three events, each enqueued with a list of two recipients and another one, two workers, two sets of data, dry runs, two apps with push tokens, one retry; two projects, two commits and two runs of the release script | tokens survive, a repeated job notifies once, nobody is missed; versions do not overlap and a release said to be made has its changelog |
| `tools` | five requests of an attempt under caps of two and three, two traces, two joins; two tests over two runs; four files in five layouts | limits cost the least telling first and never the bookkeeping; nothing is lost silently, joins are stable, signals survive; the report is true; a check that succeeds may be believed |

Deadlock is not checked: in every instance callers, jobs, commands, requests and edits are
finitely many, and the system stops when they are done.

**Bounds.** Three callers are needed for the stale-lock race (one that dies, two that judge);
two suffice for a steal, because the late holder and the thief are two. Three tokens allow a
refresh of a refresh. Five recipients in chunks of two give three chunks of which the last is
shorter; with three attempts and two requests each, a chunk can fail in an attempt in which an
earlier one succeeded, twice. `RememberFor` is one more than the largest expiry plus a run and a
flight in the instance, which is the least for which `NotifiedOnce` holds, so the bound is
tight. Three commands allow every sequence of start, stop and restart after an earlier one has
ended or failed; three pids are the most that three commands can spawn. In `readiness` the
timeouts are 1 to 3 ms, timers are at most one late (`LateBy` = 1), waits begin at 0
(`LastStart`) and the clocks end at 7 (`MaxTime`), which no poll reaches: the longest ends by 5
and a poll with a hook by 6; a redirect has a timeout of 1. A timeout of 3 with intervals of 1
lets a graph be healthy, fail, and be healthy again; two assets with one worker and with two
cover the queue. Of four mails two (`MaxMessages`) are read; one has no date and one is
malformed. Of a page's three requests two are sent (`MaxSent`). In `proxy` two connections are
the least for overlapping lookups and for a full agent; three moments (`MaxTime` = 2) with a TTL
of 1 let an entry be made, used and expire, and a lookup answer after its own TTL. The first
client only asks for what is permitted, which keeps the instance small and leaves every pair of
a refused and a permitted request. In `services` chunks hold two recipients
(`MaxRecipientsCount`); an event's two lists (`MaxLists`, the least for enqueueing again) are
one chunk and the same in another order, or two chunks of which the first is like it and the
second shares a recipient, or nobody; two sets of `Variables` make the body of a repeated
request another; one late request (`MaxFlying`) and one retry (`MaxRetries`) suffice for a
request that arrives after its repetition. A behaviour has notifications, requests of apps, or
releases, which share nothing. Two runs of the script are the least that overlap, two commits
(`MaxCommits`) let one be merged between them or while one is under way, and two attempts
(`MaxRetryCount`) let a release be made unseen by the first. In `tools` every cap is smaller
than what it caps: five requests (`MaxObserved`) for two groups, three instances and one body,
so that a group, an instance and a body are each evicted, also one after the other; `Threshold`
1 and `Stride` 2 let duplicates be suppressed and sampled; two records of ten bytes, two console
messages, three lines of log. A behaviour moves one tool, and each request of a trace is fed by
itself. Two attempts, two runs and one error outside of tests let a report be overtaken. Layouts
of `embedex` are a chain, a diamond, a cycle with a way in and a way out, one with a destination
that does not hold a tag of each of its sources and another that holds a tag of a file that is
no source of it, and a file that names itself beside a destination without tags; each text is
edited once (`MaxVersion`). Symmetry is used where callers, commands, workers or data are
interchangeable and no liveness is checked.

**Fairness.** `AdminAuthToken`: weak fairness of each live process' own steps and of the clock;
a process that runs gets the processor, and its file-system calls and its time-limited probes
return. Nothing is asked of one that died. `TriggerNotificationJob`: weak fairness of `RunStep`,
which is the queue starting a job it has and the worker's own steps; a request the provider
never answers is ended by the SDK's timeout of 60 seconds (`idempotentKnock.ts:12`), so nothing
is asked of the provider. `Readiness`: weak fairness of `RunOn`, the clocks, the timers and the
code that waits for nothing; no operation, hook, request or validator need ever answer.
`ClearanceLauncher`: weak fairness of each command and each daemon. Nobody has to issue
commands. `ClearanceProxy`: weak fairness of `TimersRun`, the idle timers of a socket whose
other side is gone, on which nothing passes any more, and of `DialEnds`, the end of a plain
request's attempt to connect, which no timer of the proxy ends but TCP's own timeout; no other
timer need fire, since traffic may reset it, and neither client, remote host nor DNS need
answer. A redirect has no liveness: the page is asked for its text without a timeout.

## Disagreements with the documentation

Three runs show that the code does something else than its documentation says;
`PROJECT.json` quotes the lines.

- `admin_crash`: the toolkit's README says that re-reading the cache under the lock
  prevents duplicate mints across processes. After a crash with the lock held it
  does not: `releaseLock` reads, compares and removes in separate steps.
- `stale_chunk`: `expiresAt` is to prevent stale notifications; it is compared with
  the clock once per run, before the loop over the chunks. `LatenessIsBounded` is what
  the code does guarantee.
- `launcher_restart`: `restart` is to stop the proxy and start a fresh one. When the
  pidfile names the loser of two racing starts, it does neither.

## Proofs

Assumptions on constants are named where the constants are declared
(`BoundsAssumption`, `TimesAssumption`, ...) and evaluated by TLC in every run. A
theorem that needs more states it as its own `ASSUME`.

**AdminAuthToken.** `TypeCorrect` and `NoOrphanLocks` hold without conditions. The lock excludes
only if nobody dies and holders are prompt (`Calm`): `LockExcludes` rests on an invariant that
says whose lock the lock file holds at each place in the acquisition and release, and that no
waiter is in the act of removing a lock that is not stale. On top of it, `NoDuplicateMints` and
`EvictionsLast` relate the cache to what the one holder has read. `RefreshesReplace` and
`AnswersAreValidated` need no exclusion at all: a refresh compares the entry it read with the
credential it is about, and an answer is validated, or was, in the steps of one caller. Their
invariants (`RefreshInv`, `ValidationInv`) speak of every entry a caller carries, and so hold
with crashes and stolen locks. `ProbesAreShared` (`OneProbePerToken`) needs `Calm` again and a
single policy, since the cache records one policy at a time: its `ProbeInv` says that what was
accepted is recorded with the cached entry, or that the holder is about to record or evict it.

**TriggerNotificationJob.** `TypeCorrect` rests on `CountsInv`: attempts and tries
stay below their limits because runs begin and requests are repeated only below
them. `LatenessBounded` rests on `TimeInv`: a run that sends began before the expiry,
and a request in flight left within a run of it. `NobodyTwice` and `NoKeyConflicts`
assume `RemembersLongEnough`, the provider's window outlasting the expiry plus a run
and a flight: then no key is forgotten while a request for it can still
arrive (`TimeInv`), and `MemoryInv` ties `notified` to the remembered keys. `PromiseKept` is the
refinement of `NotificationDelivery` under the same assumption. Its `PrefixInv` says that the
keys the provider knows are the first ones, without a gap, that a worker is at most one chunk
ahead of them, and that exactly the recipients up to the last of them are notified; then the
first arrival of a key is the abstract `Notify` of the next recipients, and every other step
settles the job or changes nothing the promise is about.

**ClearanceLauncher.** `TypeCorrect` is unconditional. `PidfileIsRight`,
`RestartsPickUpEdits` and `AnswersTrue` assume `OneOperator`: commands one after the
other, none of them killed, daemons that boot in time, none started by hand. The invariant
`LauncherInv` says that whatever runs listens and is named by the pidfile
(`Settled`), except while a command is between its spawn and its listener or
between its signal and the closed port, when it alone knows the daemon; and that a
restart past its stop meets no daemon older than itself. Crashes and edits may happen
at any time. `launcher_restart` shows that the assumption is needed.

**Retry.** All theorems are of `RetrySpec`, any set of calls in any modes, whatever their
operations and hooks do, and rest on one invariant, `RetryInv`. The properties are not
inductive: that attempts do not overlap depends on why nothing is in flight when a sleep begins,
so `AttemptsOf` says that only the last attempt can be in flight, and that after its race only
if it timed out; `FailuresOf` says that then the time is over but for the clocks' difference, so
that the judgement ends the call. `TimersOf` bounds each timer by the call's time and says that
it is not overdue, which gives `PollsOnTime`; `ClocksInv` keeps the clocks within a tick of each
other. `AbandonedAborted` and `TrueReasonsAlways` follow from the same parts.

**Readiness.** `ReadinessInvariant` is `RetryInv` together with an invariant per wait, for any
graph, mails and requests. `WaitsAreRetries` is a refinement: a behaviour of the composed waits
is one of `RetrySpec`, so that the theorems above hold of them. `SuccessStable`: `WindowInv` says
that the window is as old as the series of healthy verifications, and `QueueInv` that each asset
that was taken from the queue has a result or a worker. `MailAnswersExplained`: `ProbeInv`
(of `Mailpit`) says of a probe that is under way that the mails it passed over could not be used
and that those it will not read are not newer than those it will. `RedirectReportsTrue`:
`MonitorInv` relates what the monitor holds to what the page did, `AttemptIsTrue` what it says
of the challenge to the first that was observed, and `ReportInv` says that no text in it holds a
secret.

**NotificationClient and Release.** `ClientInv` has a part each for the calls, the push tokens,
the provider's memory, the answers and the jobs. `TokensAreKept` rests on `TokensInv`: whatever may
be written yet holds the tokens to keep, and beside a call that overlaps no other nothing is on
its way; `NobodyNotifiedTwice` on `MemoryInv`,
that whoever was notified twice was so under two keys, and on the key of a job, which is that of
its recipients whatever their order; `NobodyIsMissed` on `JobsInv`, that each recipient
of a list was told, is excused, or has a job that is landing or queued. `ReleasesTrue` rests on
`ReleaseInv`: the versions a run bumped are the next ones unless main has moved, in which case
its push will fail, and what it has said of its releases so far is so.

**ClearanceProxy.** For any connections, settings, requests and answers of lookups.
`PermittedTargets` and `AddressesAreFresh` rest on one invariant: what the cache holds was
filtered under the settings and carries the time it was asked for (`CacheIsRight`), and a
handler that resolves has a request that was authorized before (`Resolves`). The expiry is
counted from the question and not from the answer, which is what makes an entry right however
late its lookup is. `AnsweredOnce` adds that whoever still listens has had no answer but that of
an upstream that was opened (`Answered`).

**NetworkBuilder.** For any requests and limits. `BuilderInv` says that the groups are those of
the instances (`Housed`), that occurrences and counters add up, that numbers are below the
number observed, and that the instances are within their limit. Every admission is a chain of
removals and an insertion; a lemma per operator carries the parts through it. `AlwaysAccounted`
is then that `finalize` does not throw, which would cost the network of the whole attempt;
`EvictionKeepsTheWorst` is that what goes is worth less than what comes and no more than what
stays, for which the invariant is needed too: that a group that goes makes room follows from
`Housed`. `NetworkIsConsistent` adds `ContentInv`: instances tell of requests that were offered,
their numbers differ, and every body they refer to is there and counts them. Evictions are a
function that recurs over the instances that go; the lemmas about it, like those about the
chains of redirects, are by the least number for which they would fail.

**LlmReporter.** `ReportsAreTrue` rests on `ReporterInv`, for any finite set of tests and any
runs: `EntriesInv` says of the entry of a test that it is made of all attempts the run has
heard of, `FileInv` that the temporary file and the report are of this run or not there, wherever
the process may die.

**ClientLifecycle.** `LifecyclesTrue`, for any lists of attachments that `LifecycleAssumption`
describes: well or badly encoded, of either version, from other writers. The state hardly
matters here (`LifecycleInv` says that what is attached has been joined to the network as it is);
what matters is what the loops compute. They are written as recursive functions, and each is
shown to exist and to stay in its type (`LoopExists`, `LoopStays`) before anything is said of it
by induction on its turns (`UpTo`). `EncodesWell` says what the encoder includes: within both
limits, and whatever record it leaves out did not fit with those of its rank and the ranks above.
`EncodedIsRead` says that the parser takes all of that and marks whatever is missing, `Tells` that
the mark survives the limit of all attachments together. `JoinStable` says that one more record
is joined as well as can be and that those before it stay so; it needs `IsCloser` to be a strict
order, which `CloserIsStrict` derives from the numbers of instances.

**TraceDiagnostics.** `AttemptSignalSurvives`, for any number of traces damaged in any way, any
limits and any requests. `TraceInv` compares what is kept with what could be read of the traces so
far (`ReadOf`): the signal messages that are kept are the first ones (`KeepsFirst`), the records
of actions are typed, and one of them has failed if an event said so (`TakenFrom`). The reading
itself is `ReadableRead`: going through the entries one after the other and then through their
lines gives what is readable of the archive. `RetainedOne` says what one message does to those
that are kept, whichever is evicted for it, `AdmittedOne` what one event does to the records: a
later `after` of the same call never takes back an error. `SortedWhat` says of the timeline that
sorting loses and adds nothing, `TimelineWhat` that the retained requests are in it; for that the
instances must be told apart by their order, which the invariants of `NetworkBuilder` give
(`InstancesOrdered`), so that the theorem rests on those too.

**Embedex.** `SuccessIsInSync`, for any files and layouts that `EmbedexAssumption` describes, any
order in which the sources arrive, runs that fail half way and edits anywhere. The state is
simple: `EmbedexInv` says beside the property that markers and files keep their types and that
only markdown nests tags (`SoundFiles`). The work is in what one run computes.
  - The search for a cycle keeps `SearchInv`: each node of its path depends on the one before it,
    what is done depends only on what is done, and in any set of it there is one that depends on
    none of the set, so that no cycle lies within (`Grounded`). A
    step of a search that is not over enters or leaves a node, which `Progress` counts, so that
    the turns the model gives it are enough (`IsOver`). Hence a cycle that is reported is one, and
    when none is reported there is none.
  - Without a cycle, the queue of the sort never runs dry before every destination was in it: by
    `QueueInv` it holds exactly those whose dependencies were taken off, each once and behind what
    it depends on (`NoneBehind`); if some were not taken off, one of them depends on none of the
    rest (`Grounded`) and so is in the queue.
  - Going through a list that is sorted so, `RunInv` says of the destinations so far that, if all
    went well, their tags hold what their sources hold by now; a later destination is no source of
    an earlier one, so that nothing falls out of step again. And if the files were in step to
    begin with, nothing changes, which is why a check that fails has found something.

**Induction.** The provers cannot instantiate the library's induction over an operator, but they
can apply the well-foundedness of the natural numbers to a set. A loop that is a recursive
function is therefore within reach: `UpTo` is induction over its turns, `ListInduction` over the
lists it goes through. `Among` in `Lists` is such a function in place of `SelectSeq`,
which the prover cannot expand, and so is every loop of `TraceDiagnostics` and `Embedex`. What
several proofs need of them is in `Lists_proofs`.

Assumptions that proofs need and runs evaluate: `ReporterAssumption` asks for finitely many tests;
`ClientAssumption` that apps and workers are different processes; `LifecycleAssumption` gives the types of a record's fields;
`TraceAssumption` those of an event's, that limits are numbers, and that a compacted log has room for its ends;
`EmbedexAssumption` asks for finitely many files made of pieces, and that a source that holds tags is
markdown, as said above.

**TLC alone.** Liveness (`EveryCallEnds`, `JobSettles`, `CommandsEnd`, `OneDaemonRemains`,
`PollsEnd`, `TunnelsEnd`) is out of the prover's reach. What `NetworkProcessing` makes of a request is
checked where it is used (`tools`), and is not the subject of a theorem.

## Not modelled, and what is left

Left out of the modelled components: the names and formats of files and messages, logging and
tracing, the contents of host files and of notification bodies, the wording of reports and
errors. Pids are not reused in `ClearanceLauncher`; nothing in the code guards against it. Clock
skew between processes is not modelled, nor is a `Date.now` that is set while a poll waits. Of
the proxy, hop-by-hop headers and the wrapper that starts programs behind it; of deployed
assets, the cache-busting of URLs and the list of attempts; of mails, the client's
configuration; of the redirect, a page that renders again between redaction and screenshot; of
the reporter, texts and their limits, screenshots and steps.

Not modelled at all: `config`, `rules-engine`, `util-ts`, `json-api`, `phone-number`,
`usa-states` and the helpers of the toolkit are pure functions that their tests enumerate;
`contract-core`, `analytics`, `background-jobs-adapter` and the linters' configurations are
declarations or thin wrappers; the linters' rules are pattern matching over syntax trees, whose
whole difficulty is the trees; `execution-context` hands its state to the runtime's
`AsyncLocalStorage`; the other scripts, rule texts and the example application have no logic of
their own.

Seen while modelling, and not made a property: `retry.ts:63` says that `cause` retains the last
operation error. After an attempt that timed out it is the internal `PollAttemptTimeoutError`,
also when earlier attempts had failed with errors of their own; `fetchMailpitValue` (289-306)
puts another error in its place.

--------------------------- MODULE AdminAuthToken ---------------------------
(***************************************************************************)
(* The admin token cache of playwright-toolkit (src/lib/adminAuthToken.ts). *)
(* Test workers, shards and local processes share one directory holding a   *)
(* cache file and a lock file.  A caller of this module is ONE call of       *)
(* getOrCreateAdminAuthToken, generateAdminAuthToken or                      *)
(* invalidateAdminAuthToken; a process that makes several calls is several   *)
(* callers.  Every read, create, rename and removal of a shared file is a    *)
(* step of its own, because other processes run between them.                *)
(*                                                                           *)
(* The cache file is replaced by rename, so a reader sees a whole entry or   *)
(* none.  The lock file is created with flag "wx" and written afterwards, so *)
(* a reader may see it empty.  ownerId is a fresh UUID per acquisition and a *)
(* call acquires at most once, so the caller itself stands for its ownerId.  *)
(***************************************************************************)
EXTENDS Integers, FiniteSets

CONSTANTS
  Callers,          \* the calls
  NoCaller,         \* no owner: the lock file does not exist
  Policies,         \* validationPolicy fingerprints in use
  NoPolicy,         \* a call without validateToken, an entry nobody probed
  Requests,         \* what the calls of this model may ask for
  StaleAfter,       \* lockStaleAfterMs
  WaitTimeout,      \* lockWaitTimeoutMs
  CacheDuration,    \* cacheDurationMs
  TokenLifetimes,   \* usable lifetimes (exp minus safety skew) of new tokens
  HoldersArePrompt, \* TRUE: a live holder is done before its lock is stale
  MaxFaults,        \* bound: processes that die, cache writes that fail
  MaxTokens,        \* bound: tokens the provider issues
  LastStart,        \* bound: no call begins after this time
  MaxTime           \* bound: the clock stops here

Kinds == {"get", "refresh", "reject", "invalidate"}

Request == [kind : Kinds, policy : Policies \cup {NoPolicy}]

ASSUME CallersAssumption == NoCaller \notin Callers
ASSUME PoliciesAssumption == NoPolicy \notin Policies
ASSUME RequestsAssumption == Requests \subseteq Request
ASSUME TimesAssumption ==
  /\ StaleAfter \in Nat
  /\ WaitTimeout \in Nat
  /\ CacheDuration \in Nat
  /\ TokenLifetimes \subseteq Nat
  /\ HoldersArePrompt \in BOOLEAN
ASSUME BoundsAssumption ==
  /\ MaxFaults \in Nat
  /\ MaxTokens \in Nat
  /\ LastStart \in Nat
  /\ MaxTime \in Nat

VARIABLES
  lockFile,     \* the lock file: its owner, whether its content is there, its age
  cacheFile,    \* the cache file
  now,          \* Date.now and performance.now
  issued,       \* the provider's tokens are 1 .. issued, in minting order
  faults,       \* processes that died and cache writes that failed
  request,      \* what each call asks for
  pc,           \* where each call is
  since,        \* when it began to wait; once it holds the lock, when it took it
  target,       \* forceRefreshTargetCredentialFingerprint; 0 is undefined
  seen,         \* the lock a waiter read and judges, while it judges it
  entry,        \* the entry in hand: read from the cache, or newly minted
  answer,       \* the token the call returns; 0 is none
  evicted,      \* history: tokens a call removed from the cache file
  acceptances   \* history: accepting probes of each token under each policy

vars == <<lockFile, cacheFile, now, issued, faults, request, pc, since,
          target, seen, entry, answer, evicted, acceptances>>

Tokens == 1 .. MaxTokens

Entry == [token : 0 .. MaxTokens, expiresAt : Nat,
          policy : Policies \cup {NoPolicy}]
NoEntry == [token |-> 0, expiresAt |-> 0, policy |-> NoPolicy]

Lock == [owner : Callers \cup {NoCaller}, written : BOOLEAN, at : Nat]
NoLock == [owner |-> NoCaller, written |-> FALSE, at |-> 0]

WaiterAt == {"acquire", "staleRead", "staleStat", "removeUnreadable",
             "staleCheck", "removeStale"}
OperationAt == {"readCache", "probeCached", "serve", "evict", "mint",
                "probeNew", "store"}
HolderAt == {"writeLock", "release", "removeOwn"} \cup OperationAt
Places == {"idle", "ended", "crashed"} \cup WaiterAt \cup HolderAt

-----------------------------------------------------------------------------
(* What a call reads, and what it decides from it. *)

\* The entry readCachedEntry returns: none when the file is missing or expired.
CachedEntry == IF cacheFile.token # 0 /\ now < cacheFile.expiresAt
               THEN cacheFile
               ELSE NoEntry

IsForceRefresh(p) == request[p].kind \in {"refresh", "reject"}

\* Mutant: a cached entry is taken as it is, whoever asks.
NeverRevalidates(p, e) == FALSE

NeedsValidation(p, e) ==
  request[p].policy # NoPolicy /\ e.policy # request[p].policy

\* Mutant: a refresh that trusts whatever the cache holds by now.
RefreshesNothing(p, e) == IsForceRefresh(p) /\ e.token = 0

\* The entry is the very credential the call wants replaced, or both are none.
RefreshesCurrent(p, e) == IsForceRefresh(p) /\ e.token = target[p]

Exists(lock) == lock.owner # NoCaller

\* What readLock returns: undefined for a missing or still empty file.
ReadableLock == IF lockFile.written THEN lockFile ELSE NoLock

\* Mutant: the creation time is never looked at.
AnyAge(at) == TRUE

IsStale(at) == now - at >= StaleAfter

Min2(a, b) == IF a <= b THEN a ELSE b

Goto(p, place) == pc' = [pc EXCEPT ![p] = place]

Return(p, token) == answer' = [answer EXCEPT ![p] = token]

-----------------------------------------------------------------------------
InitialEntries ==
  {NoEntry} \cup [token : {1}, expiresAt : {CacheDuration},
                  policy : Policies \cup {NoPolicy}]

Init ==
  /\ lockFile = NoLock
  /\ cacheFile \in {e \in InitialEntries : e.token <= MaxTokens}
  /\ now = 0
  /\ issued = cacheFile.token
  /\ faults = 0
  /\ request \in [Callers -> Requests]
  /\ pc = [p \in Callers |-> "idle"]
  /\ since = [p \in Callers |-> 0]
  /\ target = [p \in Callers |-> 0]
  /\ seen = [p \in Callers |-> NoLock]
  /\ entry = [p \in Callers |-> NoEntry]
  /\ answer = [p \in Callers |-> 0]
  /\ evicted = {}
  /\ acceptances = [t \in Tokens |-> [v \in Policies |->
                      IF t = cacheFile.token /\ v = cacheFile.policy
                      THEN 1 ELSE 0]]

-----------------------------------------------------------------------------
(* Before the lock: getOrCreateAdminAuthToken, invalidateAdminAuthToken. *)

\* The lock-free fast path: a usable entry that needs no probe is the answer.
HitWithoutLock(p) ==
  /\ pc[p] = "idle" /\ now <= LastStart
  /\ request[p].kind = "get"
  /\ CachedEntry # NoEntry
  /\ ~NeedsValidation(p, CachedEntry)
  /\ Return(p, CachedEntry.token)
  /\ Goto(p, "ended")
  /\ UNCHANGED <<lockFile, cacheFile, now, issued, faults, request, since,
                 target, seen, entry, evicted, acceptances>>

\* Mutant: a refresh may also be about a token that does not exist yet.
RefreshTargetsOffByOne(p) ==
  CASE request[p].kind = "reject"  -> 1 .. issued + 1
    [] request[p].kind = "refresh" -> {CachedEntry.token}
    [] OTHER                       -> {0}

\* The credential a forced refresh is about is fixed before the call waits:
\* the one the caller reports, or the one it finds in the cache.
RefreshTargets(p) ==
  CASE request[p].kind = "reject"  -> 1 .. issued
    [] request[p].kind = "refresh" -> {CachedEntry.token}
    [] OTHER                       -> {0}

BeginWaiting(p) ==
  /\ pc[p] = "idle" /\ now <= LastStart
  /\ request[p].kind = "get" =>
       CachedEntry = NoEntry \/ NeedsValidation(p, CachedEntry)
  /\ \E t \in RefreshTargets(p) : target' = [target EXCEPT ![p] = t]
  /\ since' = [since EXCEPT ![p] = now]
  /\ Goto(p, "acquire")
  /\ UNCHANGED <<lockFile, cacheFile, now, issued, faults, request, seen,
                 entry, answer, evicted, acceptances>>

-----------------------------------------------------------------------------
(* Waiting for the lock: runWithAdminAuthTokenLock, tryAcquireLock,          *)
(* removeStaleLock, releaseLock.                                             *)

MayStillWait(p) == now - since[p] < WaitTimeout

\* Mutant: the lock file is opened without the exclusive flag.
OverwriteLockFile(p) ==
  /\ pc[p] = "acquire" /\ MayStillWait(p)
  /\ lockFile' = [owner |-> p, written |-> FALSE, at |-> now]
  /\ since' = [since EXCEPT ![p] = now]
  /\ Goto(p, "writeLock")
  /\ UNCHANGED <<cacheFile, now, issued, faults, request, target, seen,
                 entry, answer, evicted, acceptances>>

CreateLockFile(p) ==
  /\ pc[p] = "acquire" /\ MayStillWait(p)
  /\ ~Exists(lockFile)
  /\ lockFile' = [owner |-> p, written |-> FALSE, at |-> now]
  /\ since' = [since EXCEPT ![p] = now]
  /\ Goto(p, "writeLock")
  /\ UNCHANGED <<cacheFile, now, issued, faults, request, target, seen,
                 entry, answer, evicted, acceptances>>

\* The content goes to the file this call created, even if it was unlinked.
WriteLockFile(p) ==
  /\ pc[p] = "writeLock"
  /\ lockFile' = IF lockFile.owner = p
                 THEN [lockFile EXCEPT !.written = TRUE] ELSE lockFile
  /\ Goto(p, "readCache")
  /\ UNCHANGED <<cacheFile, now, issued, faults, request, since, target,
                 seen, entry, answer, evicted, acceptances>>

FindLockTaken(p) ==
  /\ pc[p] = "acquire" /\ MayStillWait(p)
  /\ Exists(lockFile)
  /\ Goto(p, "staleRead")
  /\ UNCHANGED <<lockFile, cacheFile, now, issued, faults, request, since,
                 target, seen, entry, answer, evicted, acceptances>>

\* Mutant: a call keeps waiting once its time is up.
NeverGiveUp(p) == FALSE /\ UNCHANGED vars

GiveUp(p) ==
  /\ pc[p] = "acquire" /\ ~MayStillWait(p)
  /\ Goto(p, "ended")
  /\ UNCHANGED <<lockFile, cacheFile, now, issued, faults, request, since,
                 target, seen, entry, answer, evicted, acceptances>>

ReadLockToJudgeAge(p) ==
  /\ pc[p] = "staleRead"
  /\ seen' = [seen EXCEPT ![p] = ReadableLock]
  /\ Goto(p, "staleStat")
  /\ UNCHANGED <<lockFile, cacheFile, now, issued, faults, request, since,
                 target, entry, answer, evicted, acceptances>>

\* createdAtMs of the lock that was read, else the mtime of the file that is
\* there now.
JudgedAge(p) == IF Exists(seen[p]) THEN seen[p].at ELSE lockFile.at

\* stat, then the age test.  A file that has gone (ENOENT) ends the attempt.
JudgeLockAge(p) ==
  /\ pc[p] = "staleStat"
  /\ Goto(p, IF ~Exists(lockFile) \/ ~IsStale(JudgedAge(p)) THEN "acquire"
             ELSE IF Exists(seen[p]) THEN "staleCheck"
             ELSE "removeUnreadable")
  /\ seen' = [seen EXCEPT ![p] =
       IF Exists(lockFile) /\ IsStale(JudgedAge(p)) THEN @ ELSE NoLock]
  /\ UNCHANGED <<lockFile, cacheFile, now, issued, faults, request, since,
                 target, entry, answer, evicted, acceptances>>

\* releaseLock reads again and goes on only if the stale owner is still there.
RecheckStaleOwner(p) ==
  /\ pc[p] = "staleCheck"
  /\ Goto(p, IF ReadableLock.owner = seen[p].owner THEN "removeStale"
             ELSE "acquire")
  /\ seen' = [seen EXCEPT ![p] = NoLock]
  /\ UNCHANGED <<lockFile, cacheFile, now, issued, faults, request, since,
                 target, entry, answer, evicted, acceptances>>

\* rm takes whatever lock file is there by now.
RemoveStaleLock(p) ==
  /\ pc[p] \in {"removeStale", "removeUnreadable"}
  /\ lockFile' = NoLock
  /\ Goto(p, "acquire")
  /\ UNCHANGED <<cacheFile, now, issued, faults, request, since, target,
                 seen, entry, answer, evicted, acceptances>>

-----------------------------------------------------------------------------
(* The operation under the lock: getOrCreateWithLock. *)

\* Mutant: the call does not look at the cache again once it has the lock.
WithoutRereading(p) ==
  IF request[p].kind = "get" THEN "mint" ELSE "evict"

\* What the lock holder does about the entry it has read.
AfterReading(p) ==
  IF request[p].kind = "invalidate" \/ RefreshesCurrent(p, CachedEntry)
  THEN "evict"
  ELSE IF CachedEntry = NoEntry THEN "mint"
  ELSE IF NeedsValidation(p, CachedEntry) THEN "probeCached" ELSE "serve"

ReadCache(p) ==
  /\ pc[p] = "readCache"
  /\ entry' = [entry EXCEPT ![p] = CachedEntry]
  /\ Goto(p, AfterReading(p))
  /\ UNCHANGED <<lockFile, cacheFile, now, issued, faults, request, since,
                 target, seen, answer, evicted, acceptances>>

\* validateToken accepts the credential in hand.
Accept(p) ==
  acceptances' = [acceptances EXCEPT ![entry[p].token][request[p].policy] = @ + 1]

\* validateToken's verdict on the cached entry; it may also throw or time out,
\* which ends the call and leaves the entry alone.
ProbeCached(p) ==
  /\ pc[p] = "probeCached"
  /\ \/ Accept(p) /\ Goto(p, "serve")
     \/ Goto(p, "evict") /\ UNCHANGED acceptances
     \/ Goto(p, "release") /\ UNCHANGED acceptances
  /\ UNCHANGED <<lockFile, cacheFile, now, issued, faults, request, since,
                 target, seen, entry, answer, evicted>>

\* Mutant: the verdict is not written back for the calls that follow.
ForgetVerdict(p) == cacheFile

\* persistCachedValidation: a fresh verdict is recorded with the entry in hand.
WithVerdict(p) ==
  IF NeedsValidation(p, entry[p])
  THEN [entry[p] EXCEPT !.policy = request[p].policy]
  ELSE cacheFile

\* An entry that expired while it was probed is not served.
ServeCached(p) ==
  /\ pc[p] = "serve"
  /\ \/ /\ now < entry[p].expiresAt
        /\ cacheFile' = WithVerdict(p)
        /\ Return(p, entry[p].token)
        /\ Goto(p, "release")
     \/ /\ now >= entry[p].expiresAt
        /\ Goto(p, "evict")
        /\ UNCHANGED <<cacheFile, answer>>
  /\ UNCHANGED <<lockFile, now, issued, faults, request, since, target,
                 seen, entry, evicted, acceptances>>

EvictCached(p) ==
  /\ pc[p] = "evict"
  /\ cacheFile' = NoEntry
  /\ evicted' = evicted \cup ({cacheFile.token} \ {0})
  /\ Goto(p, IF request[p].kind = "invalidate" THEN "release" ELSE "mint")
  /\ UNCHANGED <<lockFile, now, issued, faults, request, since, target,
                 seen, entry, answer, acceptances>>

\* createToken: a new token with some usable lifetime.
MintToken(p) ==
  /\ pc[p] = "mint"
  /\ issued < MaxTokens
  /\ issued' = issued + 1
  /\ \E life \in TokenLifetimes :
       entry' = [entry EXCEPT ![p] = [token |-> issued + 1,
                                      expiresAt |-> now + life,
                                      policy |-> request[p].policy]]
  /\ Goto(p, IF request[p].policy = NoPolicy THEN "store" ELSE "probeNew")
  /\ UNCHANGED <<lockFile, cacheFile, now, faults, request, since, target,
                 seen, answer, evicted, acceptances>>

\* createToken throws, or returns what is not a bearer token.
MintFails(p) ==
  /\ pc[p] = "mint"
  /\ Goto(p, "release")
  /\ UNCHANGED <<lockFile, cacheFile, now, issued, faults, request, since,
                 target, seen, entry, answer, evicted, acceptances>>

\* A new token that is rejected, or whose probe throws, is never cached.
ProbeNew(p) ==
  /\ pc[p] = "probeNew"
  /\ \/ Accept(p) /\ Goto(p, "store")
     \/ Goto(p, "release") /\ UNCHANGED acceptances
  /\ UNCHANGED <<lockFile, cacheFile, now, issued, faults, request, since,
                 target, seen, entry, answer, evicted>>

NewExpiry(p) == Min2(now + CacheDuration, entry[p].expiresAt)

\* A token that is as good as expired already fails the call.
StoreNew(p) ==
  /\ pc[p] = "store"
  /\ \/ /\ now < NewExpiry(p)
        /\ cacheFile' = [entry[p] EXCEPT !.expiresAt = NewExpiry(p)]
        /\ Return(p, entry[p].token)
     \/ /\ now >= NewExpiry(p)
        /\ UNCHANGED <<cacheFile, answer>>
  /\ Goto(p, "release")
  /\ UNCHANGED <<lockFile, now, issued, faults, request, since, target,
                 seen, entry, evicted, acceptances>>

\* writeCachedEntry throws (full disk, lost mount): the rename never happens.
CacheWriteFails(p) ==
  /\ \/ pc[p] = "serve" /\ NeedsValidation(p, entry[p])
     \/ pc[p] = "store"
  /\ faults < MaxFaults
  /\ faults' = faults + 1
  /\ Goto(p, "release")
  /\ UNCHANGED <<lockFile, cacheFile, now, issued, request, since, target,
                 seen, entry, answer, evicted, acceptances>>

-----------------------------------------------------------------------------
(* After the operation, whether it returned or threw: releaseLock. *)

\* Mutant: the lock is released only by a call that has an answer.
ReleaseOnlyWithAnswer(p) ==
  IF ReadableLock.owner = p /\ answer[p] # 0 THEN "removeOwn" ELSE "ended"

\* A lock that is no longer this call's is left alone.
AfterReadingOwnLock(p) ==
  IF ReadableLock.owner = p THEN "removeOwn" ELSE "ended"

ReleaseLock(p) ==
  /\ pc[p] = "release"
  /\ Goto(p, AfterReadingOwnLock(p))
  /\ UNCHANGED <<lockFile, cacheFile, now, issued, faults, request, since,
                 target, seen, entry, answer, evicted, acceptances>>

RemoveOwnLock(p) ==
  /\ pc[p] = "removeOwn"
  /\ lockFile' = NoLock
  /\ Goto(p, "ended")
  /\ UNCHANGED <<cacheFile, now, issued, faults, request, since, target,
                 seen, entry, answer, evicted, acceptances>>

-----------------------------------------------------------------------------
(* The environment: processes die, time passes. *)

\* A process dies at any point of a call.  A lock file whose content could not
\* be written (the write after "wx" fails) is left as a crash there leaves it.
Crash(p) ==
  /\ pc[p] \in WaiterAt \cup HolderAt
  /\ faults < MaxFaults
  /\ faults' = faults + 1
  /\ Goto(p, "crashed")
  /\ UNCHANGED <<lockFile, cacheFile, now, issued, request, since, target,
                 seen, entry, answer, evicted, acceptances>>

\* With HoldersArePrompt, a live holder is done before its lock turns stale.
Tick ==
  /\ now < MaxTime
  /\ HoldersArePrompt =>
       \A p \in Callers : pc[p] \in HolderAt => now + 1 - since[p] < StaleAfter
  /\ now' = now + 1
  /\ UNCHANGED <<lockFile, cacheFile, issued, faults, request, pc, since,
                 target, seen, entry, answer, evicted, acceptances>>

WaiterStep(p) ==
  \/ CreateLockFile(p) \/ WriteLockFile(p) \/ FindLockTaken(p) \/ GiveUp(p)
  \/ ReadLockToJudgeAge(p) \/ JudgeLockAge(p) \/ RecheckStaleOwner(p)
  \/ RemoveStaleLock(p)

OperationStep(p) ==
  \/ ReadCache(p) \/ ProbeCached(p) \/ ServeCached(p) \/ EvictCached(p)
  \/ MintToken(p) \/ MintFails(p) \/ ProbeNew(p) \/ StoreNew(p)
  \/ CacheWriteFails(p)

Step(p) ==
  \/ HitWithoutLock(p) \/ BeginWaiting(p)
  \/ WaiterStep(p) \/ OperationStep(p)
  \/ ReleaseLock(p) \/ RemoveOwnLock(p)

Next == Tick \/ \E p \in Callers : Step(p) \/ Crash(p)

Spec == Init /\ [][Next]_vars

\* A call that has begun keeps running (nothing in it waits for another call
\* except by polling), and clocks advance.  Nobody is obliged to begin a call.
Running(p) == WaiterStep(p) \/ OperationStep(p) \/ ReleaseLock(p) \/ RemoveOwnLock(p)

FairSpec == Spec /\ WF_vars(Tick) /\ \A p \in Callers : WF_vars(Running(p))

-----------------------------------------------------------------------------
(* Properties. *)

\* Every variable has its type.
TypeOK ==
  /\ lockFile \in Lock
  /\ cacheFile \in Entry
  /\ now \in Nat
  /\ issued \in 0 .. MaxTokens
  /\ faults \in 0 .. MaxFaults
  /\ request \in [Callers -> Requests]
  /\ pc \in [Callers -> Places]
  /\ since \in [Callers -> Nat]
  /\ target \in [Callers -> 0 .. MaxTokens]
  /\ seen \in [Callers -> Lock]
  /\ entry \in [Callers -> Entry]
  /\ answer \in [Callers -> 0 .. MaxTokens]
  /\ evicted \subseteq Tokens
  /\ acceptances \in [Tokens -> [Policies -> Nat]]

\* "while holding an atomic filesystem lock" (getOrCreateAdminAuthToken): two
\* calls are never inside the locked operation at the same time.
MutualExclusion ==
  \A p, q \in Callers : pc[p] \in HolderAt /\ pc[q] \in HolderAt => p = q

\* "re-reads the cache before generating, which prevents duplicate token
\* mints": nobody generates a token, or is about to store one, while the cache
\* holds a token that is still usable.
NoDuplicateMint ==
  (\E p \in Callers : pc[p] \in {"mint", "probeNew", "store"}) =>
    CachedEntry = NoEntry

\* A token that a call evicted (rejected, refreshed or invalidated) never comes
\* back, although calls write entries they read earlier: one rejection leads to
\* one replacement, and an invalidation lasts.
EvictedStaysEvicted == cacheFile.token \notin evicted

\* The probe runs under the lock and its verdict is stored "so waiting
\* Playwright workers share one probe": no token is accepted twice under one
\* policy.  (With a single policy in use: entries remember the last one only.)
OneProbePerToken ==
  \A t \in Tokens, v \in Policies : acceptances[t][v] <= 1

\* A call that reports a rejected credential is never handed that credential,
\* nor one that calls forcing a refresh found in the cache at their start,
\* whatever crashes, stale locks and lock thefts happened in between.
RefreshReplaces ==
  \A p \in Callers :
    IsForceRefresh(p) /\ answer[p] # 0 => answer[p] # target[p]

\* A call with a validation policy only returns a token that validateToken
\* accepted under that very policy, in this process or in another one.
AnswerWasValidated ==
  \A p \in Callers :
    answer[p] # 0 /\ request[p].policy # NoPolicy =>
      acceptances[answer[p]][request[p].policy] >= 1

\* The lock file always belongs to a call that still holds it or that died:
\* a call that returned, threw or gave up leaves no lock of its own behind.
NoOrphanLock ==
  Exists(lockFile) => pc[lockFile.owner] \in HolderAt \cup {"crashed"}

\* Every call that begins to wait returns, throws, gives up or dies: no lock,
\* left by whomever, blocks it for ever.
EveryCallEnds ==
  \A p \in Callers : pc[p] = "acquire" ~> pc[p] \in {"ended", "crashed"}

-----------------------------------------------------------------------------
(* Strengthenings of the invariants, for the proofs. *)

\* Once a holder has written its lock, whoever reads it finds the owner.
OwnLockIsReadable ==
  \A p \in Callers :
    pc[p] \in HolderAt \ {"writeLock"} /\ lockFile.owner = p => lockFile.written

\* The circumstances in which the lock is a lock: nobody dies, and no holder
\* outlasts lockStaleAfterMs.
Calm == HoldersArePrompt /\ MaxFaults = 0 /\ StaleAfter > 0

NobodyDied == \A p \in Callers : pc[p] # "crashed"

HolderOwnsLock ==
  \A p \in Callers : pc[p] \in HolderAt => lockFile.owner = p

LockIsFresh ==
  Exists(lockFile) =>
    /\ lockFile.at = since[lockFile.owner]
    /\ now - lockFile.at < StaleAfter

\* A lock somebody has read is the one its owner holds, or its owner is gone
\* for good: a call takes the lock once.
SeenLockIsPast ==
  \A p \in Callers : Exists(seen[p]) =>
    /\ pc[seen[p].owner] \in HolderAt \cup {"ended"}
    /\ pc[seen[p].owner] \in HolderAt => since[seen[p].owner] = seen[p].at

NobodySteals ==
  \A p \in Callers :
    /\ pc[p] \notin {"removeStale", "removeUnreadable"}
    /\ pc[p] = "staleCheck" => Exists(seen[p]) /\ IsStale(seen[p].at)

LockInv ==
  /\ NoOrphanLock
  /\ OwnLockIsReadable
  /\ NobodyDied
  /\ HolderOwnsLock
  /\ LockIsFresh
  /\ SeenLockIsPast
  /\ NobodySteals

\* What the holder has in hand: the cached entry it read, or the newest token.
HandInv ==
  /\ evicted \subseteq 1 .. issued
  /\ cacheFile.token <= issued
  /\ \A p \in Callers :
       /\ pc[p] \in {"probeCached", "serve"} => entry[p].token = cacheFile.token
       /\ pc[p] \in {"probeNew", "store"} =>
            entry[p].token = issued /\ issued \notin evicted

OnePolicy == \A u, v \in Policies : u = v

Accepted(token, policy) == acceptances[token][policy] > 0

\* While the lock is a lock, with one policy in use: what was accepted is recorded with
\* the cached entry, unless the holder is about to record it, or to evict the entry.
ProbeInv ==
  /\ OneProbePerToken
  /\ cacheFile.token <= issued
  /\ \A t \in Tokens, v \in Policies : Accepted(t, v) => t <= issued
  /\ cacheFile.token # 0 =>
       \A v \in Policies : Accepted(cacheFile.token, v) =>
         \/ cacheFile.policy = v
         \/ \E p \in Callers : \/ pc[p] = "serve" /\ NeedsValidation(p, entry[p])
                               \/ pc[p] = "evict"
  /\ \A p \in Callers :
       /\ pc[p] \in {"probeCached", "serve"} => entry[p] = cacheFile /\ entry[p].token # 0
       /\ pc[p] = "probeCached" => NeedsValidation(p, entry[p])
       /\ pc[p] \in {"probeNew", "store"} =>
            /\ entry[p].token = issued /\ cacheFile.token < issued
            /\ entry[p].policy = request[p].policy
            /\ \A v \in Policies : Accepted(issued, v) => pc[p] = "store" /\ entry[p].policy = v

\* Tokens in use have been issued, and a refresh holds another one than its
\* target.
RefreshInv ==
  /\ cacheFile.token <= issued
  /\ \A p \in Callers :
       /\ target[p] <= issued
       /\ entry[p].token <= issued
       /\ pc[p] \in {"probeCached", "serve", "probeNew", "store"} /\ IsForceRefresh(p)
            => entry[p].token # target[p]
       /\ pc[p] = "idle" => answer[p] = 0
       /\ IsForceRefresh(p) /\ answer[p] # 0 => answer[p] # target[p]

Validated(token, policy) ==
  policy # NoPolicy => token \in Tokens /\ acceptances[token][policy] >= 1

\* What is cached, in hand or returned has been validated as it must be.
ValidationInv ==
  /\ Validated(cacheFile.token, cacheFile.policy)
  /\ \A p \in Callers :
       /\ pc[p] \in {"probeCached", "serve", "probeNew", "store"}
            => entry[p].token \in Tokens
       /\ pc[p] = "probeCached" => NeedsValidation(p, entry[p])
       /\ pc[p] = "serve" => Validated(entry[p].token, request[p].policy)
       /\ pc[p] \in {"probeNew", "store"} => entry[p].policy = request[p].policy
       /\ pc[p] = "store" => Validated(entry[p].token, entry[p].policy)
       /\ answer[p] # 0 => Validated(answer[p], request[p].policy)

=============================================================================

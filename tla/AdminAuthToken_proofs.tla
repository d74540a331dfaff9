------------------------ MODULE AdminAuthToken_proofs ------------------------
(***************************************************************************)
(* Theorems about AdminAuthToken, for any set of calls, policies, requests, *)
(* token lifetimes and bounds.                                              *)
(***************************************************************************)
EXTENDS AdminAuthToken, TLAPS

USE CallersAssumption, PoliciesAssumption, RequestsAssumption,
    TimesAssumption, BoundsAssumption

-----------------------------------------------------------------------------
(* Lemmas about the operators. *)

\* NoEntry and NoLock have their types, and so has what readCachedEntry and
\* readLock return.
LEMMA ReadTypes ==
  ASSUME TypeOK
  PROVE  /\ NoEntry \in Entry
         /\ NoLock \in Lock
         /\ CachedEntry \in Entry
         /\ ReadableLock \in Lock
<1>1. NoEntry \in Entry
  BY DEF NoEntry, Entry
<1>2. NoLock \in Lock
  BY DEF NoLock, Lock
<1>3. QED
  BY <1>1, <1>2 DEF TypeOK, CachedEntry, ReadableLock

\* The fingerprint a refresh is about is that of an issued token, or undefined.
LEMMA TargetTypes ==
  ASSUME TypeOK, NEW p \in Callers
  PROVE  RefreshTargets(p) \subseteq 0 .. MaxTokens
<1>1. CachedEntry.token \in 0 .. MaxTokens
  BY ReadTypes DEF Entry
<1>2. QED
  BY <1>1 DEF RefreshTargets, TypeOK

-----------------------------------------------------------------------------
(* Type correctness. *)

\* The steps of a call before it has the lock keep the types.
LEMMA WaiterStepTypes ==
  ASSUME TypeOK, NEW p \in Callers,
         HitWithoutLock(p) \/ BeginWaiting(p) \/ WaiterStep(p)
  PROVE  TypeOK'
<1> USE DEF TypeOK, Goto, Places, WaiterAt, HolderAt, OperationAt
<1>1. CASE HitWithoutLock(p)
  BY <1>1, ReadTypes DEF HitWithoutLock, Return, Entry
<1>2. CASE BeginWaiting(p)
  BY <1>2, TargetTypes DEF BeginWaiting
<1>3. CASE CreateLockFile(p)
  BY <1>3 DEF CreateLockFile, Lock
<1>4. CASE WriteLockFile(p)
  BY <1>4 DEF WriteLockFile, Lock
<1>5. CASE FindLockTaken(p)
  BY <1>5 DEF FindLockTaken
<1>6. CASE GiveUp(p)
  BY <1>6 DEF GiveUp
<1>7. CASE ReadLockToJudgeAge(p)
  BY <1>7, ReadTypes DEF ReadLockToJudgeAge
<1>8. CASE JudgeLockAge(p)
  BY <1>8, ReadTypes DEF JudgeLockAge
<1>9. CASE RecheckStaleOwner(p)
  BY <1>9, ReadTypes DEF RecheckStaleOwner
<1>10. CASE RemoveStaleLock(p)
  BY <1>10, ReadTypes DEF RemoveStaleLock
<1>11. QED
  BY <1>1, <1>2, <1>3, <1>4, <1>5, <1>6, <1>7, <1>8, <1>9, <1>10 DEF WaiterStep

\* Counting an accepting probe keeps the type of the counts.
LEMMA AcceptTypes ==
  ASSUME TypeOK, NEW p \in Callers, Accept(p)
  PROVE  acceptances' \in [Tokens -> [Policies -> Nat]]
<1> DEFINE t == entry[p].token
           v == request[p].policy
           row == [acceptances[t] EXCEPT ![v] = acceptances[t][v] + 1]
<1>1. acceptances' = [acceptances EXCEPT ![t] = row]
  BY DEF Accept
<1>2. ASSUME t \in Tokens PROVE row \in [Policies -> Nat]
  <2>1. acceptances[t] \in [Policies -> Nat]
    BY <1>2 DEF TypeOK
  <2>2. v \in Policies => acceptances[t][v] + 1 \in Nat
    BY <2>1
  <2>3. QED
    BY <2>1, <2>2
<1>3. acceptances \in [Tokens -> [Policies -> Nat]]
  BY DEF TypeOK
<1> HIDE DEF t, row
<1>4. QED
  BY <1>1, <1>2, <1>3

\* The steps of the locked operation keep the types.
LEMMA OperationStepTypes ==
  ASSUME TypeOK, NEW p \in Callers, OperationStep(p)
  PROVE  TypeOK'
<1> USE DEF TypeOK, Goto, Places, WaiterAt, HolderAt, OperationAt
<1>1. CASE ReadCache(p)
  BY <1>1, ReadTypes DEF ReadCache, AfterReading
<1>2. CASE ProbeCached(p)
  BY <1>2, AcceptTypes DEF ProbeCached
<1>3. CASE ServeCached(p)
  <2>1. request[p].policy \in Policies \cup {NoPolicy}
    BY DEF Request
  <2>2. WithVerdict(p) \in Entry
    BY <2>1 DEF WithVerdict, Entry
  <2>3. QED
    BY <1>3, <2>2 DEF ServeCached, Return, Entry
<1>4. CASE EvictCached(p)
  <2>1. {cacheFile.token} \ {0} \subseteq Tokens
    BY DEF Entry, Tokens
  <2>2. pc' \in [Callers -> Places]
    BY <1>4 DEF EvictCached
  <2>3. QED
    BY <1>4, <2>1, <2>2, ReadTypes DEF EvictCached
<1>5. CASE MintToken(p)
  <2>1. request[p].policy \in Policies \cup {NoPolicy}
    BY DEF Request
  <2>2. PICK life \in TokenLifetimes :
          entry' = [entry EXCEPT ![p] = [token |-> issued + 1,
                                         expiresAt |-> now + life,
                                         policy |-> request[p].policy]]
    BY <1>5 DEF MintToken
  <2>3. [token |-> issued + 1, expiresAt |-> now + life,
         policy |-> request[p].policy] \in Entry
    BY <1>5, <2>1, <2>2 DEF MintToken, Entry
  <2>4. QED
    BY <1>5, <2>2, <2>3 DEF MintToken
<1>6. CASE MintFails(p)
  BY <1>6 DEF MintFails
<1>7. CASE ProbeNew(p)
  BY <1>7, AcceptTypes DEF ProbeNew
<1>8. CASE StoreNew(p)
  <2>1. NewExpiry(p) \in Nat
    BY DEF NewExpiry, Min2, Entry
  <2>2. [entry[p] EXCEPT !.expiresAt = NewExpiry(p)] \in Entry
    BY <2>1 DEF Entry
  <2>3. QED
    BY <1>8, <2>2 DEF StoreNew, Return, Entry
<1>9. CASE CacheWriteFails(p)
  BY <1>9 DEF CacheWriteFails
<1>10. QED
  BY <1>1, <1>2, <1>3, <1>4, <1>5, <1>6, <1>7, <1>8, <1>9 DEF OperationStep

\* Every reachable state of the token cache is well typed.
THEOREM TypeCorrect == Spec => []TypeOK
<1>1. Init => TypeOK
  <2> SUFFICES ASSUME Init PROVE TypeOK
    OBVIOUS
  <2>1. cacheFile \in Entry
    BY DEF Init, InitialEntries, NoEntry, Entry
  <2>2. acceptances \in [Tokens -> [Policies -> Nat]]
    BY DEF Init
  <2>3. QED
    BY <2>1, <2>2 DEF Init, TypeOK, NoLock, Lock, NoEntry, Entry, Places
<1>2. TypeOK /\ [Next]_vars => TypeOK'
  <2> SUFFICES ASSUME TypeOK, [Next]_vars PROVE TypeOK'
    OBVIOUS
  <2>1. CASE Tick
    BY <2>1 DEF Tick, TypeOK
  <2>2. ASSUME NEW p \in Callers, Step(p) PROVE TypeOK'
    <3>1. CASE HitWithoutLock(p) \/ BeginWaiting(p) \/ WaiterStep(p)
      BY <3>1, WaiterStepTypes
    <3>2. CASE OperationStep(p)
      BY <3>2, OperationStepTypes
    <3>3. CASE ReleaseLock(p)
      BY <3>3 DEF ReleaseLock, AfterReadingOwnLock, TypeOK, Goto, Places, HolderAt
    <3>4. CASE RemoveOwnLock(p)
      BY <3>4, ReadTypes DEF RemoveOwnLock, TypeOK, Goto, Places
    <3>5. QED
      BY <2>2, <3>1, <3>2, <3>3, <3>4 DEF Step
  <2>3. ASSUME NEW p \in Callers, Crash(p) PROVE TypeOK'
    BY <2>3 DEF Crash, TypeOK, Goto, Places
  <2>4. CASE UNCHANGED vars
    BY <2>4 DEF vars, TypeOK
  <2>5. QED
    BY <2>1, <2>2, <2>3, <2>4 DEF Next
<1>3. QED
  BY <1>1, <1>2, PTL DEF Spec

-----------------------------------------------------------------------------
(* No orphan locks, whatever dies and whatever is stolen. *)

\* A step of one call that leaves the lock file alone.
LEMMA OrphanQuietStep ==
  ASSUME TypeOK, NoOrphanLock, OwnLockIsReadable, NEW p \in Callers,
         NEW place \in Places, Goto(p, place), lockFile' = lockFile,
         pc[p] \in HolderAt \ {"writeLock"}
           => place \in (HolderAt \ {"writeLock"}) \cup {"crashed"},
         pc[p] = "writeLock" => place = "crashed",
         pc[p] # "crashed",
         pc[p] \notin HolderAt => place \notin HolderAt
  PROVE  NoOrphanLock' /\ OwnLockIsReadable'
BY DEF TypeOK, NoOrphanLock, OwnLockIsReadable, Goto, Exists, Lock,
       HolderAt, OperationAt

\* A step of one call after which there is no lock file.
LEMMA OrphanRemovingStep ==
  ASSUME TypeOK, NEW p \in Callers, lockFile' = NoLock
  PROVE  NoOrphanLock' /\ OwnLockIsReadable'
BY DEF NoOrphanLock, OwnLockIsReadable, Exists, NoLock

LEMMA OrphanStep ==
  ASSUME TypeOK, NoOrphanLock, OwnLockIsReadable, [Next]_vars
  PROVE  NoOrphanLock' /\ OwnLockIsReadable'
<1> USE DEF Places, WaiterAt, HolderAt, OperationAt
<1>1. CASE Tick \/ UNCHANGED vars
  BY <1>1 DEF Tick, vars, NoOrphanLock, OwnLockIsReadable, Exists
<1>2. ASSUME NEW p \in Callers, HitWithoutLock(p) \/ BeginWaiting(p)
      PROVE  NoOrphanLock' /\ OwnLockIsReadable'
  BY <1>2, OrphanQuietStep DEF HitWithoutLock, BeginWaiting
<1>3. ASSUME NEW p \in Callers, WaiterStep(p)
      PROVE  NoOrphanLock' /\ OwnLockIsReadable'
  <2>1. CASE CreateLockFile(p)
    BY <2>1 DEF CreateLockFile, Goto, TypeOK, NoOrphanLock, OwnLockIsReadable, Exists
  <2>2. CASE WriteLockFile(p)
    BY <2>2 DEF WriteLockFile, Goto, TypeOK, Lock, NoOrphanLock,
                OwnLockIsReadable, Exists
  <2>3. CASE FindLockTaken(p) \/ GiveUp(p) \/ ReadLockToJudgeAge(p)
    BY <2>3, OrphanQuietStep DEF FindLockTaken, GiveUp, ReadLockToJudgeAge
  <2>4. CASE JudgeLockAge(p)
    BY <2>4, OrphanQuietStep DEF JudgeLockAge
  <2>5. CASE RecheckStaleOwner(p)
    BY <2>5, OrphanQuietStep DEF RecheckStaleOwner
  <2>6. CASE RemoveStaleLock(p)
    BY <2>6, OrphanRemovingStep DEF RemoveStaleLock
  <2>7. QED
    BY <1>3, <2>1, <2>2, <2>3, <2>4, <2>5, <2>6 DEF WaiterStep
<1>4. ASSUME NEW p \in Callers, OperationStep(p)
      PROVE  NoOrphanLock' /\ OwnLockIsReadable'
  <2>1. lockFile' = lockFile /\ pc[p] \in OperationAt
    BY <1>4 DEF OperationStep, ReadCache, ProbeCached, ServeCached, EvictCached,
                MintToken, MintFails, ProbeNew, StoreNew, CacheWriteFails
  <2>2. \E place \in OperationAt \cup {"release"} : Goto(p, place)
    BY <1>4 DEF OperationStep, ReadCache, AfterReading, ProbeCached, ServeCached,
                EvictCached, MintToken, MintFails, ProbeNew, StoreNew, CacheWriteFails
  <2>3. QED
    BY <2>1, <2>2, OrphanQuietStep
<1>5. ASSUME NEW p \in Callers, ReleaseLock(p)
      PROVE  NoOrphanLock' /\ OwnLockIsReadable'
  BY <1>5 DEF ReleaseLock, AfterReadingOwnLock, ReadableLock, Goto, TypeOK, Lock,
              NoOrphanLock, OwnLockIsReadable, Exists
<1>6. ASSUME NEW p \in Callers, RemoveOwnLock(p)
      PROVE  NoOrphanLock' /\ OwnLockIsReadable'
  BY <1>6, OrphanRemovingStep DEF RemoveOwnLock
<1>7. ASSUME NEW p \in Callers, Crash(p)
      PROVE  NoOrphanLock' /\ OwnLockIsReadable'
  BY <1>7, OrphanQuietStep DEF Crash
<1>8. QED
  BY <1>1, <1>2, <1>3, <1>4, <1>5, <1>6, <1>7 DEF Next, Step

\* A call that returned, threw or gave up never leaves its lock file behind
\* (releaseLock in the finally block of runWithAdminAuthTokenLock).
THEOREM NoOrphanLocks == Spec => []NoOrphanLock
<1>1. Init => NoOrphanLock /\ OwnLockIsReadable
  BY DEF Init, NoOrphanLock, OwnLockIsReadable, NoLock, Exists
<1>2. TypeOK /\ NoOrphanLock /\ OwnLockIsReadable /\ [Next]_vars
        => NoOrphanLock' /\ OwnLockIsReadable'
  BY OrphanStep
<1>3. QED
  BY <1>1, <1>2, TypeCorrect, PTL DEF Spec

-----------------------------------------------------------------------------
(* The lock is a lock as long as nobody dies and no holder is late.          *)

\* A step of the holder that keeps it in the locked operation.
LEMMA HolderMoves ==
  ASSUME TypeOK, LockInv, NEW p \in Callers,
         NEW place \in HolderAt \ {"writeLock"},
         pc[p] \in HolderAt \ {"writeLock"}, Goto(p, place),
         UNCHANGED <<lockFile, now, since, seen>>
  PROVE  LockInv'
<1> USE DEF TypeOK, LockInv, Goto
<1>1. \A q \in Callers : pc'[q] \in HolderAt <=> pc[q] \in HolderAt
  OBVIOUS
<1>2. \A q \in Callers : q # p => pc'[q] = pc[q]
  OBVIOUS
<1>3. NoOrphanLock' /\ LockIsFresh' /\ HolderOwnsLock'
  BY <1>1 DEF NoOrphanLock, LockIsFresh, HolderOwnsLock, NobodyDied, Exists, Lock
<1>4. OwnLockIsReadable'
  BY <1>2 DEF OwnLockIsReadable
<1>5. NobodyDied' /\ NobodySteals'
  BY <1>2 DEF NobodyDied, NobodySteals, IsStale, HolderAt, OperationAt
<1>6. SeenLockIsPast'
  BY <1>1, <1>2 DEF SeenLockIsPast, Exists, Lock, HolderAt, OperationAt
<1>7. QED
  BY <1>3, <1>4, <1>5, <1>6

\* A step of a call that does not hold the lock, other than taking it.
LEMMA WaiterMoves ==
  ASSUME TypeOK, LockInv, NEW p \in Callers, NEW place \in Places,
         pc[p] \in WaiterAt \cup {"idle"},
         place \in {"acquire", "staleRead", "staleStat", "staleCheck", "ended"},
         place = "staleCheck" =>
           Exists(seen[p]) /\ IsStale(seen[p].at) /\ seen' = seen,
         Goto(p, place), UNCHANGED <<lockFile, now>>,
         \A q \in Callers \ {p} : since'[q] = since[q],
         seen' \in {seen, [seen EXCEPT ![p] = NoLock], [seen EXCEPT ![p] = ReadableLock]}
  PROVE  LockInv'
<1> USE DEF TypeOK, LockInv, Goto, WaiterAt, HolderAt, OperationAt
<1>1. \A q \in Callers : q # p => pc'[q] = pc[q] /\ since'[q] = since[q]
                                 /\ seen'[q] = seen[q]
  OBVIOUS
<1>2. pc'[p] = place /\ pc'[p] \notin HolderAt /\ pc[p] \notin HolderAt
  OBVIOUS
<1>3. \A q \in Callers : pc'[q] \in HolderAt <=> pc[q] \in HolderAt
  BY <1>1, <1>2
<1>4. NoOrphanLock' /\ HolderOwnsLock' /\ OwnLockIsReadable' /\ NobodyDied'
  BY <1>1, <1>2, <1>3 DEF NoOrphanLock, HolderOwnsLock, OwnLockIsReadable,
                          NobodyDied, Exists, Lock
<1>5. LockIsFresh'
  BY <1>1, <1>2 DEF LockIsFresh, NoOrphanLock, NobodyDied, Exists, Lock
<1>6. NobodySteals'
  BY <1>1, <1>2 DEF NobodySteals, IsStale
<1>7. seen'[p] \in {seen[p], NoLock, ReadableLock}
  OBVIOUS
<1>8. ASSUME NEW q \in Callers, Exists(seen[q])
      PROVE  /\ seen[q].owner \in Callers /\ seen[q].owner # p
             /\ pc'[seen[q].owner] \in HolderAt \cup {"ended"}
             /\ pc'[seen[q].owner] \in HolderAt => since'[seen[q].owner] = seen[q].at
  <2>1. seen[q].owner \in Callers
    BY <1>8 DEF Exists, Lock
  <2>2. seen[q].owner # p
    BY <1>8, <2>1 DEF SeenLockIsPast
  <2>3. QED
    BY <1>1, <1>8, <2>1, <2>2 DEF SeenLockIsPast
<1>9. ASSUME Exists(ReadableLock)
      PROVE  /\ lockFile.owner \in Callers /\ lockFile.owner # p
             /\ pc'[lockFile.owner] \in HolderAt
             /\ since'[lockFile.owner] = lockFile.at
             /\ ReadableLock = lockFile
  <2>1. Exists(lockFile) /\ ReadableLock = lockFile
    BY <1>9 DEF Exists, ReadableLock, NoLock
  <2>2. lockFile.owner \in Callers /\ pc[lockFile.owner] \in HolderAt
    BY <2>1 DEF Exists, Lock, NoOrphanLock, NobodyDied
  <2>3. QED
    BY <1>1, <2>1, <2>2 DEF LockIsFresh
<1>10. SeenLockIsPast'
  <2> SUFFICES ASSUME NEW q \in Callers, Exists(seen'[q])
               PROVE  /\ pc'[seen'[q].owner] \in HolderAt \cup {"ended"}
                      /\ pc'[seen'[q].owner] \in HolderAt
                           => since'[seen'[q].owner] = seen'[q].at
    BY DEF SeenLockIsPast, Exists
  <2>1. CASE seen'[q] = seen[q]
    BY <2>1, <1>8
  <2>2. CASE seen'[q] = ReadableLock
    BY <2>2, <1>9
  <2>3. seen'[q] # NoLock
    BY DEF Exists, NoLock
  <2>4. QED
    BY <1>1, <1>7, <2>1, <2>2, <2>3
<1>11. QED
  BY <1>4, <1>5, <1>6, <1>10

\* Nobody judges the lock of a live holder stale.
LEMMA StaleOwnerIsGone ==
  ASSUME TypeOK, LockInv, NEW p \in Callers, Exists(seen[p]), IsStale(seen[p].at)
  PROVE  ReadableLock.owner # seen[p].owner
<1> SUFFICES ASSUME ReadableLock.owner = seen[p].owner PROVE FALSE
  OBVIOUS
<1>1. seen[p].owner \in Callers /\ seen[p].at \in Nat
  BY DEF TypeOK, Exists, Lock
<1>2. Exists(lockFile) /\ lockFile.owner = seen[p].owner
  BY DEF Exists, ReadableLock, NoLock
<1>3. pc[lockFile.owner] \in HolderAt
  BY <1>1, <1>2 DEF LockInv, NoOrphanLock, NobodyDied
<1>4. lockFile.at = seen[p].at
  BY <1>1, <1>2, <1>3 DEF LockInv, LockIsFresh, SeenLockIsPast
<1>5. QED
  BY <1>2, <1>4 DEF LockInv, LockIsFresh, IsStale, TypeOK, Lock

\* The owner of a lock leaves: whatever has been read of the lock is past.
LEMMA LockRemoved ==
  ASSUME TypeOK, LockInv, NEW p \in Callers, pc[p] = "removeOwn",
         RemoveOwnLock(p)
  PROVE  LockInv'
<1> USE DEF TypeOK, LockInv, Goto, HolderAt, OperationAt, RemoveOwnLock
<1>1. \A q \in Callers : q # p => pc'[q] = pc[q] /\ pc[q] \notin HolderAt
  BY DEF HolderOwnsLock
<1>2. pc'[p] = "ended"
  OBVIOUS
<1>3. NoOrphanLock' /\ LockIsFresh'
  BY DEF NoOrphanLock, LockIsFresh, Exists, NoLock
<1>4. HolderOwnsLock' /\ OwnLockIsReadable' /\ NobodyDied'
  BY <1>1, <1>2 DEF HolderOwnsLock, OwnLockIsReadable, NobodyDied
<1>5. NobodySteals'
  BY <1>1, <1>2 DEF NobodySteals, Exists, IsStale
<1>6. SeenLockIsPast'
  BY <1>1, <1>2 DEF SeenLockIsPast, Exists, Lock
<1>7. QED
  BY <1>3, <1>4, <1>5, <1>6

\* A call takes the free lock.
LEMMA LockTaken ==
  ASSUME TypeOK, Calm, LockInv, NEW p \in Callers, CreateLockFile(p)
  PROVE  LockInv'
<1> USE DEF TypeOK, LockInv, Goto, HolderAt, OperationAt, CreateLockFile
<1>1. \A q \in Callers : q # p => /\ pc'[q] = pc[q] /\ since'[q] = since[q]
                                 /\ pc[q] \notin HolderAt
  BY DEF HolderOwnsLock, Exists
<1>2. pc'[p] = "writeLock" /\ since'[p] = now
  OBVIOUS
<1>3. lockFile'.owner = p /\ lockFile'.at = now
  OBVIOUS
<1>4. NoOrphanLock' /\ HolderOwnsLock' /\ OwnLockIsReadable' /\ NobodyDied'
  BY <1>1, <1>2, <1>3 DEF NoOrphanLock, HolderOwnsLock, OwnLockIsReadable, NobodyDied
<1>5. LockIsFresh'
  BY <1>2, <1>3 DEF LockIsFresh, Calm
<1>6. NobodySteals'
  BY <1>1, <1>2 DEF NobodySteals, IsStale, Exists
<1>7. SeenLockIsPast'
  BY <1>1, <1>2 DEF SeenLockIsPast, Exists, Lock
<1>8. QED
  BY <1>4, <1>5, <1>6, <1>7

\* The holder's content reaches the lock file.
LEMMA LockWritten ==
  ASSUME TypeOK, LockInv, NEW p \in Callers, WriteLockFile(p)
  PROVE  LockInv'
<1> USE DEF TypeOK, LockInv, Goto, HolderAt, OperationAt, WriteLockFile
<1>1. \A q \in Callers : q # p => pc'[q] = pc[q] /\ pc[q] \notin HolderAt
  BY DEF HolderOwnsLock
<1>2. pc[p] = "writeLock" /\ pc'[p] = "readCache"
  OBVIOUS
<1>3. lockFile.owner = p
  BY <1>2 DEF HolderOwnsLock
<1>4. lockFile'.owner = p /\ lockFile'.at = lockFile.at /\ lockFile'.written
  BY <1>3 DEF Lock
<1>5. NoOrphanLock' /\ HolderOwnsLock' /\ OwnLockIsReadable' /\ NobodyDied'
  BY <1>1, <1>2, <1>4 DEF NoOrphanLock, HolderOwnsLock, OwnLockIsReadable, NobodyDied
<1>6. LockIsFresh'
  BY <1>3, <1>4 DEF LockIsFresh, Exists
<1>7. NobodySteals'
  BY <1>1, <1>2 DEF NobodySteals, IsStale, Exists
<1>8. SeenLockIsPast'
  BY <1>1, <1>2 DEF SeenLockIsPast, Exists, Lock
<1>9. QED
  BY <1>5, <1>6, <1>7, <1>8

LEMMA LockInvStep ==
  ASSUME TypeOK, Calm, LockInv, [Next]_vars
  PROVE  LockInv'
<1>1. CASE UNCHANGED vars
  BY <1>1 DEF vars, LockInv, NoOrphanLock, OwnLockIsReadable, NobodyDied,
              HolderOwnsLock, LockIsFresh, SeenLockIsPast, NobodySteals,
              Exists, IsStale
<1>2. CASE Tick
  <2> USE DEF Tick, TypeOK, LockInv, Calm
  <2>1. NoOrphanLock' /\ OwnLockIsReadable' /\ NobodyDied' /\ HolderOwnsLock'
    BY <1>2 DEF NoOrphanLock, OwnLockIsReadable, NobodyDied, HolderOwnsLock, Exists
  <2>2. LockIsFresh'
    BY <1>2 DEF LockIsFresh, NoOrphanLock, NobodyDied, Exists, Lock
  <2>3. SeenLockIsPast'
    BY <1>2 DEF SeenLockIsPast, Exists
  <2>4. NobodySteals'
    <3>1. \A q \in Callers : seen[q].at \in Nat
      BY DEF Lock
    <3>2. QED
      BY <1>2, <3>1 DEF NobodySteals, Exists, IsStale
  <2>5. QED
    BY <2>1, <2>2, <2>3, <2>4
<1>3. ASSUME NEW p \in Callers, Step(p)
      PROVE  LockInv'
  <2> USE DEF Places, WaiterAt, HolderAt, OperationAt
  <2>1. CASE HitWithoutLock(p) \/ BeginWaiting(p)
    BY <2>1, WaiterMoves DEF HitWithoutLock, BeginWaiting, TypeOK
  <2>2. CASE WaiterStep(p)
    <3>1. CASE CreateLockFile(p)
      BY <3>1, LockTaken
    <3>2. CASE WriteLockFile(p)
      BY <3>2, LockWritten
    <3>3. CASE FindLockTaken(p) \/ GiveUp(p) \/ ReadLockToJudgeAge(p)
      BY <3>3, WaiterMoves DEF FindLockTaken, GiveUp, ReadLockToJudgeAge
    <3>4. CASE JudgeLockAge(p)
      <4>1. Exists(lockFile) => ~IsStale(lockFile.at)
        BY DEF LockInv, LockIsFresh, IsStale, TypeOK, Lock
      <4>2. CASE Exists(lockFile) /\ IsStale(JudgedAge(p))
        <5>1. Exists(seen[p]) /\ IsStale(seen[p].at)
          BY <4>1, <4>2 DEF JudgedAge
        <5>2. Goto(p, "staleCheck") /\ seen' = seen
          BY <3>4, <4>2, <5>1 DEF JudgeLockAge, TypeOK
        <5>3. QED
          BY <3>4, <5>1, <5>2, WaiterMoves DEF JudgeLockAge
      <4>3. CASE ~(Exists(lockFile) /\ IsStale(JudgedAge(p)))
        <5>1. Goto(p, "acquire")
          BY <3>4, <4>3 DEF JudgeLockAge
        <5>2. QED
          BY <3>4, <4>3, <5>1, WaiterMoves DEF JudgeLockAge
      <4>4. QED
        BY <4>2, <4>3
    <3>5. CASE RecheckStaleOwner(p)
      <4>1. ReadableLock.owner # seen[p].owner
        BY <3>5, StaleOwnerIsGone DEF RecheckStaleOwner, LockInv, NobodySteals
      <4>2. QED
        BY <3>5, <4>1, WaiterMoves DEF RecheckStaleOwner
    <3>6. ~RemoveStaleLock(p)
      BY DEF RemoveStaleLock, LockInv, NobodySteals
    <3>7. QED
      BY <2>2, <3>1, <3>2, <3>3, <3>4, <3>5, <3>6 DEF WaiterStep
  <2>3. CASE OperationStep(p)
    <3>1. pc[p] \in OperationAt /\ UNCHANGED <<lockFile, now, since, seen>>
      BY <2>3 DEF OperationStep, ReadCache, ProbeCached, ServeCached, EvictCached,
                  MintToken, MintFails, ProbeNew, StoreNew, CacheWriteFails
    <3>2. \E place \in OperationAt \cup {"release"} : Goto(p, place)
      BY <2>3 DEF OperationStep, ReadCache, AfterReading, ProbeCached, ServeCached,
                  EvictCached, MintToken, MintFails, ProbeNew, StoreNew, CacheWriteFails
    <3>3. QED
      BY <3>1, <3>2, HolderMoves
  <2>4. CASE ReleaseLock(p)
    <3>1. ReadableLock.owner = p
      BY <2>4 DEF ReleaseLock, ReadableLock, LockInv, HolderOwnsLock, OwnLockIsReadable
    <3>2. QED
      BY <2>4, <3>1, HolderMoves DEF ReleaseLock, AfterReadingOwnLock
  <2>5. CASE RemoveOwnLock(p)
    BY <2>5, LockRemoved DEF RemoveOwnLock
  <2>6. QED
    BY <1>3, <2>1, <2>2, <2>3, <2>4, <2>5 DEF Step
<1>4. ASSUME NEW p \in Callers, Crash(p)
      PROVE  FALSE
  BY <1>4 DEF Crash, Calm, TypeOK
<1>5. QED
  BY <1>1, <1>2, <1>3, <1>4 DEF Next

\* The inductive invariant of the lock.
LEMMA LockInvariant ==
  ASSUME Calm
  PROVE  Spec => []LockInv
<1>1. Init => LockInv
  BY DEF Init, LockInv, NoOrphanLock, OwnLockIsReadable, NobodyDied,
         HolderOwnsLock, LockIsFresh, SeenLockIsPast, NobodySteals,
         Exists, NoLock, HolderAt, OperationAt
<1>2. TypeOK /\ LockInv /\ [Next]_vars => LockInv'
  BY LockInvStep
<1>3. QED
  BY <1>1, <1>2, TypeCorrect, PTL DEF Spec

\* Two calls are never inside the locked operation at once ("while holding an
\* atomic filesystem lock"), provided that nobody dies and that every holder
\* is done within lockStaleAfterMs.
THEOREM LockExcludes ==
  ASSUME Calm
  PROVE  Spec => []MutualExclusion
<1>1. LockInv => MutualExclusion
  BY DEF LockInv, HolderOwnsLock, MutualExclusion
<1>2. QED
  BY <1>1, LockInvariant, PTL

-----------------------------------------------------------------------------
(* While the lock is a lock: one mint at a time, and evictions last. *)

\* Only a holder mints, and only after it has found or left the cache empty.
LEMMA DuplicateMintStep ==
  ASSUME TypeOK, MutualExclusion, NoDuplicateMint, [Next]_vars
  PROVE  NoDuplicateMint'
<1> DEFINE Minting(q) == pc[q] \in {"mint", "probeNew", "store"}
<1> USE DEF TypeOK, Goto, HolderAt, OperationAt
<1>1. CASE Tick \/ UNCHANGED vars
  BY <1>1, ReadTypes DEF Tick, vars, NoDuplicateMint, CachedEntry, Entry
<1>2. ASSUME NEW p \in Callers, UNCHANGED <<cacheFile, now>>,
             \A q \in Callers \ {p} : pc'[q] = pc[q],
             Minting(p)' => Minting(p) \/ CachedEntry = NoEntry
      PROVE  NoDuplicateMint'
  BY <1>2 DEF NoDuplicateMint, CachedEntry
<1>3. ASSUME NEW p \in Callers, pc[p] \in HolderAt, now' = now,
             \A q \in Callers \ {p} : pc'[q] = pc[q],
             Minting(p)' => cacheFile' = NoEntry
      PROVE  NoDuplicateMint'
  BY <1>3 DEF NoDuplicateMint, MutualExclusion, CachedEntry, NoEntry
<1> HIDE DEF Minting
<1>4. ASSUME NEW p \in Callers, Step(p)
      PROVE  NoDuplicateMint'
  <2>0. \A q \in Callers \ {p} : pc'[q] = pc[q]
    BY <1>4 DEF Step, HitWithoutLock, BeginWaiting, WaiterStep, CreateLockFile,
        WriteLockFile, FindLockTaken, GiveUp, ReadLockToJudgeAge, JudgeLockAge,
        RecheckStaleOwner, RemoveStaleLock, OperationStep, ReadCache, ProbeCached,
        ServeCached, EvictCached, MintToken, MintFails, ProbeNew, StoreNew,
        CacheWriteFails, ReleaseLock, RemoveOwnLock
  <2>1. CASE HitWithoutLock(p) \/ BeginWaiting(p) \/ ReleaseLock(p) \/ RemoveOwnLock(p)
    BY <1>2, <2>0, <2>1 DEF HitWithoutLock, BeginWaiting, ReleaseLock,
        AfterReadingOwnLock, RemoveOwnLock, Minting
  <2>2. CASE WaiterStep(p)
    BY <1>2, <2>0, <2>2 DEF WaiterStep, CreateLockFile, WriteLockFile,
        FindLockTaken, GiveUp, ReadLockToJudgeAge, JudgeLockAge,
        RecheckStaleOwner, RemoveStaleLock, Minting
  <2>3. CASE ReadCache(p)
    BY <1>2, <2>0, <2>3 DEF ReadCache, AfterReading, Minting
  <2>4. CASE ProbeCached(p) \/ MintToken(p) \/ MintFails(p) \/ ProbeNew(p)
             \/ CacheWriteFails(p)
    BY <1>2, <2>0, <2>4 DEF ProbeCached, MintToken, MintFails, ProbeNew,
        CacheWriteFails, Minting
  <2>5. CASE ServeCached(p) \/ EvictCached(p) \/ StoreNew(p)
    BY <1>3, <2>0, <2>5 DEF ServeCached, EvictCached, StoreNew, Minting
  <2>6. QED
    BY <1>4, <2>1, <2>2, <2>3, <2>4, <2>5 DEF Step, OperationStep
<1>5. ASSUME NEW p \in Callers, Crash(p)
      PROVE  NoDuplicateMint'
  BY <1>2, <1>5 DEF Crash, Minting
<1>6. QED
  BY <1>1, <1>4, <1>5 DEF Next

\* The double check under the lock ("re-reads the cache before generating,
\* which prevents duplicate token mints") does what it promises.
THEOREM NoDuplicateMints ==
  ASSUME Calm
  PROVE  Spec => []NoDuplicateMint
<1>1. Init => NoDuplicateMint
  BY DEF Init, NoDuplicateMint
<1>2. TypeOK /\ MutualExclusion /\ NoDuplicateMint /\ [Next]_vars
        => NoDuplicateMint'
  BY DuplicateMintStep
<1>3. QED
  BY <1>1, <1>2, TypeCorrect, LockExcludes, PTL DEF Spec

LEMMA EvictionStep ==
  ASSUME TypeOK, MutualExclusion, EvictedStaysEvicted, HandInv, [Next]_vars
  PROVE  EvictedStaysEvicted' /\ HandInv'
<1> USE DEF TypeOK, Goto, HolderAt, OperationAt
<1>1. CASE Tick \/ UNCHANGED vars
  BY <1>1 DEF Tick, vars, EvictedStaysEvicted, HandInv
<1>2. ASSUME NEW p \in Callers, UNCHANGED <<cacheFile, evicted, issued>>,
             \A q \in Callers \ {p} : pc'[q] = pc[q] /\ entry'[q] = entry[q],
             pc'[p] \in {"probeCached", "serve"} =>
               entry'[p].token = cacheFile.token,
             pc'[p] \in {"probeNew", "store"} =>
               pc[p] \in {"probeNew", "store"} /\ entry'[p] = entry[p]
      PROVE  EvictedStaysEvicted' /\ HandInv'
  BY <1>2 DEF EvictedStaysEvicted, HandInv
<1>3. ASSUME NEW p \in Callers, HitWithoutLock(p) \/ BeginWaiting(p)
             \/ WaiterStep(p) \/ ReleaseLock(p) \/ RemoveOwnLock(p) \/ Crash(p)
      PROVE  EvictedStaysEvicted' /\ HandInv'
  <2>1. /\ UNCHANGED <<cacheFile, evicted, issued, entry>>
        /\ \A q \in Callers \ {p} : pc'[q] = pc[q]
        /\ pc'[p] \notin {"probeCached", "serve", "probeNew", "store"}
    BY <1>3 DEF HitWithoutLock, BeginWaiting, WaiterStep, CreateLockFile,
        WriteLockFile, FindLockTaken, GiveUp, ReadLockToJudgeAge, JudgeLockAge,
        RecheckStaleOwner, RemoveStaleLock, ReleaseLock, AfterReadingOwnLock,
        RemoveOwnLock, Crash
  <2>2. QED
    BY <1>2, <2>1
<1>4. ASSUME NEW p \in Callers, OperationStep(p)
      PROVE  EvictedStaysEvicted' /\ HandInv'
  <2>0. \A q \in Callers \ {p} : pc[q] \notin HolderAt
    BY <1>4 DEF MutualExclusion, OperationStep, ReadCache, ProbeCached, ServeCached,
        EvictCached, MintToken, MintFails, ProbeNew, StoreNew, CacheWriteFails
  <2>1. CASE ReadCache(p)
    <3>1. AfterReading(p) \in {"probeCached", "serve"} => CachedEntry = cacheFile
      BY DEF AfterReading, CachedEntry
    <3>2. pc'[p] = AfterReading(p) /\ entry'[p] = CachedEntry
      BY <2>1 DEF ReadCache
    <3>3. AfterReading(p) \notin {"probeNew", "store"}
      BY DEF AfterReading
    <3>4. /\ UNCHANGED <<cacheFile, evicted, issued>>
          /\ \A q \in Callers \ {p} : pc'[q] = pc[q] /\ entry'[q] = entry[q]
      BY <2>1 DEF ReadCache
    <3>5. pc'[p] \in {"probeCached", "serve"} => entry'[p].token = cacheFile.token
      BY <3>1, <3>2
    <3>6. pc'[p] \notin {"probeNew", "store"}
      BY <3>2, <3>3
    <3>7. QED
      BY <1>2, <3>4, <3>5, <3>6
  <2>2. CASE ProbeCached(p) \/ MintFails(p) \/ ProbeNew(p) \/ CacheWriteFails(p)
    BY <1>2, <2>2 DEF ProbeCached, MintFails, ProbeNew, CacheWriteFails, HandInv
  <2>3. CASE ServeCached(p)
    <3>1. cacheFile'.token = cacheFile.token /\ UNCHANGED <<evicted, issued, entry>>
      BY <2>3 DEF ServeCached, WithVerdict, HandInv, Entry
    <3>2. pc'[p] \notin {"probeCached", "serve", "probeNew", "store"}
      BY <2>3 DEF ServeCached
    <3>3. QED
      BY <2>0, <2>3, <3>1, <3>2 DEF ServeCached, EvictedStaysEvicted, HandInv
  <2>4. CASE EvictCached(p)
    <3>1. {cacheFile.token} \ {0} \subseteq 1 .. issued
      BY DEF HandInv, Entry
    <3>2. cacheFile'.token = 0 /\ UNCHANGED <<issued, entry>>
      BY <2>4 DEF EvictCached, NoEntry
    <3>3. pc'[p] \in {"release", "mint"} /\ \A q \in Callers \ {p} : pc'[q] = pc[q]
      BY <2>4 DEF EvictCached
    <3>4. evicted' \subseteq 1 .. issued
      BY <2>4, <3>1 DEF EvictCached, HandInv
    <3>5. QED
      BY <2>0, <3>2, <3>3, <3>4 DEF EvictedStaysEvicted, HandInv
  <2>5. CASE MintToken(p)
    <3>1. issued' = issued + 1 /\ entry'[p].token = issued + 1
      BY <2>5 DEF MintToken
    <3>2. issued' \notin evicted
      BY <3>1 DEF HandInv
    <3>3. UNCHANGED <<cacheFile, evicted>> /\ pc'[p] \in {"store", "probeNew"}
          /\ \A q \in Callers \ {p} : pc'[q] = pc[q]
      BY <2>5 DEF MintToken
    <3>4. EvictedStaysEvicted'
      BY <3>3 DEF EvictedStaysEvicted
    <3>5. QED
      BY <2>0, <3>1, <3>2, <3>3, <3>4 DEF HandInv, Entry
  <2>6. CASE StoreNew(p)
    <3>1. cacheFile'.token \in {cacheFile.token, issued}
      BY <2>6 DEF StoreNew, HandInv, Entry
    <3>2. issued \notin evicted
      BY <2>6 DEF StoreNew, HandInv
    <3>3. QED
      BY <2>0, <2>6, <3>1, <3>2 DEF StoreNew, EvictedStaysEvicted, HandInv
  <2>7. QED
    BY <1>4, <2>1, <2>2, <2>3, <2>4, <2>5, <2>6 DEF OperationStep
<1>5. QED
  BY <1>1, <1>3, <1>4 DEF Next, Step

\* A token that was rejected, refreshed or invalidated never returns to the
\* cache, although calls write back entries they read before.
THEOREM EvictionsLast ==
  ASSUME Calm
  PROVE  Spec => []EvictedStaysEvicted
<1>1. Init => EvictedStaysEvicted /\ HandInv
  BY DEF Init, EvictedStaysEvicted, HandInv, NoEntry, InitialEntries
<1>2. TypeOK /\ MutualExclusion /\ EvictedStaysEvicted /\ HandInv /\ [Next]_vars
        => EvictedStaysEvicted' /\ HandInv'
  BY EvictionStep
<1>3. QED
  BY <1>1, <1>2, TypeCorrect, LockExcludes, PTL DEF Spec

-----------------------------------------------------------------------------
(* What a call is handed, whatever dies and whatever is stolen. *)

LEMMA RefreshStep ==
  ASSUME TypeOK, RefreshInv, [Next]_vars
  PROVE  RefreshInv'
<1> USE DEF TypeOK, Goto, Return, RefreshInv, IsForceRefresh
<1>0. 0 <= issued /\ NoEntry.token = 0 /\ CachedEntry.token <= issued
  BY DEF NoEntry, CachedEntry
<1>1. CASE Tick \/ UNCHANGED vars
  BY <1>1 DEF Tick, vars
<1>2. ASSUME NEW p \in Callers, HitWithoutLock(p)
      PROVE  RefreshInv'
  BY <1>2 DEF HitWithoutLock
<1>3. ASSUME NEW p \in Callers, BeginWaiting(p)
      PROVE  RefreshInv'
  <2>1. \A t \in RefreshTargets(p) : t <= issued
    BY <1>0, TargetTypes DEF RefreshTargets
  <2>2. target'[p] <= issued /\ \A q \in Callers \ {p} : target'[q] = target[q]
    BY <1>3, <2>1 DEF BeginWaiting
  <2>3. QED
    BY <1>3, <2>2 DEF BeginWaiting
<1>4. ASSUME NEW p \in Callers, WaiterStep(p) \/ ReleaseLock(p) \/ RemoveOwnLock(p)
             \/ Crash(p)
      PROVE  RefreshInv'
  <2>1. /\ UNCHANGED <<cacheFile, issued, entry, target, request, answer>>
        /\ \A q \in Callers \ {p} : pc'[q] = pc[q]
        /\ pc'[p] \notin {"probeCached", "serve", "probeNew", "store", "idle"}
    BY <1>4 DEF WaiterStep, CreateLockFile,
        WriteLockFile, FindLockTaken, GiveUp, ReadLockToJudgeAge, JudgeLockAge,
        RecheckStaleOwner, RemoveStaleLock, ReleaseLock, AfterReadingOwnLock,
        RemoveOwnLock, Crash
  <2>2. QED
    BY <2>1
<1>5. ASSUME NEW p \in Callers, OperationStep(p)
      PROVE  RefreshInv'
  <2>1. CASE ReadCache(p)
    <3>1. IsForceRefresh(p) /\ AfterReading(p) \in {"probeCached", "serve"}
            => CachedEntry.token # target[p]
      BY DEF AfterReading, RefreshesCurrent
    <3>2. AfterReading(p) \notin {"probeNew", "store", "idle"}
      BY DEF AfterReading
    <3>3. QED
      BY <1>0, <2>1, <3>1, <3>2 DEF ReadCache
  <2>2. CASE ProbeCached(p) \/ MintFails(p) \/ ProbeNew(p) \/ CacheWriteFails(p)
    BY <2>2 DEF ProbeCached, MintFails, ProbeNew, CacheWriteFails
  <2>3. CASE ServeCached(p)
    <3>1. WithVerdict(p).token <= issued
      BY DEF WithVerdict, Entry
    <3>2. QED
      BY <2>3, <3>1 DEF ServeCached
  <2>4. CASE EvictCached(p)
    BY <1>0, <2>4 DEF EvictCached
  <2>5. CASE MintToken(p)
    <3>1. issued' = issued + 1 /\ entry'[p].token = issued + 1
      BY <2>5 DEF MintToken
    <3>2. /\ UNCHANGED <<cacheFile, target, request, answer>>
          /\ \A q \in Callers \ {p} : pc'[q] = pc[q] /\ entry'[q] = entry[q]
          /\ pc'[p] # "idle"
      BY <2>5 DEF MintToken
    <3>3. \A q \in Callers : entry[q].token \in Nat /\ target[q] \in Nat
      BY DEF Entry
    <3>4. QED
      BY <3>1, <3>2, <3>3 DEF Entry
  <2>6. CASE StoreNew(p)
    <3>1. [entry[p] EXCEPT !.expiresAt = NewExpiry(p)].token = entry[p].token
      BY DEF Entry
    <3>2. QED
      BY <2>6, <3>1 DEF StoreNew
  <2>7. QED
    BY <1>5, <2>1, <2>2, <2>3, <2>4, <2>5, <2>6 DEF OperationStep
<1>6. QED
  BY <1>1, <1>2, <1>3, <1>4, <1>5 DEF Next, Step

\* A refresh is never answered with the credential it is about: crashes, stale
\* locks and stolen locks included.
THEOREM RefreshesReplace == Spec => []RefreshReplaces
<1>1. Init => RefreshInv
  BY DEF Init, RefreshInv, InitialEntries, NoEntry
<1>2. TypeOK /\ RefreshInv /\ [Next]_vars => RefreshInv'
  BY RefreshStep
<1>3. RefreshInv => RefreshReplaces
  BY DEF RefreshInv, RefreshReplaces
<1>4. QED
  BY <1>1, <1>2, <1>3, TypeCorrect, PTL DEF Spec

\* An accepting probe counts for its token and policy, and no count shrinks.
LEMMA AcceptCounts ==
  ASSUME TypeOK, NEW p \in Callers, Accept(p), entry[p].token \in Tokens
  PROVE  /\ request[p].policy \in Policies
              => acceptances'[entry[p].token][request[p].policy] >= 1
         /\ \A t \in Tokens, v \in Policies : acceptances'[t][v] >= acceptances[t][v]
<1> DEFINE t0 == entry[p].token
           v0 == request[p].policy
           row == [acceptances[t0] EXCEPT ![v0] = acceptances[t0][v0] + 1]
<1>1. acceptances' = [acceptances EXCEPT ![t0] = row]
  BY DEF Accept
<1>2. acceptances \in [Tokens -> [Policies -> Nat]] /\ t0 \in Tokens
  BY DEF TypeOK
<1>3. /\ v0 \in Policies => row[v0] = acceptances[t0][v0] + 1
      /\ \A v \in Policies : v # v0 => row[v] = acceptances[t0][v]
  BY <1>2
<1> HIDE DEF row, t0, v0
<1>4. acceptances'[t0] = row /\ \A t \in Tokens : t # t0 => acceptances'[t] = acceptances[t]
  BY <1>1, <1>2
<1>5. \A t \in Tokens, v \in Policies : acceptances[t][v] \in Nat
  BY <1>2
<1>6. QED
  BY <1>2, <1>3, <1>4, <1>5 DEF t0, v0

\* A call asks with a policy in use or with none.
LEMMA PolicyTypes ==
  ASSUME TypeOK
  PROVE  /\ \A q \in Callers : request[q].policy \in Policies \cup {NoPolicy}
         /\ \A q \in Callers : entry[q].policy \in Policies \cup {NoPolicy}
         /\ cacheFile.policy \in Policies \cup {NoPolicy}
<1>1. \A q \in Callers : request[q] \in Request
  BY DEF TypeOK
<1>2. QED
  BY <1>1 DEF TypeOK, Request, Entry

LEMMA ValidationStep ==
  ASSUME TypeOK, ValidationInv, [Next]_vars
  PROVE  ValidationInv'
<1> DEFINE InHand == {"probeCached", "serve", "probeNew", "store"}
<1> USE DEF TypeOK, Goto, Return, ValidationInv
<1>1. CASE Tick \/ UNCHANGED vars
  BY <1>1 DEF Tick, vars, Validated, NeedsValidation
<1>2. CachedEntry \in {cacheFile, NoEntry} /\ Validated(NoEntry.token, NoEntry.policy)
  BY DEF CachedEntry, NoEntry, Validated
<1>3. \A q \in Callers : ~NeedsValidation(q, CachedEntry)
                            => Validated(CachedEntry.token, request[q].policy)
  BY <1>2 DEF NeedsValidation, Validated
<1>4. ASSUME NEW p \in Callers, HitWithoutLock(p)
      PROVE  ValidationInv'
  BY <1>3, <1>4 DEF HitWithoutLock, Validated, NeedsValidation
<1>5. ASSUME NEW p \in Callers, BeginWaiting(p) \/ WaiterStep(p) \/ ReleaseLock(p)
             \/ RemoveOwnLock(p) \/ Crash(p)
      PROVE  ValidationInv'
  <2>1. /\ UNCHANGED <<cacheFile, acceptances, entry, request, answer>>
        /\ \A q \in Callers \ {p} : pc'[q] = pc[q]
        /\ pc'[p] \notin InHand
    BY <1>5 DEF BeginWaiting, WaiterStep, CreateLockFile,
        WriteLockFile, FindLockTaken, GiveUp, ReadLockToJudgeAge, JudgeLockAge,
        RecheckStaleOwner, RemoveStaleLock, ReleaseLock, AfterReadingOwnLock,
        RemoveOwnLock, Crash
  <2>2. QED
    BY <2>1 DEF Validated, NeedsValidation
<1>6. ASSUME NEW p \in Callers, OperationStep(p)
      PROVE  ValidationInv'
  <2> USE DEF Validated, NeedsValidation
  <2>1. CASE ReadCache(p)
    <3>1. AfterReading(p) \in {"probeCached", "serve"} => CachedEntry.token \in Tokens
      BY DEF AfterReading, CachedEntry, Entry, Tokens, NoEntry
    <3>2. /\ AfterReading(p) = "probeCached" => NeedsValidation(p, CachedEntry)
          /\ AfterReading(p) = "serve" => ~NeedsValidation(p, CachedEntry)
          /\ AfterReading(p) \notin {"probeNew", "store"}
      BY DEF AfterReading
    <3>3. AfterReading(p) = "serve" => Validated(CachedEntry.token, request[p].policy)
      BY <1>3, <3>2
    <3>4. pc'[p] = AfterReading(p) /\ entry'[p] = CachedEntry
      BY <2>1 DEF ReadCache
    <3>5. /\ UNCHANGED <<cacheFile, acceptances, request, answer>>
          /\ \A q \in Callers \ {p} : pc'[q] = pc[q] /\ entry'[q] = entry[q]
      BY <2>1 DEF ReadCache
    <3>6. QED
      BY <3>1, <3>2, <3>3, <3>4, <3>5
  <2>2. CASE (ProbeCached(p) \/ ProbeNew(p)) /\ Accept(p)
    <3>1. entry[p].token \in Tokens
      BY <2>2 DEF ProbeCached, ProbeNew
    <3>2. /\ request[p].policy \in Policies
               => acceptances'[entry[p].token][request[p].policy] >= 1
          /\ \A t \in Tokens, v \in Policies : acceptances'[t][v] >= acceptances[t][v]
      BY <2>2, <3>1, AcceptCounts
    <3>3. \A t \in Tokens, v \in Policies :
             acceptances[t][v] \in Nat /\ acceptances'[t][v] \in Nat
      BY <2>2, AcceptTypes
    <3>4. \A t, v : v \in Policies \cup {NoPolicy} /\ Validated(t, v)
                    => (v # NoPolicy => t \in Tokens /\ acceptances'[t][v] >= 1)
      BY <3>2, <3>3
    <3>5. /\ UNCHANGED <<cacheFile, request, entry, answer>>
          /\ \A q \in Callers \ {p} : pc'[q] = pc[q]
          /\ pc[p] = "probeCached" => pc'[p] \in {"serve", "evict", "release"}
          /\ pc[p] = "probeNew" => pc'[p] \in {"store", "release"}
          /\ pc[p] \in {"probeCached", "probeNew"}
      BY <2>2 DEF ProbeCached, ProbeNew
    <3>6. Validated(cacheFile.token, cacheFile.policy)'
      BY <3>4, <3>5, PolicyTypes
    <3>7. ASSUME NEW q \in Callers, q # p
          PROVE  /\ pc[q] = "serve" => Validated(entry[q].token, request[q].policy)'
                 /\ pc[q] = "store" => Validated(entry[q].token, entry[q].policy)'
      BY <3>4, <3>5, <3>7, PolicyTypes
    <3>8. \A q \in Callers : answer[q] # 0 => Validated(answer[q], request[q].policy)'
      BY <3>4, <3>5, PolicyTypes
    <3>9. Validated(entry[p].token, request[p].policy)'
      BY <3>1, <3>2, <3>5, PolicyTypes
    <3> HIDE DEF Validated
    <3>10. QED
      BY <3>1, <3>5, <3>6, <3>7, <3>8, <3>9
  <2>3. CASE (ProbeCached(p) \/ ProbeNew(p)) /\ ~Accept(p)
    <3>1. /\ UNCHANGED <<cacheFile, acceptances, request, entry, answer>>
          /\ \A q \in Callers \ {p} : pc'[q] = pc[q]
          /\ pc'[p] \notin InHand
      BY <2>3 DEF ProbeCached, ProbeNew
    <3>2. QED
      BY <3>1
  <2>4. CASE MintFails(p) \/ CacheWriteFails(p)
    BY <2>4 DEF MintFails, CacheWriteFails
  <2>5. CASE ServeCached(p)
    <3>1. /\ UNCHANGED <<acceptances, request, entry>>
          /\ \A q \in Callers \ {p} : pc'[q] = pc[q] /\ answer'[q] = answer[q]
          /\ pc'[p] \notin InHand
          /\ answer'[p] \in {answer[p], entry[p].token}
          /\ cacheFile' \in {cacheFile, WithVerdict(p)}
      BY <2>5 DEF ServeCached
    <3>2. Validated(entry[p].token, request[p].policy)
      BY <2>5 DEF ServeCached
    <3>3. Validated(WithVerdict(p).token, WithVerdict(p).policy)
      BY <3>2, PolicyTypes DEF WithVerdict, Entry
    <3>4. QED
      BY <3>1, <3>2, <3>3
  <2>6. CASE EvictCached(p)
    BY <1>2, <2>6 DEF EvictCached
  <2>7. CASE MintToken(p)
    <3>1. /\ entry'[p].token = issued + 1 /\ entry'[p].policy = request[p].policy
          /\ issued + 1 \in Tokens
      BY <2>7 DEF MintToken, Tokens
    <3>2. /\ UNCHANGED <<cacheFile, acceptances, request, answer>>
          /\ \A q \in Callers \ {p} : pc'[q] = pc[q] /\ entry'[q] = entry[q]
          /\ pc'[p] \in {"store", "probeNew"}
          /\ pc'[p] = "store" => request[p].policy = NoPolicy
      BY <2>7 DEF MintToken
    <3>3. QED
      BY <3>1, <3>2
  <2>8. CASE StoreNew(p)
    <3>1. /\ UNCHANGED <<acceptances, request, entry>>
          /\ \A q \in Callers \ {p} : pc'[q] = pc[q] /\ answer'[q] = answer[q]
          /\ pc'[p] = "release"
          /\ answer'[p] \in {answer[p], entry[p].token}
          /\ cacheFile' = cacheFile \/ (cacheFile'.token = entry[p].token
                                         /\ cacheFile'.policy = entry[p].policy)
      BY <2>8 DEF StoreNew, Entry
    <3>2. Validated(entry[p].token, entry[p].policy) /\ entry[p].policy = request[p].policy
      BY <2>8 DEF StoreNew
    <3>3. QED
      BY <3>1, <3>2
  <2>9. QED
    BY <1>6, <2>1, <2>2, <2>3, <2>4, <2>5, <2>6, <2>7, <2>8
       DEF OperationStep
<1>7. QED
  BY <1>1, <1>4, <1>5, <1>6 DEF Next, Step

\* A call with a validation policy only returns a token that was accepted under
\* that policy: fast path, shared verdicts and steals included.
THEOREM AnswersAreValidated == Spec => []AnswerWasValidated
<1>1. Init => ValidationInv
  <2> SUFFICES ASSUME Init PROVE ValidationInv
    OBVIOUS
  <2>1. Validated(cacheFile.token, cacheFile.policy)
    BY DEF Init, InitialEntries, NoEntry, Validated, Tokens
  <2>2. QED
    BY <2>1 DEF Init, ValidationInv
<1>2. TypeOK /\ ValidationInv /\ [Next]_vars => ValidationInv'
  BY ValidationStep
<1>3. ValidationInv => AnswerWasValidated
  BY DEF ValidationInv, AnswerWasValidated, Validated
<1>4. QED
  BY <1>1, <1>2, <1>3, TypeCorrect, PTL DEF Spec

-----------------------------------------------------------------------------
(* One probe of a token, while the lock is a lock and one policy is in use. *)

\* An accepting probe counts once, for the token in hand and the policy asked for.
LEMMA AcceptAdds ==
  ASSUME TypeOK, NEW p \in Callers, Accept(p), entry[p].token \in Tokens,
         NEW t \in Tokens, NEW v \in Policies
  PROVE  acceptances'[t][v] = IF t = entry[p].token /\ v = request[p].policy
                              THEN acceptances[t][v] + 1 ELSE acceptances[t][v]
<1> DEFINE t0 == entry[p].token
           v0 == request[p].policy
           row == [acceptances[t0] EXCEPT ![v0] = acceptances[t0][v0] + 1]
<1>1. acceptances' = [acceptances EXCEPT ![t0] = row]
  BY DEF Accept
<1>2. acceptances \in [Tokens -> [Policies -> Nat]]
  BY DEF TypeOK
<1>3. row[v] = IF v = v0 THEN acceptances[t0][v] + 1 ELSE acceptances[t0][v]
  BY <1>2
<1> HIDE DEF t0, row
<1>4. acceptances'[t] = IF t = t0 THEN row ELSE acceptances[t]
  BY <1>1, <1>2
<1>. QED  BY <1>3, <1>4 DEF t0

\* A step that is about neither the cache nor a probe.
LEMMA ProbeQuiet ==
  ASSUME ProbeInv, NEW p \in Callers,
         UNCHANGED <<cacheFile, acceptances, issued, request>>,
         \A q \in Callers \ {p} : pc'[q] = pc[q] /\ entry'[q] = entry[q],
         pc[p] \notin {"serve", "evict"},
         pc'[p] \notin {"probeCached", "serve", "probeNew", "store"}
  PROVE  ProbeInv'
<1>1. \A q \in Callers : NeedsValidation(q, entry[q]) /\ q # p => NeedsValidation(q, entry[q])'
  BY DEF NeedsValidation
<1>2. cacheFile'.token # 0 =>
        \A v \in Policies : Accepted(cacheFile.token, v)' =>
          \/ cacheFile'.policy = v
          \/ \E q \in Callers : \/ pc'[q] = "serve" /\ NeedsValidation(q, entry[q])'
                                \/ pc'[q] = "evict"
  BY <1>1 DEF ProbeInv, Accepted
<1>3. \A q \in Callers :
       /\ pc'[q] \in {"probeCached", "serve"} => entry'[q] = cacheFile' /\ entry'[q].token # 0
       /\ pc'[q] = "probeCached" => NeedsValidation(q, entry[q])'
       /\ pc'[q] \in {"probeNew", "store"} =>
            /\ entry'[q].token = issued' /\ cacheFile'.token < issued'
            /\ entry'[q].policy = request'[q].policy
            /\ \A v \in Policies : Accepted(issued, v)' => pc'[q] = "store" /\ entry'[q].policy = v
  BY <1>1 DEF ProbeInv, Accepted
<1>4. /\ OneProbePerToken' /\ cacheFile'.token <= issued'
      /\ \A t \in Tokens, v \in Policies : Accepted(t, v)' => t <= issued'
  BY DEF ProbeInv, Accepted, OneProbePerToken
<1>. QED  BY <1>2, <1>3, <1>4 DEF ProbeInv

\* While p holds the lock, what ProbeInv says is about p.
HandIsTrue(p) ==
  /\ cacheFile.token # 0 =>
       \A v \in Policies : Accepted(cacheFile.token, v) =>
         \/ cacheFile.policy = v
         \/ pc[p] = "serve" /\ NeedsValidation(p, entry[p])
         \/ pc[p] = "evict"
  /\ pc[p] \in {"probeCached", "serve"} => entry[p] = cacheFile /\ entry[p].token # 0
  /\ pc[p] = "probeCached" => NeedsValidation(p, entry[p])
  /\ pc[p] \in {"probeNew", "store"} =>
       /\ entry[p].token = issued /\ cacheFile.token < issued
       /\ entry[p].policy = request[p].policy
       /\ \A v \in Policies : Accepted(issued, v) => pc[p] = "store" /\ entry[p].policy = v
CountsAreTrue ==
  /\ OneProbePerToken
  /\ cacheFile.token <= issued
  /\ \A t \in Tokens, v \in Policies : Accepted(t, v) => t <= issued

LEMMA HolderIsAlone ==
  ASSUME MutualExclusion, ProbeInv, NEW p \in Callers, pc[p] \in HolderAt
  PROVE  HandIsTrue(p) /\ CountsAreTrue
<1>1. \A q \in Callers : pc[q] \in {"serve", "evict"} => q = p
  BY DEF MutualExclusion, HolderAt, OperationAt
<1>. QED  BY <1>1 DEF ProbeInv, HandIsTrue, CountsAreTrue

LEMMA HolderStaysAlone ==
  ASSUME MutualExclusion, NEW p \in Callers, pc[p] \in HolderAt,
         \A q \in Callers \ {p} : pc'[q] = pc[q], HandIsTrue(p)', CountsAreTrue'
  PROVE  ProbeInv'
<1>1. \A q \in Callers \ {p} : pc'[q] \notin {"probeCached", "serve", "evict", "probeNew", "store"}
  BY DEF MutualExclusion, HolderAt, OperationAt
<1>. QED  BY <1>1 DEF ProbeInv, HandIsTrue, CountsAreTrue

LEMMA OperationProbes ==
  ASSUME TypeOK, OnePolicy, MaxFaults = 0, MutualExclusion, ProbeInv,
         NEW p \in Callers, OperationStep(p)
  PROVE  ProbeInv'
<1> USE DEF Goto
<1>0. pc[p] \in HolderAt
  BY DEF OperationStep, ReadCache, ProbeCached, ServeCached, EvictCached, MintToken, MintFails,
         ProbeNew, StoreNew, CacheWriteFails, HolderAt, OperationAt
<1>1. HandIsTrue(p) /\ CountsAreTrue
  BY <1>0, HolderIsAlone
<1>2. /\ UNCHANGED <<now, request>>
      /\ \A q \in Callers \ {p} : pc'[q] = pc[q]
  BY DEF TypeOK, OperationStep, ReadCache, ProbeCached, ServeCached, EvictCached, MintToken, MintFails,
         ProbeNew, StoreNew, CacheWriteFails
<1>3. /\ \A q \in Callers : entry[q] \in Entry
      /\ \A q \in Callers : request[q].policy \in Policies \cup {NoPolicy}
      /\ cacheFile \in Entry /\ issued \in 0 .. MaxTokens /\ issued \in Nat /\ now \in Nat
      /\ \A t \in Tokens, v \in Policies : acceptances[t][v] \in Nat
      /\ NoPolicy \notin Policies
  BY PolicyTypes DEF TypeOK
<1>4. HandIsTrue(p)' /\ CountsAreTrue'
  <2>1. CASE ReadCache(p)
    <3>1. /\ UNCHANGED <<cacheFile, acceptances, issued>> /\ pc[p] = "readCache"
          /\ pc'[p] = AfterReading(p) /\ entry'[p] = CachedEntry
      BY <2>1 DEF ReadCache, TypeOK
    <3>2. CountsAreTrue'
      BY <1>1, <3>1 DEF CountsAreTrue, OneProbePerToken, Accepted
    <3>3. /\ pc'[p] \in {"evict", "mint", "probeCached", "serve"}
          /\ pc'[p] \in {"probeCached", "serve"} => CachedEntry # NoEntry
          /\ pc'[p] = "probeCached" => NeedsValidation(p, CachedEntry)
      BY <3>1 DEF AfterReading
    <3>4. CachedEntry # NoEntry => CachedEntry = cacheFile /\ cacheFile.token # 0
      BY DEF CachedEntry
    <3>5. NeedsValidation(p, entry[p])' <=> NeedsValidation(p, CachedEntry)
      BY <1>2, <3>1 DEF NeedsValidation
    <3>6. HandIsTrue(p)'
      BY <1>1, <3>1, <3>3, <3>4, <3>5 DEF HandIsTrue, Accepted
    <3>. QED  BY <3>2, <3>6
  <2>2. CASE ProbeCached(p)
    <3>0. /\ UNCHANGED <<cacheFile, issued, entry>> /\ pc[p] = "probeCached"
      BY <2>2 DEF ProbeCached
    <3>1. entry[p] = cacheFile /\ entry[p].token \in Tokens /\ NeedsValidation(p, entry[p])
      BY <1>1, <1>3, <3>0 DEF HandIsTrue, Entry, Tokens
    <3>2. CASE UNCHANGED acceptances
      <4>1. pc'[p] \in {"evict", "release"} \/ (Accept(p) /\ pc'[p] = "serve")
        <5>1. pc \in [Callers -> Places]
          BY DEF TypeOK
        <5>. QED  BY <2>2, <5>1 DEF ProbeCached
      <4>2. CountsAreTrue'
        BY <1>1, <3>0, <3>2 DEF CountsAreTrue, OneProbePerToken, Accepted
      <4>3. HandIsTrue(p)'
        BY <1>1, <1>2, <3>0, <3>1, <3>2, <4>1 DEF HandIsTrue, Accepted, NeedsValidation
      <4>. QED  BY <4>2, <4>3
    <3>3. CASE Accept(p) /\ pc'[p] = "serve"
      <4>1. \A t \in Tokens, v \in Policies :
              acceptances'[t][v] = IF t = entry[p].token /\ v = request[p].policy
                                   THEN acceptances[t][v] + 1 ELSE acceptances[t][v]
        BY <3>1, <3>3, AcceptAdds
      <4>2. request[p].policy \in Policies /\ entry[p].policy # request[p].policy
        BY <1>3, <3>1 DEF NeedsValidation
      <4>3. ~Accepted(entry[p].token, request[p].policy)
        BY <1>1, <3>0, <3>1, <4>2 DEF HandIsTrue, Entry, Tokens
      <4>4. acceptances[entry[p].token][request[p].policy] = 0
        BY <1>3, <3>1, <4>2, <4>3 DEF Accepted
      <4>5. CountsAreTrue'
        BY <1>1, <1>3, <3>0, <3>1, <4>1, <4>2, <4>4 DEF CountsAreTrue, OneProbePerToken, Accepted
      <4>6. HandIsTrue(p)'
        BY <1>1, <1>2, <3>0, <3>1, <3>3 DEF HandIsTrue, NeedsValidation
      <4>. QED  BY <4>5, <4>6
    <3>. QED  BY <2>2, <3>2, <3>3 DEF ProbeCached, TypeOK
  <2>3. CASE ServeCached(p)
    <3>0. UNCHANGED <<issued, entry, acceptances>> /\ pc[p] = "serve"
      BY <2>3 DEF ServeCached
    <3>1. entry[p] = cacheFile /\ cacheFile.token # 0
      BY <1>1, <3>0 DEF HandIsTrue
    <3>2. CASE pc'[p] = "evict" /\ UNCHANGED cacheFile
      BY <1>1, <3>0, <3>2 DEF HandIsTrue, CountsAreTrue, OneProbePerToken, Accepted
    <3>3. CASE pc'[p] = "release" /\ cacheFile' = WithVerdict(p)
      <4>1. cacheFile'.token = cacheFile.token
        BY <1>3, <3>1, <3>3 DEF WithVerdict, Entry
      <4>2. CountsAreTrue'
        BY <1>1, <3>0, <4>1 DEF CountsAreTrue, OneProbePerToken, Accepted
      <4>3. NeedsValidation(p, entry[p]) =>
              cacheFile'.policy = request[p].policy /\ request[p].policy \in Policies
        BY <1>3, <3>3 DEF WithVerdict, Entry, NeedsValidation
      <4>4. ~NeedsValidation(p, entry[p]) => cacheFile' = cacheFile
        BY <3>3 DEF WithVerdict
      <4>5. \A v \in Policies : Accepted(cacheFile.token, v) => cacheFile'.policy = v
        BY <1>1, <3>0, <3>1, <4>3, <4>4 DEF HandIsTrue, OnePolicy
      <4>6. HandIsTrue(p)'
        BY <3>0, <3>3, <4>1, <4>5 DEF HandIsTrue, Accepted
      <4>. QED  BY <4>2, <4>6
    <3>. QED  BY <2>3, <3>2, <3>3 DEF ServeCached, TypeOK
  <2>4. CASE EvictCached(p)
    <3>1. /\ UNCHANGED <<issued, acceptances>> /\ cacheFile'.token = 0
          /\ pc'[p] \in {"release", "mint"}
      BY <2>4 DEF EvictCached, NoEntry, TypeOK
    <3>. QED  BY <1>1, <1>3, <3>1 DEF HandIsTrue, CountsAreTrue, OneProbePerToken, Accepted
  <2>5. CASE MintToken(p)
    <3>1. /\ UNCHANGED <<cacheFile, acceptances>> /\ issued' = issued + 1 /\ pc[p] = "mint"
          /\ pc'[p] \in {"store", "probeNew"} /\ issued < MaxTokens
      BY <2>5 DEF MintToken, TypeOK
    <3>2. entry'[p].token = issued' /\ entry'[p].policy = request'[p].policy
      BY <1>2, <2>5, <3>1 DEF MintToken, TypeOK
    <3>3. issued' \in Tokens /\ issued < issued'
      BY <1>3, <3>1 DEF Tokens
    <3>4. CountsAreTrue'
      BY <1>1, <1>3, <3>1 DEF CountsAreTrue, OneProbePerToken, Accepted, Tokens, Entry
    <3>5. \A v \in Policies : ~Accepted(issued, v)'
      BY <1>1, <1>3, <3>1, <3>3 DEF CountsAreTrue, Accepted
    <3>6. cacheFile'.token < issued'
      BY <1>1, <1>3, <3>1 DEF CountsAreTrue, Entry
    <3>7. HandIsTrue(p)'
      BY <1>1, <3>1, <3>2, <3>5, <3>6 DEF HandIsTrue, Accepted
    <3>. QED  BY <3>4, <3>7
  <2>6. CASE MintFails(p)
    <3>1. UNCHANGED <<cacheFile, issued, acceptances>> /\ pc[p] = "mint" /\ pc'[p] = "release"
      BY <2>6 DEF MintFails, TypeOK
    <3>. QED  BY <1>1, <3>1 DEF HandIsTrue, CountsAreTrue, OneProbePerToken, Accepted
  <2>7. CASE ProbeNew(p)
    <3>0. UNCHANGED <<cacheFile, issued, entry>> /\ pc[p] = "probeNew"
      BY <2>7 DEF ProbeNew
    <3>1. /\ entry[p].token = issued /\ cacheFile.token < issued
          /\ entry[p].policy = request[p].policy
          /\ \A v \in Policies : ~Accepted(issued, v)
      BY <1>1, <3>0 DEF HandIsTrue
    <3>2. CASE UNCHANGED acceptances /\ pc'[p] = "release"
      BY <1>1, <3>0, <3>2 DEF HandIsTrue, CountsAreTrue, OneProbePerToken, Accepted
    <3>3. CASE Accept(p) /\ pc'[p] = "store"
      <4>0. issued \in Tokens
        BY <1>3, <3>1 DEF Tokens, Entry
      <4>1. \A t \in Tokens, v \in Policies :
              acceptances'[t][v] = IF t = issued /\ v = request[p].policy
                                   THEN acceptances[t][v] + 1 ELSE acceptances[t][v]
        BY <3>1, <3>3, <4>0, AcceptAdds
      <4>2. \A v \in Policies : acceptances[issued][v] = 0
        BY <1>3, <3>1, <4>0 DEF Accepted
      <4>3. CountsAreTrue'
        BY <1>1, <1>3, <3>0, <4>0, <4>1, <4>2 DEF CountsAreTrue, OneProbePerToken, Accepted
      <4>4. \A v \in Policies : Accepted(issued, v)' => entry'[p].policy = v
        BY <3>0, <3>1, <4>0, <4>1, <4>2 DEF Accepted
      <4>5. cacheFile.token # 0 =>
              \A v \in Policies : Accepted(cacheFile.token, v)' => cacheFile.policy = v
        BY <1>1, <1>3, <3>0, <3>1, <4>1 DEF HandIsTrue, Accepted, Tokens, Entry
      <4>6. HandIsTrue(p)'
        BY <1>2, <3>0, <3>1, <3>3, <4>4, <4>5 DEF HandIsTrue, Accepted
      <4>. QED  BY <4>3, <4>6
    <3>. QED  BY <2>7, <3>2, <3>3 DEF ProbeNew, TypeOK
  <2>8. CASE StoreNew(p)
    <3>0. UNCHANGED <<acceptances, issued, entry>> /\ pc[p] = "store" /\ pc'[p] = "release"
      BY <2>8 DEF StoreNew, TypeOK
    <3>1. /\ entry[p].token = issued
          /\ \A v \in Policies : Accepted(issued, v) => entry[p].policy = v
      BY <1>1, <3>0 DEF HandIsTrue
    <3>2. CASE UNCHANGED cacheFile
      BY <1>1, <3>0, <3>2 DEF HandIsTrue, CountsAreTrue, OneProbePerToken, Accepted
    <3>3. CASE cacheFile' = [entry[p] EXCEPT !.expiresAt = NewExpiry(p)]
      <4>1. cacheFile'.token = issued /\ cacheFile'.policy = entry[p].policy
        BY <1>3, <3>1, <3>3 DEF Entry
      <4>. QED  BY <1>1, <1>3, <3>0, <3>1, <4>1 DEF HandIsTrue, CountsAreTrue, OneProbePerToken, Accepted
    <3>. QED  BY <2>8, <3>2, <3>3 DEF StoreNew
  <2>9. CASE CacheWriteFails(p)
    BY <2>9 DEF CacheWriteFails, TypeOK
  <2>. QED
    BY <2>1, <2>2, <2>3, <2>4, <2>5, <2>6, <2>7, <2>8, <2>9 DEF OperationStep
<1>. QED  BY <1>0, <1>2, <1>4, HolderStaysAlone

LEMMA ProbeStep ==
  ASSUME TypeOK, OnePolicy, Calm, MutualExclusion, ProbeInv, [Next]_vars
  PROVE  ProbeInv'
<1>1. CASE Tick \/ UNCHANGED vars
  <2>1. UNCHANGED <<cacheFile, acceptances, issued, request, pc, entry>>
    BY <1>1 DEF Tick, vars
  <2>. QED  BY <2>1 DEF ProbeInv, OneProbePerToken, Accepted, NeedsValidation
<1>2. ASSUME NEW p \in Callers, HitWithoutLock(p) \/ BeginWaiting(p) \/ WaiterStep(p)
             \/ ReleaseLock(p) \/ RemoveOwnLock(p)
      PROVE  ProbeInv'
  <2>1. /\ UNCHANGED <<cacheFile, acceptances, issued, request, entry>>
        /\ \A q \in Callers \ {p} : pc'[q] = pc[q]
        /\ pc[p] \notin {"serve", "evict"}
        /\ pc'[p] \notin {"probeCached", "serve", "probeNew", "store"}
    BY <1>2 DEF TypeOK, Goto, HitWithoutLock, BeginWaiting, WaiterStep, CreateLockFile, WriteLockFile,
        FindLockTaken, GiveUp, ReadLockToJudgeAge, JudgeLockAge, RecheckStaleOwner,
        RemoveStaleLock, ReleaseLock, AfterReadingOwnLock, RemoveOwnLock
  <2>. QED  BY <2>1, ProbeQuiet
<1>3. ASSUME NEW p \in Callers, OperationStep(p)
      PROVE  ProbeInv'
  BY <1>3, OperationProbes DEF Calm
<1>4. ASSUME NEW p \in Callers, Crash(p)
      PROVE  ProbeInv'
  BY <1>4 DEF Crash, Calm, TypeOK
<1>. QED  BY <1>1, <1>2, <1>3, <1>4 DEF Next, Step

\* "so waiting Playwright workers share one probe": while the lock is a lock, every cache
\* write succeeds and one validation policy is in use, no token is accepted twice, however
\* many calls want it probed.
THEOREM ProbesAreShared ==
  ASSUME Calm, OnePolicy
  PROVE  Spec => []OneProbePerToken
<1>1. Init => ProbeInv
  <2> SUFFICES ASSUME Init PROVE ProbeInv
    OBVIOUS
  <2>1. \A t \in Tokens, v \in Policies :
          acceptances[t][v] = IF t = cacheFile.token /\ v = cacheFile.policy THEN 1 ELSE 0
    BY DEF Init
  <2>2. issued = cacheFile.token /\ issued \in 0 .. MaxTokens
    BY DEF Init, InitialEntries, NoEntry, Entry
  <2>3. \A p \in Callers : pc[p] = "idle"
    BY DEF Init
  <2>4. \A t \in Tokens, v \in Policies : Accepted(t, v) => t = cacheFile.token /\ v = cacheFile.policy
    BY <2>1 DEF Accepted
  <2>5. OneProbePerToken
    BY <2>1 DEF OneProbePerToken
  <2>6. cacheFile.token # 0 => cacheFile.token \in Tokens
    BY <2>2 DEF Tokens
  <2>. QED  BY <2>2, <2>3, <2>4, <2>5, <2>6 DEF ProbeInv
<1>2. TypeOK /\ MutualExclusion /\ ProbeInv /\ [Next]_vars => ProbeInv'
  BY ProbeStep
<1>3. ProbeInv => OneProbePerToken
  BY DEF ProbeInv
<1>. QED  BY <1>1, <1>2, <1>3, TypeCorrect, LockExcludes, PTL DEF Spec
=============================================================================

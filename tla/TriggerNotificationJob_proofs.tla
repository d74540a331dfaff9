-------------------- MODULE TriggerNotificationJob_proofs --------------------
(***************************************************************************)
(* Theorems about TriggerNotificationJob, for requests of any size, chunks   *)
(* of any size and any numbers of attempts, retries and deaths.              *)
(***************************************************************************)
EXTENDS TriggerNotificationJob, TLAPS

USE SizesAssumption, TimesAssumption

-----------------------------------------------------------------------------
(* Type correctness. *)

\* What the provider does with a request keeps the types of what it knows.
LEMMA ReceiveTypes ==
  ASSUME TypeOK, NEW c \in Nat \ {0}, Receive(c)
  PROVE  /\ memory' \subseteq [key : Nat, body : SUBSET Positions, at : Nat]
         /\ notified' \in [Positions -> Nat]
         /\ lastAt' \in Nat
         /\ conflict' \in BOOLEAN
<1>1. [key |-> ChunkKey(c), body |-> ChunkBody(c), at |-> now]
        \in [key : Nat, body : SUBSET Positions, at : Nat]
  <2>1. ChunkBody(c) \subseteq Positions
    BY DEF ChunkBody, Positions, TypeOK, Request
  <2>2. QED
    BY <2>1 DEF ChunkKey, TypeOK
<1>2. memory' \subseteq [key : Nat, body : SUBSET Positions, at : Nat]
  BY <1>1 DEF Receive, TypeOK
<1>3. notified' \in [Positions -> Nat]
  BY DEF Receive, TypeOK
<1>4. lastAt' \in Nat /\ conflict' \in BOOLEAN
  BY DEF Receive, TypeOK
<1>5. QED
  BY <1>2, <1>3, <1>4

LEMMA TypeStep ==
  ASSUME TypeOK, CountsInv, [Next]_vars
  PROVE  TypeOK' /\ CountsInv'
<1> USE DEF TypeOK, CountsInv, Outcomes, Replies, provider
<1>1. CASE StartRun
  BY <1>1 DEF StartRun
<1>2. CASE Validate
  BY <1>2 DEF Validate, Verdict, EndJob
<1>3. CASE Send
  BY <1>3 DEF Send
<1>4. CASE TimeOut
  BY <1>4 DEF TimeOut
<1>5. CASE ChunkSent
  BY <1>5 DEF ChunkSent, EndJob
<1>6. CASE ChunkFailed
  BY <1>6 DEF ChunkFailed, EndJob, Throw
<1>7. CASE ProviderTakes
  BY <1>7, ReceiveTypes DEF ProviderTakes
<1>8. CASE ProviderRefuses
  BY <1>8 DEF ProviderRefuses
<1>9. CASE LateArrival
  <2>1. PICK f \in flying :
          /\ flying' = flying \ {f}
          /\ Receive(f.chunk) \/ UNCHANGED provider
          /\ UNCHANGED <<now, request, outcome, attempts, deaths, pc, started,
                         chunk, tries, reply, sentAt>>
    BY <1>9 DEF LateArrival
  <2>2. f.chunk \in Nat \ {0}
    OBVIOUS
  <2>3. QED
    BY <2>1, <2>2, ReceiveTypes
<1>10. CASE Die
  BY <1>10 DEF Die
<1>11. CASE Tick
  BY <1>11 DEF Tick
<1>12. CASE UNCHANGED vars
  BY <1>12 DEF vars
<1>13. QED
  BY <1>1, <1>2, <1>3, <1>4, <1>5, <1>6, <1>7, <1>8, <1>9, <1>10, <1>11, <1>12
     DEF Next, RunStep

\* The type invariant, with the limits it rests on.
LEMMA TypeInvariant == Spec => [](TypeOK /\ CountsInv)
<1>1. Init => TypeOK /\ CountsInv
  <2> SUFFICES ASSUME Init PROVE TypeOK /\ CountsInv
    OBVIOUS
  <2>1. notified \in [Positions -> Nat]
    BY DEF Init
  <2>2. /\ flying \subseteq [chunk : Nat \ {0}, at : Nat]
        /\ memory \subseteq [key : Nat, body : SUBSET Positions, at : Nat]
    BY DEF Init
  <2>3. CountsInv
    BY DEF Init, CountsInv
  <2>4. /\ now \in Nat /\ started \in Nat /\ sentAt \in Nat /\ lastAt \in Nat
        /\ chunk \in Nat \ {0}
    BY DEF Init
  <2>5. /\ attempts \in 0 .. MaxAttempts /\ deaths \in 0 .. MaxDeaths
        /\ tries \in 0 .. MaxRetries + 1
    BY DEF Init
  <2>6. /\ outcome \in Outcomes /\ reply \in Replies
        /\ pc \in {"idle", "validate", "send", "wait"}
        /\ conflict \in BOOLEAN /\ request \in Request
    BY DEF Init, Outcomes, Replies
  <2>7. QED
    BY <2>1, <2>2, <2>3, <2>4, <2>5, <2>6 DEF TypeOK
<1>2. TypeOK /\ CountsInv /\ [Next]_vars => TypeOK' /\ CountsInv'
  BY TypeStep
<1>3. QED
  BY <1>1, <1>2, PTL DEF Spec

\* Every reachable state of a notification job is well typed; attempts and
\* requests never exceed what the queue and the SDK allow.
THEOREM TypeCorrect == Spec => []TypeOK
BY TypeInvariant, PTL

-----------------------------------------------------------------------------
(* When things happen. *)

LEMMA TimeStep ==
  ASSUME TypeOK, TypeOK', TimeInv, [Next]_vars
  PROVE  TimeInv'
<1> USE DEF TimeInv
<1>0. /\ now \in Nat /\ started \in Nat /\ sentAt \in Nat
      /\ \A f \in flying : f.at \in Nat
      /\ ~IsBroken => request.expiresAt \in Nat
  BY DEF TypeOK, Request, IsBroken
<1>1. CASE StartRun
  BY <1>0, <1>1 DEF StartRun, IsBroken
<1>2. CASE Validate
  BY <1>0, <1>2 DEF Validate, Verdict, EndJob, IsBroken
<1>3. CASE Send
  BY <1>0, <1>3 DEF Send, IsBroken
<1>4. CASE TimeOut
  BY <1>0, <1>4 DEF TimeOut, IsBroken
<1>5. CASE ChunkSent
  BY <1>0, <1>5 DEF ChunkSent, EndJob, IsBroken
<1>6. CASE ChunkFailed
  BY <1>0, <1>6 DEF ChunkFailed, EndJob, Throw, IsBroken
<1>7. CASE ProviderTakes
  BY <1>0, <1>7 DEF ProviderTakes, IsBroken
<1>8. CASE ProviderRefuses
  BY <1>0, <1>8 DEF ProviderRefuses, IsBroken
<1>9. CASE LateArrival
  BY <1>0, <1>9 DEF LateArrival, IsBroken
<1>10. CASE Die
  BY <1>0, <1>10 DEF Die, IsBroken
<1>11. CASE Tick
  BY <1>0, <1>11 DEF Tick, IsBroken
<1>12. CASE UNCHANGED vars
  BY <1>12 DEF vars, IsBroken
<1>13. QED
  BY <1>1, <1>2, <1>3, <1>4, <1>5, <1>6, <1>7, <1>8, <1>9, <1>10, <1>11, <1>12
     DEF Next, RunStep

\* The provider gets no request later than a run and a flight after the expiry.
LEMMA ReceivedInTime ==
  ASSUME TypeOK, TimeInv
  PROVE  /\ pc = "wait" => ~IsBroken /\ now <= request.expiresAt + RunTime + FlightTime
         /\ \A f \in flying :
              ~IsBroken /\ now <= request.expiresAt + RunTime + FlightTime
<1>1. /\ now \in Nat /\ started \in Nat /\ \A f \in flying : f.at \in Nat
      /\ ~IsBroken => request.expiresAt \in Nat
  BY DEF TypeOK, Request, IsBroken
<1>2. QED
  BY <1>1 DEF TimeInv

\* A step in which the provider does not take a request.
LEMMA QuietStep ==
  ASSUME [Next]_vars
  PROVE  /\ request' = request
         /\ \/ UNCHANGED provider
            \/ pc = "wait" /\ Receive(chunk)
            \/ \E f \in flying : Receive(f.chunk) /\ flying' = flying \ {f}
                               /\ now' = now
<1> USE DEF provider
<1>1. CASE RunStep
  BY <1>1 DEF RunStep, StartRun, Validate, Send, TimeOut, ChunkSent, ChunkFailed
<1>2. CASE ProviderTakes \/ ProviderRefuses \/ Die \/ Tick
  BY <1>2 DEF ProviderTakes, ProviderRefuses, Die, Tick
<1>3. CASE LateArrival
  BY <1>3 DEF LateArrival
<1>4. CASE UNCHANGED vars
  BY <1>4 DEF vars
<1>5. QED
  BY <1>1, <1>2, <1>3, <1>4 DEF Next

LEMMA LatenessStep ==
  ASSUME TypeOK, TimeInv, LatenessIsBounded, [Next]_vars
  PROVE  LatenessIsBounded'
<1>1. CASE UNCHANGED provider
  BY <1>1, QuietStep DEF provider, LatenessIsBounded
<1>2. ASSUME NEW c, Receive(c), now <= request.expiresAt + RunTime + FlightTime
      PROVE  LatenessIsBounded'
  BY <1>2, QuietStep DEF Receive, LatenessIsBounded
<1>3. QED
  BY <1>1, <1>2, QuietStep, ReceivedInTime

\* A notification is late by a run and a request at most, because every run
\* looks at expiresAt before it sends.
THEOREM LatenessBounded == Spec => []LatenessIsBounded
<1>1. Init => TimeInv /\ LatenessIsBounded
  <2> SUFFICES ASSUME Init PROVE TimeInv /\ LatenessIsBounded
    OBVIOUS
  <2>1. TimeInv
    BY DEF Init, TimeInv
  <2>2. request.expiresAt # NotATime => request.expiresAt \in Nat
    BY DEF Init, Request
  <2>3. lastAt = 0
    BY DEF Init
  <2>4. QED
    BY <2>1, <2>2, <2>3 DEF LatenessIsBounded
<1>2. TypeOK /\ TypeOK' /\ TimeInv /\ [Next]_vars => TimeInv'
  BY TimeStep
<1>3. TypeOK /\ TimeInv /\ LatenessIsBounded /\ [Next]_vars => LatenessIsBounded'
  BY LatenessStep
<1>4. QED
  BY <1>1, <1>2, <1>3, TypeCorrect, PTL DEF Spec

-----------------------------------------------------------------------------
(* Whom the provider notifies. *)

\* A chunk begins where the chunks before it end.
LEMMA ChunksAreOrdered ==
  ASSUME NEW a \in Nat, NEW b \in Nat, a < b
  PROVE  a * ChunkSize <= (b - 1) * ChunkSize
<1>1. PICK n \in Nat : b - 1 = a + n
  BY Z3
<1>2. (a + n) * ChunkSize = a * ChunkSize + n * ChunkSize
  OBVIOUS
<1>3. n * ChunkSize \in Nat /\ a * ChunkSize \in Nat
  OBVIOUS
<1>4. QED
  BY <1>1, <1>2, <1>3

\* No recipient is in two chunks.
LEMMA ChunksAreDisjoint ==
  ASSUME NEW c \in Nat \ {0}, NEW d \in Nat \ {0}, c # d, request \in Request
  PROVE  ChunkBody(c) \cap ChunkBody(d) = {}
<1>1. ASSUME NEW a \in Nat, NEW b \in Nat, a < b
      PROVE  ChunkBody(a) \cap ChunkBody(b) = {}
  <2>1. a * ChunkSize \in Nat /\ (b - 1) * ChunkSize \in Int
        /\ (a - 1) * ChunkSize \in Int /\ b * ChunkSize \in Nat
    OBVIOUS
  <2>2. request.size \in Nat
    BY DEF Request
  <2>3. QED
    BY ChunksAreOrdered, <1>1, <2>1, <2>2 DEF ChunkBody
<1>2. c < d \/ d < c
  OBVIOUS
<1>3. QED
  BY <1>1, <1>2

\* While keys are remembered for longer than requests can arrive, the provider
\* knows every chunk it ever got.
LEMMA ReceiveRemembered ==
  ASSUME TypeOK, MemoryInv, KeysNeverConflict, NEW c \in Nat \ {0}, Receive(c),
         request' = request, now < RememberFor
  PROVE  MemoryInv' /\ KeysNeverConflict'
<1> DEFINE body == ChunkBody(c)
           known == {m \in memory : m.key = c}
           new == [key |-> c, body |-> body, at |-> now]
<1>0. \A d : ChunkBody(d)' = ChunkBody(d)
  BY DEF ChunkBody
<1>1. Remembered(ChunkKey(c)) = known
  BY DEF Remembered, ChunkKey, TypeOK
<1>2. \A m \in memory : m.key \in Nat \ {0} /\ m.body = ChunkBody(m.key)
  BY DEF MemoryInv, TypeOK
<1>3. CASE known = {}
  <2>1. memory' = memory \cup {new}
    BY <1>1, <1>3 DEF Receive, ChunkKey
  <2>2. notified' = [i \in Positions |-> IF i \in body THEN notified[i] + 1 ELSE notified[i]]
    BY <1>1, <1>3 DEF Receive
  <2>3. \A m \in memory : m.body \cap body = {}
    BY <1>2, <1>3, ChunksAreDisjoint DEF TypeOK
  <2>4. new.body = body /\ new.key = c
    OBVIOUS
  <2>5. \A m \in memory' : m.body = ChunkBody(m.key)' /\ m.key >= 1
    BY <1>0, <1>2, <2>1, <2>4
  <2> HIDE DEF body, known, new
  <2>6. \A i \in Positions :
           notified'[i] = IF \E m \in memory' : i \in m.body THEN 1 ELSE 0
    <3> SUFFICES ASSUME NEW i \in Positions
                 PROVE  notified'[i] = IF \E m \in memory' : i \in m.body THEN 1 ELSE 0
      OBVIOUS
    <3>1. notified[i] = IF \E m \in memory : i \in m.body THEN 1 ELSE 0
      BY DEF MemoryInv
    <3>2. CASE i \in body
      BY <2>1, <2>2, <2>3, <2>4, <3>1, <3>2
    <3>3. CASE i \notin body
      BY <2>1, <2>2, <2>4, <3>1, <3>3
    <3>4. QED
      BY <3>2, <3>3
  <2>7. ~conflict'
    <3>1. Remembered(ChunkKey(c)) = {}
      BY <1>1, <1>3
    <3>2. QED
      BY <3>1 DEF Receive, KeysNeverConflict
  <2>8. QED
    BY <2>5, <2>6, <2>7 DEF MemoryInv, KeysNeverConflict
<1>4. CASE known # {}
  <2>1. memory' = memory /\ notified' = notified
    BY <1>1, <1>4 DEF Receive
  <2>2. \A m \in known : m.body = body
    BY <1>2
  <2>3. ~conflict'
    <3>1. \A m \in Remembered(ChunkKey(c)) : m.body = ChunkBody(c)
      BY <1>1, <2>2
    <3>2. QED
      BY <3>1 DEF Receive, KeysNeverConflict
  <2>4. QED
    BY <1>0, <2>1, <2>3 DEF MemoryInv, KeysNeverConflict
<1>5. QED
  BY <1>3, <1>4

LEMMA MemoryStep ==
  ASSUME RemembersLongEnough, TypeOK, TimeInv, MemoryInv, KeysNeverConflict, [Next]_vars
  PROVE  MemoryInv' /\ KeysNeverConflict'
<1>1. CASE UNCHANGED provider
  BY <1>1, QuietStep DEF provider, MemoryInv, KeysNeverConflict, ChunkBody
<1>2. ASSUME ~IsBroken, now <= request.expiresAt + RunTime + FlightTime
      PROVE  now < RememberFor
  <2>1. request.expiresAt \in ExpiryTimes
    BY <1>2 DEF IsBroken, TypeOK, Request
  <2>2. RememberFor > request.expiresAt + RunTime + FlightTime
    BY <2>1 DEF RemembersLongEnough
  <2>3. now \in Nat /\ request.expiresAt \in Nat
    BY <2>1 DEF TypeOK
  <2>4. QED
    BY <1>2, <2>2, <2>3
<1>3. CASE pc = "wait" /\ Receive(chunk)
  BY <1>2, <1>3, QuietStep, ReceivedInTime, ReceiveRemembered DEF TypeOK
<1>4. ASSUME NEW f \in flying, Receive(f.chunk)
      PROVE  MemoryInv' /\ KeysNeverConflict'
  <2>1. f.chunk \in Nat \ {0}
    BY DEF TypeOK
  <2>2. now < RememberFor
    BY <1>2, ReceivedInTime
  <2>3. QED
    BY <1>4, <2>1, <2>2, QuietStep, ReceiveRemembered
<1>5. QED
  BY <1>1, <1>3, <1>4, QuietStep

LEMMA MemoryInvariant ==
  ASSUME RemembersLongEnough
  PROVE  Spec => [](MemoryInv /\ KeysNeverConflict)
<1>1. Init => TimeInv /\ MemoryInv /\ KeysNeverConflict
  BY DEF Init, TimeInv, MemoryInv, KeysNeverConflict
<1>2. TypeOK /\ TypeOK' /\ TimeInv /\ [Next]_vars => TimeInv'
  BY TimeStep
<1>3. TypeOK /\ TimeInv /\ MemoryInv /\ KeysNeverConflict /\ [Next]_vars
        => MemoryInv' /\ KeysNeverConflict'
  BY MemoryStep
<1>4. QED
  BY <1>1, <1>2, <1>3, TypeCorrect, PTL DEF Spec

\* Nobody is notified twice, however often the job is run and however late its
\* requests arrive, if the provider remembers keys for longer than the
\* notification can be under way.
THEOREM NobodyTwice ==
  ASSUME RemembersLongEnough
  PROVE  Spec => []NotifiedOnce
<1>1. MemoryInv => NotifiedOnce
  BY DEF MemoryInv, NotifiedOnce
<1>2. QED
  BY <1>1, MemoryInvariant, PTL

\* No key ever reaches the provider with two bodies: chunks are cut alike in
\* every run.
THEOREM NoKeyConflicts ==
  ASSUME RemembersLongEnough
  PROVE  Spec => []KeysNeverConflict
BY MemoryInvariant, PTL

-----------------------------------------------------------------------------
(* The job implements NotificationDelivery. *)

\* A chunk the provider has not seen, with all before it seen, is a step of the abstract
\* specification: those before it have been notified, its own recipients are now, and nobody
\* after it.
LEMMA ReceiveDelivers ==
  ASSUME TypeOK, KnownPrefix, NotifiedPrefix, NEW c \in Nat \ {0}, Receive(c),
         (c - 1) * ChunkSize < request.size, \A d \in 1 .. c - 1 : Known(d),
         request' = request, now < RememberFor
  PROVE  /\ KnownPrefix' /\ NotifiedPrefix' /\ Known(c)'
         /\ \A d : Known(d) => Known(d)'
         /\ outcome' = outcome => [Delivery!Next]_(Delivery!delivery)
<1> DEFINE known == {m \in memory : m.key = c}
           new == [key |-> c, body |-> ChunkBody(c), at |-> now]
           start == (c - 1) * ChunkSize
           end == c * ChunkSize
<1>0. /\ start \in Nat /\ end \in Nat /\ end = start + ChunkSize
      /\ request.size \in Nat /\ request.size <= MaxRecipients
  <2>1. (c - 1) * ChunkSize \in Nat /\ c * ChunkSize \in Nat
    OBVIOUS
  <2>2. c * ChunkSize = (c - 1) * ChunkSize + ChunkSize
    OBVIOUS
  <2>3. QED
    BY <2>1, <2>2 DEF TypeOK, Request
<1>1. Remembered(ChunkKey(c)) = known
  BY DEF Remembered, ChunkKey, TypeOK
<1>2. CASE known # {}
  <2>1. UNCHANGED <<memory, notified>>
    BY <1>1, <1>2 DEF Receive
  <2>2. Known(c)
    BY <1>2 DEF Known
  <2>3. QED
    BY <2>1, <2>2 DEF KnownPrefix, NotifiedPrefix, Known, Delivery!delivery
<1>3. CASE known = {}
  <2>1. memory' = memory \cup {new}
    BY <1>1, <1>3 DEF Receive, ChunkKey
  <2>2. \A i \in Positions : notified'[i] = IF i \in ChunkBody(c) THEN notified[i] + 1
                                                               ELSE notified[i]
    BY <1>1, <1>3 DEF Receive
  <2>3. \A m \in memory : m.key \in Nat /\ m.key < c
    BY <1>3 DEF KnownPrefix, Known, TypeOK
  <2>4. \A m \in memory : m.key * ChunkSize \in Nat /\ m.key * ChunkSize <= start
    BY <2>3, ChunksAreOrdered
  <2>5. start > 0 => \E m \in memory : m.key * ChunkSize = start
    <3>1. start > 0 => c - 1 \in 1 .. c - 1
      OBVIOUS
    <3>2. QED
      BY <3>1 DEF Known
  <2>6. new.key = c
    OBVIOUS
  <2>7. \A d : Known(d) => Known(d)'
    BY <2>1 DEF Known
  <2>8. Known(c)'
    BY <2>1, <2>6 DEF Known
  <2>9. KnownPrefix'
    <3> SUFFICES ASSUME NEW m \in memory', NEW d \in 1 .. m.key
                 PROVE  Known(d)'
      BY DEF KnownPrefix
    <3>1. CASE m \in memory
      BY <2>7, <3>1 DEF KnownPrefix
    <3>2. CASE m = new
      BY <2>6, <2>7, <2>8, <3>2
    <3>3. QED
      BY <2>1, <3>1, <3>2
  <2>10. ASSUME NEW i \in Positions
         PROVE  /\ notified[i] = IF i <= start THEN 1 ELSE 0
                /\ notified'[i] = IF i <= end /\ i <= request.size THEN 1 ELSE 0
    <3>1. i \in Nat \ {0}
      BY DEF Positions
    <3>2. (\E m \in memory : i <= m.key * ChunkSize) <=> i <= start
      BY <1>0, <2>4, <2>5, <3>1
    <3>3. notified[i] = IF i <= start THEN 1 ELSE 0
      BY <1>0, <3>1, <3>2 DEF NotifiedPrefix
    <3>4. i \in ChunkBody(c) <=> start < i /\ i <= end /\ i <= request.size
      BY <1>0, <3>1 DEF ChunkBody
    <3>5. QED
      BY <1>0, <2>2, <3>1, <3>3, <3>4
  <2>11. NotifiedPrefix'
    <3> SUFFICES ASSUME NEW i \in Positions
                 PROVE  notified'[i] = IF i <= request.size /\ \E m \in memory' : i <= m.key * ChunkSize
                                       THEN 1 ELSE 0
      BY DEF NotifiedPrefix
    <3>1. (\E m \in memory' : i <= m.key * ChunkSize) <=> i <= end
      <4>1. i \in Nat
        BY DEF Positions
      <4>2. new \in memory' /\ new.key * ChunkSize = end
        BY <2>1, <2>6
      <4>3. \A m \in memory' : m.key * ChunkSize \in Nat /\ m.key * ChunkSize <= end
        BY <1>0, <2>1, <2>4, <4>2
      <4>4. QED
        BY <4>1, <4>2, <4>3, <1>0
    <3>2. QED
      BY <2>10, <3>1
  <2>12. outcome' = outcome => Delivery!Next
    <3> DEFINE first == start + 1
               last == IF end <= request.size THEN end ELSE request.size
    <3>1. /\ first \in Positions /\ last \in Positions
          /\ first <= last /\ last <= request.size
      BY <1>0 DEF Positions
    <3>2. ASSUME NEW i \in Positions
          PROVE  /\ notified[i] = IF i < first THEN 1 ELSE 0
                 /\ notified'[i] = IF i <= last THEN 1 ELSE 0
      <4>1. i \in Nat
        BY DEF Positions
      <4>2. (i < first <=> i <= start) /\ (i <= last <=> i <= end /\ i <= request.size)
        BY <1>0, <4>1
      <4>3. QED
        BY <2>10, <4>2
    <3>3. notified' = [i \in Positions |-> notified'[i]]
      BY <1>1, <1>3 DEF Receive
    <3> HIDE DEF first, last
    <3>4. \A i \in Positions : notified[i] = IF i < first THEN 1 ELSE 0
      BY <3>2
    <3>5. notified' = [i \in Positions |-> IF i <= last THEN 1 ELSE 0]
      BY <3>2, <3>3
    <3>6. QED
      BY <3>1, <3>4, <3>5 DEF Delivery!Next, Delivery!Notify
  <2>13. QED
    BY <2>7, <2>8, <2>9, <2>11, <2>12
<1>4. QED
  BY <1>2, <1>3

\* A step of the job is one of NotificationDelivery or does not concern it.
LEMMA RefinementStep ==
  ASSUME RemembersLongEnough, TypeOK, CountsInv, TimeInv, PrefixInv, [Next]_vars
  PROVE  PrefixInv' /\ [Delivery!Next]_(Delivery!delivery)
<1> USE DEF TypeOK
<1>0. /\ request.size \in Nat /\ chunk \in Nat \ {0} /\ 0 * ChunkSize = 0
      /\ request.size = 0 => IsBroken
  BY DEF Request, IsBroken
<1>1. ASSUME UNCHANGED <<request, memory, notified>>, SentInOrder'
      PROVE  PrefixInv'
  BY <1>1 DEF PrefixInv, KnownPrefix, NotifiedPrefix, Known
<1>2. ASSUME UNCHANGED memory
      PROVE  \A c : Known(c)' <=> Known(c)
  BY <1>2 DEF Known
<1>3. ASSUME NEW c \in Nat \ {0}, Receive(c), request' = request, outcome' = outcome,
             (c - 1) * ChunkSize < request.size, \A d \in 1 .. c - 1 : Known(d),
             pc = "wait" \/ flying # {}
      PROVE  /\ KnownPrefix' /\ NotifiedPrefix' /\ Known(c)'
             /\ \A d : Known(d) => Known(d)'
             /\ [Delivery!Next]_(Delivery!delivery)
  <2>1. ~IsBroken /\ now <= request.expiresAt + RunTime + FlightTime
    BY <1>3, ReceivedInTime
  <2>2. request.expiresAt \in ExpiryTimes
    BY <2>1 DEF IsBroken, Request
  <2>3. now < RememberFor
    <3>1. RememberFor > request.expiresAt + RunTime + FlightTime
      BY <2>2 DEF RemembersLongEnough
    <3>2. now \in Nat /\ request.expiresAt \in Nat
      BY <2>2
    <3>3. QED
      BY <2>1, <3>1, <3>2
  <2>4. QED
    BY <1>3, <2>3, ReceiveDelivers DEF PrefixInv
<1>4. CASE StartRun \/ Send \/ TimeOut \/ ProviderRefuses \/ Die \/ Tick
  <2>1. UNCHANGED <<request, memory, notified, outcome>>
    BY <1>4 DEF StartRun, Send, TimeOut, ProviderRefuses, Die, Tick, provider
  <2>2. SentInOrder'
    BY <1>2, <1>4, <2>1 DEF StartRun, Send, TimeOut, ProviderRefuses, Die, Tick, SentInOrder,
                            PrefixInv
  <2>3. QED
    BY <1>1, <2>1, <2>2 DEF Delivery!delivery
<1>5. CASE Validate
  <2>1. UNCHANGED <<request, memory, notified, flying>>
    BY <1>5 DEF Validate, provider
  <2>2. SentInOrder'
    BY <1>0, <1>2, <1>5, <2>1 DEF Validate, Verdict, EndJob, SentInOrder, PrefixInv
  <2>3. outcome' = outcome \/ (outcome = "pending" /\ outcome' \in Delivery!Dropped)
    BY <1>5 DEF Validate, Verdict, EndJob, CountsInv, Delivery!Dropped
  <2>4. QED
    BY <1>1, <2>1, <2>2, <2>3 DEF Delivery!delivery, Delivery!Next, Delivery!Drop
<1>6. CASE ChunkFailed
  <2>1. UNCHANGED <<request, memory, notified, flying, chunk>>
    BY <1>6 DEF ChunkFailed, provider
  <2>2. SentInOrder'
    BY <1>2, <1>6, <2>1 DEF ChunkFailed, Throw, EndJob, SentInOrder, PrefixInv
  <2>3. outcome' = outcome \/ (outcome = "pending" /\ outcome' \in Delivery!Dropped)
    BY <1>6 DEF ChunkFailed, Throw, EndJob, CountsInv, Delivery!Dropped
  <2>4. QED
    BY <1>1, <2>1, <2>2, <2>3 DEF Delivery!delivery, Delivery!Next, Delivery!Drop
<1>7. CASE ChunkSent
  <2>1. UNCHANGED <<request, memory, notified, flying>>
    BY <1>7 DEF ChunkSent, provider
  <2>2. /\ pc = "wait" /\ Known(chunk)
        /\ \A d \in 1 .. chunk - 1 : Known(d)
    BY <1>7 DEF ChunkSent, SentInOrder, PrefixInv
  <2>3. CASE ~IsLastChunk(chunk)
    <3>1. pc' = "send" /\ chunk' = chunk + 1 /\ outcome' = outcome
      BY <1>7, <2>3 DEF ChunkSent
    <3>2. (chunk' - 1) * ChunkSize < request.size
      <4>1. chunk * ChunkSize \in Nat
        BY <1>0
      <4>2. chunk' - 1 = chunk
        BY <1>0, <3>1
      <4>3. QED
        BY <1>0, <2>3, <4>1, <4>2 DEF IsLastChunk
    <3>3. \A d \in 1 .. chunk' - 1 : Known(d)
      BY <1>0, <2>2, <3>1
    <3>4. SentInOrder'
      BY <1>2, <2>1, <3>1, <3>2, <3>3 DEF SentInOrder, PrefixInv
    <3>5. QED
      BY <1>1, <2>1, <3>1, <3>4 DEF Delivery!delivery
  <2>4. CASE IsLastChunk(chunk)
    <3>1. pc' = "idle" /\ outcome' = "sent" /\ outcome = "pending"
      BY <1>7, <2>2, <2>4 DEF ChunkSent, EndJob, CountsInv
    <3>2. SentInOrder'
      BY <1>2, <2>1, <3>1 DEF SentInOrder, PrefixInv
    <3>3. \A i \in Positions : i <= request.size => notified[i] = 1
      <4> SUFFICES ASSUME NEW i \in Positions, i <= request.size PROVE notified[i] = 1
        OBVIOUS
      <4>1. PICK m \in memory : m.key = chunk
        BY <2>2 DEF Known
      <4>2. i \in Nat /\ chunk * ChunkSize \in Nat /\ request.size <= chunk * ChunkSize
        BY <1>0, <2>4 DEF IsLastChunk, Positions
      <4>3. i <= m.key * ChunkSize
        BY <1>0, <4>1, <4>2
      <4>4. QED
        BY <4>3 DEF NotifiedPrefix, PrefixInv
    <3>4. QED
      BY <1>1, <2>1, <3>1, <3>2, <3>3 DEF Delivery!Next, Delivery!Succeed
  <2>5. QED
    BY <2>3, <2>4
<1>8. CASE ProviderTakes
  <2>1. /\ pc = "wait" /\ Receive(chunk)
        /\ UNCHANGED <<request, outcome, pc, chunk, flying>>
    BY <1>8 DEF ProviderTakes
  <2>2. (chunk - 1) * ChunkSize < request.size /\ \A d \in 1 .. chunk - 1 : Known(d)
    BY <2>1 DEF SentInOrder, PrefixInv
  <2>3. /\ KnownPrefix' /\ NotifiedPrefix' /\ Known(chunk)'
        /\ \A d : Known(d) => Known(d)'
        /\ [Delivery!Next]_(Delivery!delivery)
    BY <1>0, <1>3, <2>1, <2>2
  <2>4. SentInOrder'
    BY <2>1, <2>3 DEF SentInOrder, PrefixInv, Known
  <2>5. QED
    BY <2>3, <2>4 DEF PrefixInv
<1>9. CASE LateArrival
  <2>1. PICK f \in flying :
          /\ flying' = flying \ {f}
          /\ Receive(f.chunk) \/ UNCHANGED provider
          /\ UNCHANGED <<request, outcome, pc, chunk, reply>>
    BY <1>9 DEF LateArrival
  <2>2. CASE UNCHANGED provider
    <3>1. UNCHANGED <<request, memory, notified, outcome>>
      BY <2>1, <2>2 DEF provider
    <3>2. SentInOrder'
      BY <1>2, <2>1, <3>1 DEF SentInOrder, PrefixInv
    <3>3. QED
      BY <1>1, <3>1, <3>2 DEF Delivery!delivery
  <2>3. CASE Receive(f.chunk)
    <3>1. /\ (f.chunk - 1) * ChunkSize < request.size
          /\ \A d \in 1 .. f.chunk - 1 : Known(d)
      BY DEF SentInOrder, PrefixInv
    <3>2. /\ KnownPrefix' /\ NotifiedPrefix'
          /\ \A d : Known(d) => Known(d)'
          /\ [Delivery!Next]_(Delivery!delivery)
      BY <1>3, <2>1, <2>3, <3>1
    <3>3. SentInOrder'
      BY <2>1, <3>2 DEF SentInOrder, PrefixInv
    <3>4. QED
      BY <3>2, <3>3 DEF PrefixInv
  <2>4. QED
    BY <2>1, <2>2, <2>3
<1>10. CASE UNCHANGED vars
  <2>1. UNCHANGED <<request, memory, notified, outcome, pc, chunk, reply, flying>>
    BY <1>10 DEF vars
  <2>2. SentInOrder'
    BY <1>2, <2>1 DEF SentInOrder, PrefixInv
  <2>3. QED
    BY <1>1, <2>1, <2>2 DEF Delivery!delivery
<1>11. QED
  BY <1>4, <1>5, <1>6, <1>7, <1>8, <1>9, <1>10 DEF Next, RunStep

\* The job keeps the promise of NotificationDelivery, however it is cut into chunks, run
\* again and overtaken by its own late requests: recipients are notified in the order of
\* the request, each at most once, and a job that ends as sent has notified them all.
THEOREM PromiseKept ==
  ASSUME RemembersLongEnough
  PROVE  Spec => KeepsPromise
<1>1. Init => TimeInv /\ PrefixInv /\ Delivery!Init
  <2> SUFFICES ASSUME Init PROVE TimeInv /\ PrefixInv /\ Delivery!Init
    OBVIOUS
  <2>1. TimeInv
    BY DEF Init, TimeInv
  <2>2. PrefixInv
    BY DEF Init, PrefixInv, KnownPrefix, SentInOrder, NotifiedPrefix
  <2>3. request.size \in {0} \cup Positions
    BY DEF Init, Request, Positions
  <2>4. QED
    BY <2>1, <2>2, <2>3 DEF Init, Delivery!Init
<1>2. TypeOK /\ TypeOK' /\ TimeInv /\ [Next]_vars => TimeInv'
  BY TimeStep
<1>3. TypeOK /\ CountsInv /\ TimeInv /\ PrefixInv /\ [Next]_vars
        => PrefixInv' /\ [Delivery!Next]_(Delivery!delivery)
  BY RefinementStep
<1>4. QED
  BY <1>1, <1>2, <1>3, TypeInvariant, PTL DEF Spec, KeepsPromise, Delivery!Spec
=============================================================================

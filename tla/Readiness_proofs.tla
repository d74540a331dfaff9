-------------------------- MODULE Readiness_proofs --------------------------
(***************************************************************************)
(* What Retry guarantees for every set of calls and modes: RetryInv is     *)
(* inductive, and the properties follow from it.  And what the waits of    *)
(* Readiness guarantee, for every set of calls, modes, assets, mails and   *)
(* requests: whoever waits, waits by the steps of Retry, so that the       *)
(* theorems about Retry hold of it.                                        *)
(***************************************************************************)
EXTENDS Readiness, FiniteSetTheorems, SequenceTheorems, WellFoundedInduction, TLAPS

-----------------------------------------------------------------------------
(* Retry. *)

\* The fields of a mode.
LEMMA ModeFields ==
  ASSUME NEW m \in Modes
  PROVE  /\ m.kind \in Kinds /\ m.hooked \in BOOLEAN
         /\ m.kind = "poll" =>
              m.timeout \in Int /\ m.intervals \in Seq(Int) /\ m.classifies \in BOOLEAN
         /\ m.kind # "poll" =>
              m.maxAttempts \in Int /\ m.delays \in SUBSET Int /\ m.computed \in BOOLEAN
BY RetryAssumption DEF ModeType, Kinds

\* The timer of a race is set to a time to come.
LEMMA BudgetIsLater ==
  ASSUME RetryTypeOK, ClocksInv, NEW m \in Modes, NEW from \in Nat
  PROVE  /\ Budget(m, from) \in Nat
         /\ m.kind = "poll" =>
              /\ Budget(m, from) + 1 >= from + m.timeout
              /\ Budget(m, from) >= loop + 1
              /\ Budget(m, from) <= Larger(from + m.timeout, loop + 1)
              /\ now < from + m.timeout => Budget(m, from) <= from + m.timeout
BY ModeFields DEF RetryTypeOK, ClocksInv, Budget, Larger

\* A failure is judged by one of four answers.
LEMMA ReasonsKnown ==
  ASSUME NEW c \in Calls
  PROVE  TerminalReason(c) \in Reasons \cup {"go on"}
BY DEF TerminalReason, Reasons

\* A delay is a number of milliseconds.
LEMMA DelaysAreNumbers ==
  ASSUME RetryTypeOK, NEW c \in Calls, ValidMode(mode[c]), attempt[c] >= 1,
         NEW d \in RetryDelays(c)
  PROVE  d \in Int
<1>. mode[c] \in Modes /\ attempt[c] \in Nat /\ now \in Nat /\ since[c] \in Nat
  BY DEF RetryTypeOK
<1>1. CASE ~Polls(c)
  BY <1>1, ModeFields DEF RetryDelays, Polls
<1>2. CASE Polls(c)
  <2>. DEFINE ints == mode[c].intervals
              k == Smaller(attempt[c], Len(ints))
  <2>1. ints \in Seq(Int) /\ ints # <<>> /\ mode[c].timeout \in Int
    BY <1>2, ModeFields DEF Polls, ValidMode
  <2>2. Len(ints) \in Nat /\ Len(ints) >= 1
    BY <2>1, EmptySeq, LenProperties
  <2>3. k \in 1 .. Len(ints)
    BY <2>2 DEF Smaller
  <2>4. ints[k] \in Int
    BY <2>1, <2>3, ElementOfSeq
  <2>5. Larger(mode[c].timeout - Elapsed(c), 0) \in Int
    BY <2>1 DEF Larger, Elapsed
  <2>6. d = Smaller(ints[k], Larger(mode[c].timeout - Elapsed(c), 0))
    BY <1>2 DEF RetryDelays
  <2>. QED  BY <2>4, <2>5, <2>6 DEF Smaller
<1>. QED  BY <1>1, <1>2

\* RetryErrors and values are results.
LEMMA ResultsTyped ==
  ASSUME RetryTypeOK, NEW c \in Calls
  PROVE  /\ Value(attempt[c]) \in ResultType
         /\ \A reason \in Reasons : error[c] # "none" =>
              RetryError(reason, attempt[c], Elapsed(c), error[c]) \in ResultType
         /\ {NoResult, Raised, Refused} \subseteq ResultType
BY DEF RetryTypeOK, ResultType, Value, RetryError, Elapsed, Errors

-----------------------------------------------------------------------------
\* The first state.
LEMMA RetryInvInit == RetryInit => RetryInv
<1>. SUFFICES ASSUME RetryInit PROVE RetryInv
  OBVIOUS
<1>1. RetryTypeOK
  BY RetryAssumption DEF RetryInit, RetryTypeOK, ResultType
<1>2. ClocksInv
  BY DEF RetryInit, ClocksInv
<1>3. ASSUME NEW c \in Calls PROVE CallInv(c)
  <2>. pc[c] = "idle" /\ live[c] = {} /\ since[c] = 0 /\ now = 0 /\ result[c] = NoResult
    BY DEF RetryInit
  <2>1. AttemptsOf(c) /\ FailuresOf(c) /\ TimersOf(c)
    BY DEF AttemptsOf, FailuresOf, TimersOf, Active
  <2>2. ReasonIsTrue(c)
    BY DEF ReasonIsTrue, NoResult
  <2>. QED  BY <2>1, <2>2 DEF CallInv
<1>. QED  BY <1>1, <1>2, <1>3 DEF RetryInv

\* The state of call x is as it was.
Same(x) ==
  /\ mode'[x] = mode[x] /\ pc'[x] = pc[x] /\ since'[x] = since[x]
  /\ attempt'[x] = attempt[x] /\ live'[x] = live[x] /\ aborted'[x] = aborted[x]
  /\ error'[x] = error[x] /\ due'[x] = due[x] /\ result'[x] = result[x]

\* A step of one call disturbs no other.
LEMMA OtherCalls ==
  ASSUME RetryInv, NEW c \in Calls, UNCHANGED <<now, loop>>,
         \A x \in Calls \ {c} : Same(x), RetryTypeOK', CallInv(c)'
  PROVE  RetryInv'
<1>1. ASSUME NEW x \in Calls, x # c PROVE CallInv(x)'
  <2>. CallInv(x) /\ Same(x) /\ now' = now /\ loop' = loop
    BY <1>1 DEF RetryInv
  <2>1. AttemptsOf(x)'
    BY DEF CallInv, AttemptsOf, Same
  <2>2. FailuresOf(x)'
    BY DEF CallInv, FailuresOf, Same, Active, Polls
  <2>3. TimersOf(x)'
    BY DEF CallInv, TimersOf, Same, Active, Polls
  <2>4. ReasonIsTrue(x)'
    BY DEF CallInv, ReasonIsTrue, Same
  <2>. QED  BY <2>1, <2>2, <2>3, <2>4 DEF CallInv
<1>2. ClocksInv'
  BY DEF RetryInv, ClocksInv
<1>. QED  BY <1>1, <1>2 DEF RetryInv

\* A call begins.
LEMMA CallKeepsInv ==
  ASSUME RetryInv, NEW c \in Calls, NEW m \in Modes, Call(c, m)
  PROVE  RetryInv'
<1>0. RetryTypeOK /\ ClocksInv /\ now \in Nat /\ loop \in Nat /\ LateBy \in Nat
  BY RetryAssumption DEF RetryInv, RetryTypeOK
<1>1. /\ Budget(m, now) \in Nat
      /\ m.kind = "poll" /\ m.timeout > 0 =>
           /\ Budget(m, now) + 1 >= now + m.timeout
           /\ Budget(m, now) >= loop + 1
           /\ Budget(m, now) <= now + m.timeout
  BY <1>0, BudgetIsLater, ModeFields
<1>2. RetryTypeOK'
  BY <1>0, <1>1, ResultsTyped DEF RetryTypeOK, Call, End
<1>3. /\ mode'[c] = m /\ since'[c] = now /\ pc'[c] \in {"operation", "done"}
      /\ pc'[c] = "operation" =>
           ValidMode(m) /\ attempt'[c] = 1 /\ live'[c] = {1} /\ due'[c] = Budget(m, now)
      /\ pc'[c] = "done" => live'[c] = {}
      /\ result'[c] \in {NoResult, Refused}
  BY <1>0 DEF RetryTypeOK, Call, End
<1>4. /\ m.kind # "poll" /\ ValidMode(m) => 1 <= m.maxAttempts
      /\ m.kind = "poll" /\ ValidMode(m) => m.timeout > 0 /\ m.timeout \in Int
  BY ModeFields DEF ValidMode
<1>5. AttemptsOf(c)'
  BY <1>3 DEF AttemptsOf
<1>6. FailuresOf(c)'
  BY <1>3, <1>4 DEF FailuresOf, Active, Polls, ValidMode
<1>7. TimersOf(c)'
  BY <1>0, <1>1, <1>3, <1>4 DEF TimersOf, Active, Polls, Call
<1>8. ReasonIsTrue(c)'
  BY <1>3 DEF ReasonIsTrue, NoResult, Refused
<1>9. UNCHANGED <<now, loop>> /\ \A x \in Calls \ {c} : Same(x)
  BY <1>0 DEF RetryTypeOK, Call, End, Same
<1>. QED  BY <1>2, <1>5, <1>6, <1>7, <1>8, <1>9, OtherCalls DEF CallInv

\* The invariant of one call, with the types and facts that its steps need.
LEMMA OfCall ==
  ASSUME RetryInv, NEW c \in Calls
  PROVE  /\ RetryTypeOK /\ ClocksInv
         /\ AttemptsOf(c) /\ FailuresOf(c) /\ TimersOf(c) /\ ReasonIsTrue(c)
         /\ now \in Nat /\ loop \in Nat /\ LateBy \in Nat
         /\ mode[c] \in Modes /\ since[c] \in Nat /\ attempt[c] \in Nat /\ due[c] \in Nat
         /\ live[c] \in SUBSET Nat /\ aborted[c] \in SUBSET Nat
         /\ error[c] \in Errors \cup {"none"}
         /\ Polls(c) => mode[c].timeout \in Int
         /\ ~Polls(c) => mode[c].maxAttempts \in Int
         /\ mode[c].kind \in Kinds
<1>1. mode[c] \in Modes
  BY DEF RetryInv, RetryTypeOK
<1>. QED  BY <1>1, RetryAssumption, ModeFields DEF RetryInv, CallInv, RetryTypeOK, Polls

\* The timer that a race of call c sets.
LEMMA OwnBudget ==
  ASSUME RetryInv, NEW c \in Calls
  PROVE  /\ Budget(mode[c], since[c]) \in Nat
         /\ Polls(c) =>
              /\ Budget(mode[c], since[c]) + 1 >= since[c] + mode[c].timeout
              /\ Budget(mode[c], since[c]) >= loop + 1
              /\ \/ Budget(mode[c], since[c]) <= since[c] + mode[c].timeout
                 \/ Budget(mode[c], since[c]) = loop + 1
              /\ Elapsed(c) < mode[c].timeout =>
                   Budget(mode[c], since[c]) <= since[c] + mode[c].timeout
BY OfCall DEF ClocksInv, Budget, Larger, Elapsed, Polls

\* The reason of a RetryError is true when the call's state bears it out.
LEMMA TrueReasons ==
  ASSUME RetryInv, NEW c \in Calls, NEW reason \in Reasons,
         Fail(c, reason), UNCHANGED <<now, mode, since, attempt, error>>,
         reason = "attempts-exhausted" =>
           /\ ~Polls(c) /\ attempt[c] = mode[c].maxAttempts /\ error[c] = "transient",
         reason = "non-transient" => error[c] = "deterministic",
         reason = "timeout" => Polls(c) /\ Elapsed(c) + 1 >= mode[c].timeout
  PROVE  ReasonIsTrue(c)'
<1>1. result'[c] = RetryError(reason, attempt[c], Elapsed(c), error[c])
  BY DEF RetryInv, RetryTypeOK, Fail, End
<1>2. mode[c].kind \in Kinds
  BY OfCall
<1>3. /\ result'[c].reason = reason /\ result'[c].attempts = attempt[c]
      /\ result'[c].elapsed = Elapsed(c) /\ result'[c].cause = error[c]
  BY <1>1 DEF RetryError
<1>4. mode'[c] = mode[c]
  OBVIOUS
<1>5. CASE reason = "attempts-exhausted"
  BY <1>2, <1>3, <1>4, <1>5 DEF ReasonIsTrue, Polls, Kinds
<1>6. CASE reason = "non-transient"
  BY <1>3, <1>6 DEF ReasonIsTrue
<1>7. CASE reason = "timeout"
  BY <1>3, <1>4, <1>7 DEF ReasonIsTrue, Polls
<1>. QED  BY <1>5, <1>6, <1>7 DEF Reasons

\* A call that is over: what is in flight has been told so.
LEMMA EndedCall ==
  ASSUME RetryInv, NEW c \in Calls, pc'[c] = "done",
         UNCHANGED <<now, since>>, ReasonIsTrue(c)',
         live'[c] = {} \/ (live'[c] = live[c] /\ attempt'[c] = attempt[c] /\ attempt[c] \in aborted'[c])
           \/ (live'[c] = live[c] /\ UNCHANGED <<attempt, aborted>> /\ pc[c] # "operation")
  PROVE  CallInv(c)'
<1>1. AttemptsOf(c)'
  BY OfCall DEF AttemptsOf
<1>2. FailuresOf(c)' /\ TimersOf(c)'
  BY OfCall DEF FailuresOf, TimersOf, Active
<1>. QED  BY <1>1, <1>2 DEF CallInv

\* An attempt has failed: the hook's state.
LEMMA FailedAttempt ==
  ASSUME RetryInv, NEW c \in Calls, NEW e \in Errors, pc[c] = "operation", AttemptFails(c, e),
         UNCHANGED <<now, loop, mode, since, attempt>>,
         \/ e \in Failures /\ live'[c] = {}
         \/ /\ e = "timedOut" /\ TimerFires(c) /\ live'[c] = live[c]
  PROVE  CallInv(c)'
<1>0. pc'[c] = "hook" /\ error'[c] = e /\ due'[c] = Budget(mode[c], since[c])
  BY OfCall DEF RetryTypeOK, AttemptFails
<1>1. AttemptsOf(c)'
  BY <1>0, OfCall DEF AttemptsOf, TimerFires, RetryTypeOK, Failures
<1>2. FailuresOf(c)'
  <2>1. e = "timedOut" /\ TimerFires(c) => Polls(c) /\ now + 1 >= since[c] + mode[c].timeout
    BY OfCall DEF TimersOf, ClocksInv, TimerFires, CanFire, Active
  <2>2. e \notin Failures => Polls(c) /\ e = "timedOut" /\ now + 1 >= since[c] + mode[c].timeout
    BY <2>1 DEF Failures
  <2>3. Active(c) /\ Active(c)'
    BY <1>0 DEF Active
  <2>. QED  BY <1>0, <2>2, <2>3, OfCall DEF FailuresOf, Polls
<1>3. TimersOf(c)'
  <2>1. Polls(c) => loop <= since[c] + mode[c].timeout + LateBy
    BY OfCall DEF TimersOf, Active
  <2>. QED  BY <1>0, <2>1, OfCall, OwnBudget DEF TimersOf, Active, Polls
<1>4. ReasonIsTrue(c)'
  BY OfCall DEF ReasonIsTrue, AttemptFails
<1>. QED  BY <1>1, <1>2, <1>3, <1>4 DEF CallInv

-----------------------------------------------------------------------------
\* The steps of a call.
LEMMA SettlesKeepsInv ==
  ASSUME RetryInv, NEW c \in Calls, NEW a \in live[c], NEW outcome \in Outcomes,
         OperationSettles(c, a, outcome)
  PROVE  RetryInv'
<1>0. /\ a = attempt[c] /\ live[c] = {a} /\ live'[c] = {}
      /\ UNCHANGED <<now, loop, mode, since, attempt, aborted>>
      /\ RetryTypeOK /\ Budget(mode[c], since[c]) \in Nat
  BY OfCall, OwnBudget DEF AttemptsOf, OperationSettles, RetryTypeOK
<1>1. RetryTypeOK'
  BY <1>0, ResultsTyped DEF RetryTypeOK, OperationSettles, End, AttemptFails, Errors, Failures
<1>2. \A x \in Calls \ {c} : Same(x)
  BY <1>0 DEF RetryTypeOK, OperationSettles, End, AttemptFails, Same
<1>3. CASE pc[c] = "operation" /\ outcome = "value"
  <2>1. pc'[c] = "done" /\ result'[c] = Value(a)
    BY <1>0, <1>3 DEF OperationSettles, End, Failures, RetryTypeOK
  <2>2. ReasonIsTrue(c)'
    BY <2>1 DEF ReasonIsTrue, Value
  <2>3. CallInv(c)'
    BY <1>0, <2>1, <2>2, EndedCall
  <2>. QED  BY <1>0, <1>1, <1>2, <2>3, OtherCalls
<1>4. CASE pc[c] = "operation" /\ outcome # "value"
  <2>1. outcome \in Failures /\ AttemptFails(c, outcome)
    BY <1>0, <1>4 DEF OperationSettles, Outcomes
  <2>2. CallInv(c)'
    BY <1>0, <1>4, <2>1, FailedAttempt DEF Errors
  <2>. QED  BY <1>0, <1>1, <1>2, <2>2, OtherCalls
<1>5. CASE pc[c] # "operation"
  <2>1. UNCHANGED <<pc, error, due, result>>
    BY <1>5 DEF OperationSettles
  <2>2. AttemptsOf(c)'
    BY <1>0, <2>1, OfCall DEF AttemptsOf
  <2>3. FailuresOf(c)' /\ TimersOf(c)' /\ ReasonIsTrue(c)'
    BY <1>0, <2>1, OfCall DEF FailuresOf, TimersOf, ReasonIsTrue, Active, Polls
  <2>4. CallInv(c)'
    BY <2>2, <2>3 DEF CallInv
  <2>. QED  BY <1>0, <1>1, <1>2, <2>4, OtherCalls
<1>. QED  BY <1>3, <1>4, <1>5

LEMMA ExpiresKeepsInv ==
  ASSUME RetryInv, NEW c \in Calls, AttemptExpires(c)
  PROVE  RetryInv'
<1>0. /\ UNCHANGED <<now, loop, mode, since, attempt, live>> /\ pc[c] = "operation"
      /\ TimerFires(c) /\ AttemptFails(c, "timedOut")
      /\ RetryTypeOK /\ Budget(mode[c], since[c]) \in Nat
  BY OfCall, OwnBudget DEF AttemptExpires
<1>1. RetryTypeOK'
  BY <1>0 DEF RetryTypeOK, AttemptExpires, AttemptFails, TimerFires, Errors
<1>2. \A x \in Calls \ {c} : Same(x)
  BY <1>0 DEF RetryTypeOK, AttemptFails, TimerFires, Same
<1>3. CallInv(c)'
  BY <1>0, FailedAttempt DEF Errors
<1>. QED  BY <1>0, <1>1, <1>2, <1>3, OtherCalls

\* A call gives up after its timer has fired.
LEMMA TimesOut ==
  ASSUME RetryInv, NEW c \in Calls, pc[c] \in {"hook", "sleep"},
         TimerFires(c), Fail(c, "timeout"),
         UNCHANGED <<now, loop, mode, since, attempt, live, error, due, wake>>
  PROVE  RetryInv'
<1>1. Polls(c) /\ Elapsed(c) + 1 >= mode[c].timeout
  BY OfCall DEF TimersOf, ClocksInv, TimerFires, CanFire, Active, Elapsed
<1>2. ReasonIsTrue(c)'
  BY <1>1, TrueReasons DEF Reasons
<1>3. pc'[c] = "done" /\ aborted'[c] = aborted[c] \cup {attempt[c]}
  BY OfCall DEF RetryTypeOK, Fail, End, TimerFires
<1>4. CallInv(c)'
  BY <1>2, <1>3, EndedCall
<1>5. RetryTypeOK'
  <2>1. error[c] # "none"
    BY OfCall DEF FailuresOf, Failures
  <2>. QED  BY <2>1, OfCall, ResultsTyped DEF RetryTypeOK, Fail, End, TimerFires, Reasons
<1>6. \A x \in Calls \ {c} : Same(x)
  BY OfCall DEF RetryTypeOK, Fail, End, TimerFires, Same
<1>. QED  BY <1>4, <1>5, <1>6, OtherCalls

LEMMA HookThrowsKeepsInv ==
  ASSUME RetryInv, NEW c \in Calls, HookThrows(c)
  PROVE  RetryInv'
<1>1. pc[c] = "hook" /\ pc'[c] = "done" /\ result'[c] = Raised
  BY OfCall DEF RetryTypeOK, HookThrows, End
<1>2. ReasonIsTrue(c)'
  BY <1>1 DEF ReasonIsTrue, Raised
<1>3. CallInv(c)'
  BY <1>1, <1>2, EndedCall DEF HookThrows
<1>4. RetryTypeOK' /\ \A x \in Calls \ {c} : Same(x)
  BY OfCall, ResultsTyped DEF RetryTypeOK, HookThrows, End, Same
<1>. QED  BY <1>3, <1>4, OtherCalls DEF HookThrows

\* The judgement after a hook.
LEMMA JudgesRightly ==
  ASSUME RetryInv, NEW c \in Calls, pc[c] = "hook"
  PROVE  /\ TerminalReason(c) = "attempts-exhausted" =>
              /\ ~Polls(c) /\ attempt[c] = mode[c].maxAttempts /\ error[c] = "transient"
         /\ TerminalReason(c) = "non-transient" => error[c] = "deterministic"
         /\ TerminalReason(c) = "timeout" => Polls(c) /\ Elapsed(c) + 1 >= mode[c].timeout
         /\ TerminalReason(c) = "go on" =>
              /\ live[c] = {}
              /\ Polls(c) => Elapsed(c) < mode[c].timeout
              /\ ~Polls(c) => attempt[c] < mode[c].maxAttempts
<1>. Active(c)
  BY DEF Active
<1>1. error[c] \in Errors /\ (error[c] = "timedOut" => Polls(c))
  BY OfCall DEF FailuresOf, Failures, Errors
<1>2. CASE Polls(c)
  BY <1>1, <1>2, OfCall DEF TerminalReason, FailuresOf, AttemptsOf, Failures, Errors, Elapsed
<1>3. CASE ~Polls(c)
  BY <1>1, <1>3, OfCall DEF TerminalReason, FailuresOf, AttemptsOf, Failures, Errors
<1>. QED  BY <1>2, <1>3

LEMMA HookReturnsKeepsInv ==
  ASSUME RetryInv, NEW c \in Calls, HookReturns(c)
  PROVE  RetryInv'
<1>0. /\ UNCHANGED <<now, loop, mode, since, attempt, live, aborted, error>>
      /\ pc[c] = "hook" /\ Active(c)
  BY DEF HookReturns, Active
<1>1. CASE TerminalReason(c) # "go on"
  <2>1. /\ TerminalReason(c) \in Reasons /\ Fail(c, TerminalReason(c))
        /\ UNCHANGED <<due, wake>>
    BY <1>0, <1>1, ReasonsKnown DEF HookReturns
  <2>2. ReasonIsTrue(c)'
    BY <1>0, <2>1, JudgesRightly, TrueReasons
  <2>3. pc'[c] = "done"
    BY <2>1, OfCall DEF RetryTypeOK, Fail, End
  <2>4. CallInv(c)'
    BY <1>0, <2>2, <2>3, EndedCall
  <2>5. error[c] # "none"
    BY <1>0, OfCall DEF FailuresOf, Failures
  <2>6. RetryTypeOK'
    BY <1>0, <2>1, <2>5, OfCall, ResultsTyped DEF RetryTypeOK, Fail, End
  <2>7. \A x \in Calls \ {c} : Same(x)
    BY <1>0, <2>1, OfCall DEF RetryTypeOK, Fail, End, Same
  <2>. QED  BY <1>0, <2>4, <2>6, <2>7, OtherCalls
<1>2. CASE TerminalReason(c) = "go on"
  <2>1. PICK d \in RetryDelays(c) :
          \/ /\ d < 0
             /\ End(c, Raised)
             /\ UNCHANGED <<due, wake>>
          \/ /\ d >= 0
             /\ pc' = [pc EXCEPT ![c] = "sleep"]
             /\ wake' = [wake EXCEPT ![c] = loop + Larger(d, 1)]
             /\ due' = [due EXCEPT ![c] = Budget(mode[c], since[c])]
             /\ UNCHANGED result
    BY <1>2 DEF HookReturns
  <2>2. d \in Int
    BY <1>0, OfCall, DelaysAreNumbers DEF FailuresOf
  <2>3. CASE d < 0
    <3>1. End(c, Raised) /\ UNCHANGED <<due, wake>>
      BY <2>1, <2>2, <2>3
    <3>2. pc'[c] = "done" /\ result'[c] = Raised
      BY <3>1, OfCall DEF RetryTypeOK, End
    <3>3. ReasonIsTrue(c)'
      BY <3>2 DEF ReasonIsTrue, Raised
    <3>4. CallInv(c)'
      BY <1>0, <3>2, <3>3, EndedCall
    <3>5. RetryTypeOK' /\ \A x \in Calls \ {c} : Same(x)
      BY <1>0, <3>1, OfCall, ResultsTyped DEF RetryTypeOK, End, Same
    <3>. QED  BY <1>0, <3>4, <3>5, OtherCalls
  <2>4. CASE d >= 0
    <3>1. /\ pc' = [pc EXCEPT ![c] = "sleep"]
          /\ wake' = [wake EXCEPT ![c] = loop + Larger(d, 1)]
          /\ due' = [due EXCEPT ![c] = Budget(mode[c], since[c])]
          /\ UNCHANGED result
      BY <2>1, <2>2, <2>4
    <3>2. loop + Larger(d, 1) \in Nat
      BY <2>2, OfCall DEF Larger
    <3>3. RetryTypeOK' /\ \A x \in Calls \ {c} : Same(x)
      BY <1>0, <3>1, <3>2, OfCall, OwnBudget DEF RetryTypeOK, Same
    <3>4. pc'[c] = "sleep" /\ due'[c] = Budget(mode[c], since[c])
      BY <3>1, OfCall DEF RetryTypeOK
    <3>5. /\ live[c] = {} /\ (Polls(c) => Elapsed(c) < mode[c].timeout)
          /\ (~Polls(c) => attempt[c] < mode[c].maxAttempts)
      BY <1>0, <1>2, JudgesRightly
    <3>6. AttemptsOf(c)'
      BY <1>0, <3>4, <3>5, OfCall DEF AttemptsOf
    <3>7. FailuresOf(c)'
      BY <1>0, <3>4, <3>5, OfCall DEF FailuresOf, Active, Polls
    <3>8. TimersOf(c)'
      BY <1>0, <3>4, <3>5, OfCall, OwnBudget DEF TimersOf, Active, Polls
    <3>9. ReasonIsTrue(c)'
      BY <1>0, <3>1, OfCall DEF ReasonIsTrue
    <3>10. CallInv(c)'
      BY <3>6, <3>7, <3>8, <3>9 DEF CallInv
    <3>. QED  BY <1>0, <3>3, <3>10, OtherCalls
  <2>. QED  BY <2>2, <2>3, <2>4
<1>. QED  BY <1>1, <1>2

LEMMA SleepEndsKeepsInv ==
  ASSUME RetryInv, NEW c \in Calls, SleepEnds(c)
  PROVE  RetryInv'
<1>0. /\ UNCHANGED <<now, loop, mode, since, aborted, error>>
      /\ pc[c] = "sleep" /\ Active(c) /\ wake' = [wake EXCEPT ![c] = 0]
  BY DEF SleepEnds, Active
<1>1. CASE Polls(c) /\ Elapsed(c) >= mode[c].timeout
  <2>1. Fail(c, "timeout") /\ UNCHANGED <<attempt, live, due>>
    BY <1>1 DEF SleepEnds
  <2>2. Elapsed(c) + 1 >= mode[c].timeout
    BY <1>1, OfCall DEF Elapsed
  <2>3. ReasonIsTrue(c)'
    BY <1>0, <1>1, <2>1, <2>2, TrueReasons DEF Reasons
  <2>4. pc'[c] = "done"
    BY <2>1, OfCall DEF RetryTypeOK, Fail, End
  <2>5. CallInv(c)'
    BY <1>0, <2>1, <2>3, <2>4, EndedCall
  <2>6. error[c] # "none"
    BY <1>0, OfCall DEF FailuresOf, Failures
  <2>7. RetryTypeOK'
    BY <1>0, <2>1, <2>6, OfCall, ResultsTyped DEF RetryTypeOK, Fail, End, Reasons
  <2>8. \A x \in Calls \ {c} : Same(x)
    BY <1>0, <2>1, OfCall DEF RetryTypeOK, Fail, End, Same
  <2>. QED  BY <1>0, <2>5, <2>7, <2>8, OtherCalls
<1>2. CASE ~(Polls(c) /\ Elapsed(c) >= mode[c].timeout)
  <2>1. /\ pc' = [pc EXCEPT ![c] = "operation"]
        /\ attempt' = [attempt EXCEPT ![c] = @ + 1]
        /\ live' = [live EXCEPT ![c] = @ \cup {attempt[c] + 1}]
        /\ due' = [due EXCEPT ![c] = Budget(mode[c], since[c])]
        /\ UNCHANGED result
    BY <1>2 DEF SleepEnds
  <2>2. RetryTypeOK' /\ \A x \in Calls \ {c} : Same(x)
    BY <1>0, <2>1, OfCall, OwnBudget DEF RetryTypeOK, Same
  <2>3. live[c] = {}
    BY <1>0, OfCall DEF AttemptsOf
  <2>4. /\ pc'[c] = "operation" /\ due'[c] = Budget(mode[c], since[c])
        /\ attempt'[c] = attempt[c] + 1 /\ live'[c] = {attempt[c] + 1}
    BY <2>1, <2>3, OfCall DEF RetryTypeOK
  <2>5. AttemptsOf(c)'
    BY <2>4 DEF AttemptsOf
  <2>6. FailuresOf(c)'
    <3>1. ValidMode(mode[c]) /\ (~Polls(c) => attempt[c] + 1 <= mode[c].maxAttempts)
      BY <1>0, OfCall DEF FailuresOf
    <3>. QED  BY <1>0, <2>4, <3>1, OfCall DEF FailuresOf, Active, Polls
  <2>7. TimersOf(c)'
    <3>1. Polls(c) => Elapsed(c) < mode[c].timeout
      BY <1>2, OfCall DEF Elapsed
    <3>. QED  BY <1>0, <2>4, <3>1, OfCall, OwnBudget DEF TimersOf, Active, Polls
  <2>8. ReasonIsTrue(c)'
    BY <1>0, <2>1, OfCall DEF ReasonIsTrue
  <2>9. CallInv(c)'
    BY <2>5, <2>6, <2>7, <2>8 DEF CallInv
  <2>. QED  BY <1>0, <2>2, <2>9, OtherCalls
<1>. QED  BY <1>1, <1>2

\* The clocks tick.  The timers' clock waits for a timer that is LateBy late.
LEMMA TickKeepsInv ==
  ASSUME RetryInv, Tick
  PROVE  RetryInv'
<1>1. UNCHANGED <<mode, pc, since, attempt, live, aborted, error, due, wake, result>>
  BY DEF Tick, DateTick, LoopTick
<1>2. RetryTypeOK /\ ClocksInv /\ now \in Nat /\ loop \in Nat
  BY DEF RetryInv, RetryTypeOK
<1>3. /\ now' \in Nat /\ loop' \in Nat /\ now' >= now /\ ClocksInv'
  BY <1>2 DEF Tick, DateTick, LoopTick, ClocksInv
<1>4. RetryTypeOK'
  BY <1>1, <1>2, <1>3 DEF RetryTypeOK
<1>5. ASSUME NEW c \in Calls PROVE CallInv(c)'
  <2>1. AttemptsOf(c)' /\ ReasonIsTrue(c)'
    BY <1>1, OfCall DEF AttemptsOf, ReasonIsTrue
  <2>2. FailuresOf(c)'
    BY <1>1, <1>2, <1>3, OfCall DEF FailuresOf, Active, Polls
  <2>3. Active(c) /\ Polls(c) => loop' <= due[c] + LateBy
    BY OfCall DEF TimersOf, Tick, DateTick, LoopTick, Overdue, Active
  <2>4. TimersOf(c)'
    BY <1>1, <1>2, <1>3, <2>3, OfCall DEF TimersOf, Active, Polls
  <2>. QED  BY <2>1, <2>2, <2>4 DEF CallInv
<1>. QED  BY <1>3, <1>4, <1>5 DEF RetryInv

LEMMA NextKeepsInv ==
  ASSUME RetryInv, [RetryNext]_retryVars
  PROVE  RetryInv'
<1>1. CASE Tick
  BY <1>1, TickKeepsInv
<1>2. ASSUME NEW c \in Calls, RetryStep(c) PROVE RetryInv'
  <2>1. ASSUME NEW m \in Modes, Call(c, m) PROVE RetryInv'
    BY <2>1, CallKeepsInv
  <2>2. ASSUME NEW a \in live[c], NEW outcome \in Outcomes, OperationSettles(c, a, outcome)
        PROVE  RetryInv'
    BY <2>2, SettlesKeepsInv
  <2>3. CASE AttemptExpires(c)
    BY <2>3, ExpiresKeepsInv
  <2>4. CASE HookReturns(c)
    BY <2>4, HookReturnsKeepsInv
  <2>5. CASE HookThrows(c)
    BY <2>5, HookThrowsKeepsInv
  <2>6. CASE HookExpires(c)
    BY <2>6, TimesOut DEF HookExpires
  <2>7. CASE SleepEnds(c)
    BY <2>7, SleepEndsKeepsInv
  <2>8. CASE SleepExpires(c)
    BY <2>8, TimesOut DEF SleepExpires
  <2>. QED  BY <1>2, <2>1, <2>2, <2>3, <2>4, <2>5, <2>6, <2>7, <2>8 DEF RetryStep
<1>3. CASE UNCHANGED retryVars
  <2>1. RetryTypeOK' /\ ClocksInv'
    BY <1>3 DEF RetryInv, retryVars, RetryTypeOK, ClocksInv
  <2>2. ASSUME NEW c \in Calls PROVE CallInv(c)'
    BY <1>3, OfCall DEF retryVars, CallInv, AttemptsOf, FailuresOf, TimersOf, ReasonIsTrue,
                        Active, Polls
  <2>. QED  BY <2>1, <2>2 DEF RetryInv
<1>. QED  BY <1>1, <1>2, <1>3 DEF RetryNext

\* The invariant from which the properties follow, for all calls and modes.
THEOREM RetryInvariant == RetrySpec => []RetryInv
<1>1. RetryInit => RetryInv
  BY RetryInvInit
<1>2. RetryInv /\ [RetryNext]_retryVars => RetryInv'
  BY NextKeepsInv
<1>. QED  BY <1>1, <1>2, PTL DEF RetrySpec

\* The calls' state has its type.
THEOREM TypeCorrect == RetrySpec => []RetryTypeOK
<1>1. RetryInv => RetryTypeOK
  BY DEF RetryInv
<1>. QED  BY <1>1, RetryInvariant, PTL

\* An attempt begins only when the operation of the attempt before has settled
\* (runWithRetry's loop).
THEOREM Sequential == RetrySpec => []AttemptsDoNotOverlap
<1>1. RetryInv => AttemptsDoNotOverlap
  BY DEF RetryInv, CallInv, AttemptsOf, AttemptsDoNotOverlap
<1>. QED  BY <1>1, RetryInvariant, PTL

\* An operation that lost its race has had its signal aborted (runWithinRetryBudget).
THEOREM AbandonedAborted == RetrySpec => []AbandonedAreAborted
<1>1. RetryInv => AbandonedAreAborted
  BY DEF RetryInv, CallInv, AttemptsOf, AbandonedAreAborted
<1>. QED  BY <1>1, RetryInvariant, PTL

\* A poll is over when its timeout is, but for late timers (runWithinRetryBudget).
THEOREM PollsOnTime == RetrySpec => []PollsEndOnTime
<1>1. RetryInv => PollsEndOnTime
  <2>. SUFFICES ASSUME RetryInv, NEW c \in Calls, Polls(c), Active(c)
                PROVE  now <= since[c] + mode[c].timeout + 2 * LateBy + 2
    BY DEF PollsEndOnTime, Active
  <2>. QED  BY OfCall DEF TimersOf, ClocksInv
<1>. QED  BY <1>1, RetryInvariant, PTL

\* A RetryError's reason is what happened (getTerminalReason, createPollTimeoutError).
THEOREM TrueReasonsAlways == RetrySpec => []ReasonsAreTrue
<1>1. RetryInv => ReasonsAreTrue
  BY DEF RetryInv, CallInv, ReasonsAreTrue
<1>. QED  BY <1>1, RetryInvariant, PTL

-----------------------------------------------------------------------------
(* The waits. *)

\* The operation of the test's own is repeated by runWithRetry.
LEMMA PlainRetries ==
  ASSUME PlainNext
  PROVE  RetryStep(Plain) /\ UNCHANGED <<assetVars, mailVars, otpVars>>
<1>1. PlainModes \subseteq Modes
  BY ReadinessAssumption
<1>2. SetupOutcomes \subseteq Outcomes /\ "value" \in Outcomes
  BY DEF SetupOutcomes, Outcomes, Failures
<1>. QED  BY <1>1, <1>2 DEF PlainNext, RetryStep

\* And so are the probes of a mailbox.
LEMMA MailRetries ==
  ASSUME MailNext
  PROVE  RetryStep(Mail) \/ UNCHANGED retryVars
<1>1. MailModes \subseteq Modes
  BY MailAssumption
<1>2. ASSUME NEW outcome \in Outcomes, ProbeEnds(outcome)
      PROVE  RetryStep(Mail)
  BY <1>2 DEF ProbeEnds, RetryStep
<1>3. CASE MailCalls \/ MailGoesOn
  BY <1>1, <1>3 DEF MailCalls, MailGoesOn, RetryStep
<1>4. CASE SearchFails \/ ReadFails \/ NothingFound
  BY <1>2, <1>4 DEF SearchFails, ReadFails, NothingFound, Outcomes, Failures
<1>5. CASE KnownCandidate \/ ReadAnswers
  BY <1>2, <1>5 DEF KnownCandidate, ReadAnswers, TakeOrPass, Outcomes
<1>6. CASE SearchAnswers \/ \E m \in Mails : Deliver(m)
  BY <1>6 DEF SearchAnswers, Deliver
<1>. QED  BY <1>3, <1>4, <1>5, <1>6 DEF MailNext

\* And so are those of the assets and of their graph.
LEMMA AssetsRetry ==
  ASSUME AssetsInv, AssetsNext
  PROVE  (\E c \in Calls \ {Plain, Mail} : RetryStep(c)) \/ UNCHANGED retryVars
<1>1. /\ Graph \in Calls \ {Plain, Mail}
      /\ \A i \in DOMAIN AssetCalls : AssetCalls[i] \in Calls \ {Plain, Mail}
      /\ GraphModes \subseteq Modes /\ AssetModes \subseteq Modes
  BY ReadinessAssumption, GraphAssumption
<1>2. CASE GraphCalls \/ GraphGoesOn
  BY <1>1, <1>2 DEF GraphCalls, GraphGoesOn, RetryStep
<1>3. ASSUME NEW w \in DOMAIN workers, WorkerTakes(w)
      PROVE  (\E c \in Calls \ {Plain, Mail} : RetryStep(c)) \/ UNCHANGED retryVars
  <2>1. nextIndex <= options.checks => nextIndex \in DOMAIN AssetCalls
    BY GraphAssumption DEF AssetsInv, AssetsTypeOK, GraphOptionType
  <2>2. CASE nextIndex <= options.checks /\ \E m \in AssetModes : Call(AssetCalls[nextIndex], m)
    <3>1. RetryStep(AssetCalls[nextIndex])
      BY <1>1, <2>2 DEF RetryStep
    <3>. QED  BY <1>1, <2>1, <2>2, <3>1
  <2>. QED  BY <1>3, <2>2 DEF WorkerTakes
<1>4. ASSUME NEW w \in DOMAIN workers, WorkerResumes(w)
      PROVE  UNCHANGED retryVars
  BY <1>4 DEF WorkerResumes
<1>5. CASE VerificationEnds \/ LimitIsRefused
  <2>1. \E a \in live[Graph], outcome \in Outcomes : OperationSettles(Graph, a, outcome)
    BY <1>5 DEF VerificationEnds, LimitIsRefused, Outcomes, Failures
  <2>. QED  BY <1>1, <2>1 DEF RetryStep
<1>6. ASSUME NEW i \in DOMAIN AssetCalls, CheckAnswers(i) \/ CheckGoesOn(i)
      PROVE  \E c \in Calls \ {Plain, Mail} : RetryStep(c)
  <2>1. CheckOutcomes(i) \subseteq Outcomes
    BY DEF CheckOutcomes, CheckAssetOnce, Outcomes, Failures
  <2>2. RetryStep(AssetCalls[i])
    BY <1>6, <2>1 DEF CheckAnswers, CheckGoesOn, RetryStep
  <2>. QED  BY <1>1, <2>2
<1>. QED  BY <1>2, <1>3, <1>4, <1>5, <1>6 DEF AssetsNext, WorkersStep

\* The waits repeat what they wait for by runWithRetry alone.
LEMMA WaitsByRetrying ==
  ASSUME AssetsInv, [Next]_vars
  PROVE  [RetryNext]_retryVars
<1>1. Plain \in Calls /\ Mail \in Calls
  BY ReadinessAssumption, MailAssumption
<1>2. ASSUME NEW c \in Calls, RetryStep(c)
      PROVE  RetryNext
  BY <1>2 DEF RetryNext
<1>3. CASE Clock
  BY <1>3 DEF Clock, RetryNext
<1>4. CASE PlainNext
  BY <1>1, <1>2, <1>4, PlainRetries
<1>5. CASE AssetsNext
  BY <1>2, <1>5, AssetsRetry
<1>6. CASE MailNext
  BY <1>1, <1>2, <1>6, MailRetries
<1>7. CASE OtpNext \/ UNCHANGED vars
  BY <1>7 DEF OtpNext, vars
<1>. QED  BY <1>3, <1>4, <1>5, <1>6, <1>7 DEF Next

-----------------------------------------------------------------------------
(* What a wait for a redirect reports. *)

\* The texts that are kept hold no secret.
LEMMA SanitizedIsClean ==
  ASSUME NEW text
  PROVE  Sanitized(text) \cap Secrets = {}
BY DEF Sanitized, Secrets

LEMMA SecretsAreKept ==
  {} \cap Secrets = {} /\ {"omitted"} \cap Secrets = {} /\ {"unavailable"} \cap Secrets = {}
BY DEF Secrets

\* Time that passes leaves what is known of the challenge true.
LEMMA OtpStandsStill ==
  ASSUME OtpInv, UNCHANGED otpVars, loop \in Nat, loop' \in Nat, loop' >= loop
  PROVE  OtpInv'
<1>1. UNCHANGED <<otp, sent, monitor, bodies, arrived, urlDue, shown, sample, shot, report, heardAt>>
  BY DEF otpVars
<1>2. MonitorInv' /\ ReportInv'
  BY <1>1 DEF OtpInv, MonitorInv, ReportInv, IsTerminalFailure, IsCognitoOtpChallengeRequest
<1>3. AttemptIsTrue'
  BY <1>1 DEF OtpInv, MonitorInv, AttemptIsTrue, IsCognitoOtpChallengeRequest
<1>. QED  BY <1>2, <1>3 DEF OtpInv

LEMMA AttemptFields ==
  /\ NoAttempt.type = "none" /\ NoAttempt.text = {}
  /\ NotObserved.type = "not-observed" /\ NotObserved.text = {}
  /\ \A type, r, status, text :
       LET a == Attempt(type, r, status, text) IN
       a.type = type /\ a.request = r /\ a.status = status /\ a.text = text
BY DEF NoAttempt, NotObserved, Attempt

\* The monitor settles once, with a or with what it had settled before.
LEMMA Settles ==
  ASSUME MonitorInv, NEW a, a.type # "none", Complete(a)
  PROVE  /\ monitor.attempt # NoAttempt => monitor' = monitor
         /\ monitor.attempt = NoAttempt => monitor'.attempt = a
         /\ monitor'.attempt # NoAttempt /\ monitor'.listening = FALSE
         /\ monitor'.due = monitor.due
         /\ monitor' \in [listening : BOOLEAN, due : Nat, attempt : {monitor'.attempt}]
<1>1. a # NoAttempt
  BY AttemptFields
<1>. QED  BY <1>1 DEF MonitorInv, Complete

\* What is known of a request once it is sent, or settled.
LEMMA SentTypes ==
  ASSUME MonitorInv, NEW r \in Requests, sent[r].state # "answered",
         NEW st \in {"unsent", "sent", "answered", "failed"}, sent' = [sent EXCEPT ![r].state = st]
  PROVE  /\ sent' \in [Requests -> [state : {"unsent", "sent", "answered", "failed"}, status : Nat]]
         /\ sent'[r] = [state |-> st, status |-> 0]
         /\ \A q \in Requests \ {r} : sent'[q] = sent[q]
<1>1. sent[r] \in [state : {"unsent", "sent", "answered", "failed"}, status : Nat]
      /\ sent[r].status = 0
  BY DEF MonitorInv
<1>2. [sent[r] EXCEPT !.state = st] = [state |-> st, status |-> 0]
  BY <1>1
<1>. QED  BY <1>1, <1>2 DEF MonitorInv

\* It settles with a request.
LEMMA SettlesWith ==
  ASSUME MonitorInv, NEW type \in {"response", "request-failure"}, NEW r, NEW status, NEW text,
         Complete(Attempt(type, r, status, text))
  PROVE  /\ monitor.attempt # NoAttempt => monitor' = monitor
         /\ monitor.attempt = NoAttempt =>
              /\ monitor'.attempt.type = type /\ monitor'.attempt.request = r
              /\ monitor'.attempt.status = status /\ monitor'.attempt.text = text
         /\ monitor'.attempt # NoAttempt /\ monitor'.listening = FALSE
         /\ monitor'.due = monitor.due
         /\ monitor' \in [listening : BOOLEAN, due : Nat, attempt : {monitor'.attempt}]
<1> DEFINE a == Attempt(type, r, status, text)
<1>1. a.type = type /\ a.request = r /\ a.status = status /\ a.text = text
  BY DEF Attempt
<1>2. a.type # "none" /\ Complete(a)
  BY <1>1
<1> HIDE DEF a
<1>. QED  BY <1>1, <1>2, Settles

\* It settles with a request that failed.
LEMMA SettlesWithFailure ==
  ASSUME MonitorInv, NEW r, monitor.attempt = NoAttempt,
         Complete(Attempt("request-failure", r, 0, Sanitized(PlaywrightText)))
  PROVE  /\ monitor'.attempt.type = "request-failure" /\ monitor'.attempt.request = r
         /\ monitor'.attempt.status = 0 /\ monitor'.attempt.text = Sanitized(PlaywrightText)
<1>1. PICK text : text = Sanitized(PlaywrightText)
  OBVIOUS
<1>2. PICK type \in {"response", "request-failure"} : type = "request-failure"
  OBVIOUS
<1>3. Complete(Attempt(type, r, 0, text))
  BY <1>1, <1>2
<1>4. /\ monitor'.attempt.type = type /\ monitor'.attempt.request = r
      /\ monitor'.attempt.status = 0 /\ monitor'.attempt.text = text
  BY <1>3, SettlesWith
<1>. QED  BY <1>1, <1>2, <1>4

\* The monitor listens until it has heard, or the time or the call is over.
LEMMA MonitorStep ==
  ASSUME OtpInv, OtpNext, loop \in Nat, loop' = loop, RedirectTimeout \in Nat
  PROVE  MonitorInv'
<1> USE Settles, AttemptFields DEF OtpInv, Unheard, pageVars
<1>1. CASE OtpCalls
  BY <1>1 DEF MonitorInv, OtpCalls
<1>2. CASE FillFails
  BY <1>2 DEF MonitorInv, FillFails
<1>3. CASE FillSucceeds
  BY <1>3 DEF MonitorInv, FillSucceeds
<1>4. CASE MonitorExpires
  BY <1>4 DEF MonitorInv, MonitorExpires
<1>5. CASE RedirectSeen
  BY <1>5 DEF MonitorInv, RedirectSeen
<1>6. CASE RaceFails
  BY <1>6 DEF MonitorInv, RaceFails
<1>7. CASE TextIsSampled
  BY <1>7 DEF MonitorInv, TextIsSampled
<1>8. CASE ScreenshotGoesOn
  BY <1>8 DEF MonitorInv, ScreenshotGoesOn
<1>9. CASE RedirectFails
  BY <1>9 DEF MonitorInv, RedirectFails
<1>10. CASE PageArrives
  BY <1>10 DEF MonitorInv, PageArrives
<1>11. ASSUME NEW r \in Requests, PageSends(r)
      PROVE  MonitorInv'
  BY <1>11, SentTypes DEF MonitorInv, PageSends
<1>12. ASSUME NEW r \in Requests, NEW status \in ResponseStatuses, RequestAnswered(r, status)
      PROVE  MonitorInv'
  <2>1. /\ sent[r].state = "sent" /\ otp' = otp
        /\ sent' \in [Requests -> [state : {"unsent", "sent", "answered", "failed"}, status : Nat]]
        /\ sent'[r] = [state |-> "answered", status |-> status]
        /\ \A q \in Requests \ {r} : sent'[q] = sent[q]
    BY <1>12, CognitoAssumption DEF MonitorInv, RequestAnswered
  <2>2. CASE UNCHANGED <<monitor, heardAt>>
    BY <1>12, <2>1, <2>2 DEF MonitorInv, RequestAnswered, IsCognitoOtpChallengeRequest
  <2>3. CASE Complete(Attempt("response", r, status, {"omitted"})) /\ Hear
             /\ otp # "idle" /\ UNCHANGED bodies
    <3>1. /\ monitor' \in [listening : BOOLEAN, due : Nat, attempt : {monitor'.attempt}]
          /\ monitor'.attempt # NoAttempt /\ monitor'.listening = FALSE
      BY <2>3, SettlesWith
    <3>2. heardAt' \in Nat \cup {Unheard} /\ bodies' = bodies
      BY <2>1, <2>3 DEF MonitorInv, Hear
    <3>3. \A q \in Requests : sent'[q].state # "answered" => sent'[q].status = 0
      BY <2>1 DEF MonitorInv
    <3>4. \A q \in bodies' : q \in Requests /\ sent'[q].state = "answered"
      BY <2>1, <3>2 DEF MonitorInv
    <3>5. \A q \in bodies' : IsCognitoOtpChallengeRequest(q)
      BY <3>2 DEF MonitorInv
    <3>. QED  BY <2>1, <3>1, <3>2, <3>3, <3>4, <3>5 DEF MonitorInv, IsCognitoOtpChallengeRequest
  <2>. QED  BY <1>12, <2>2, <2>3 DEF RequestAnswered, MonitorInv
<1>13. ASSUME NEW r \in Requests, BodySettles(r)
      PROVE  MonitorInv'
  <2>1. PICK text : Complete(Attempt("response", r, sent[r].status, text))
    BY <1>13 DEF BodySettles
  <2>2. /\ monitor' \in [listening : BOOLEAN, due : Nat, attempt : {monitor'.attempt}]
        /\ monitor'.attempt # NoAttempt /\ monitor'.listening = FALSE
    BY <2>1, SettlesWith
  <2>3. UNCHANGED <<otp, sent>> /\ bodies' \subseteq bodies /\ heardAt' \in Nat \cup {Unheard}
    BY <1>13 DEF BodySettles, Hear, MonitorInv
  <2>4. \A q \in bodies' : /\ q \in Requests /\ IsCognitoOtpChallengeRequest(q)
                           /\ sent'[q].state = "answered"
    BY <2>3 DEF MonitorInv
  <2>. QED  BY <2>2, <2>3, <2>4 DEF MonitorInv, IsCognitoOtpChallengeRequest
<1>14. ASSUME NEW r \in Requests, RequestFails(r)
      PROVE  MonitorInv'
  <2>1. /\ sent[r].state = "sent"
        /\ sent' \in [Requests -> [state : {"unsent", "sent", "answered", "failed"}, status : Nat]]
        /\ sent'[r] = [state |-> "failed", status |-> 0]
        /\ \A q \in Requests \ {r} : sent'[q] = sent[q]
        /\ UNCHANGED <<otp, bodies>>
    BY <1>14, SentTypes DEF RequestFails
  <2>2. CASE UNCHANGED <<monitor, heardAt>>
    BY <2>1, <2>2 DEF MonitorInv, IsCognitoOtpChallengeRequest
  <2>3. CASE Complete(Attempt("request-failure", r, 0, Sanitized(PlaywrightText)))
             /\ Hear /\ otp # "idle"
    <3>1. /\ monitor' \in [listening : BOOLEAN, due : Nat, attempt : {monitor'.attempt}]
          /\ monitor'.attempt # NoAttempt /\ monitor'.listening = FALSE
      BY <2>3, SettlesWith
    <3>2. heardAt' \in Nat \cup {Unheard} /\ bodies' = bodies
      BY <2>1, <2>3 DEF MonitorInv, Hear
    <3>. QED  BY <2>1, <2>3, <3>1, <3>2 DEF MonitorInv, IsCognitoOtpChallengeRequest
  <2>. QED  BY <1>14, <2>2, <2>3 DEF RequestFails, MonitorInv
<1>. QED
  BY <1>1, <1>2, <1>3, <1>4, <1>5, <1>6, <1>7, <1>8, <1>9, <1>10, <1>11, <1>12, <1>13, <1>14 DEF OtpNext, PageNext

\* What the monitor settles with is what was seen.
LEMMA AttemptStep ==
  ASSUME OtpInv, OtpNext, loop \in Nat, loop' = loop, RedirectTimeout \in Nat
  PROVE  AttemptIsTrue'
<1> USE Settles, AttemptFields DEF OtpInv, Unheard, pageVars
<1>1. CASE OtpCalls
  BY <1>1 DEF OtpCalls, AttemptIsTrue, ReportInv, IsCognitoOtpChallengeRequest, NoReport
<1>2. CASE FillFails
  <2>1. /\ monitor.attempt # NoAttempt => monitor' = monitor
        /\ monitor.attempt = NoAttempt => monitor'.attempt = NotObserved
    BY <1>2 DEF FillFails
  <2>2. sent' = sent /\ report'.kind = "raised"
    BY <1>2 DEF FillFails, FillRaised
  <2>. QED  BY <2>1, <2>2 DEF AttemptIsTrue, IsCognitoOtpChallengeRequest
<1>3. CASE FillSucceeds
  BY <1>3 DEF FillSucceeds, AttemptIsTrue, ReportInv, IsCognitoOtpChallengeRequest
<1>4. CASE MonitorExpires
  <2>1. /\ monitor'.attempt = NotObserved /\ monitor'.due = monitor.due
        /\ heardAt = Unheard /\ loop >= monitor.due
    BY <1>4 DEF MonitorExpires, MonitorInv
  <2>2. UNCHANGED <<sent, report, heardAt>>
    BY <1>4 DEF MonitorExpires
  <2>. QED  BY <2>1, <2>2 DEF AttemptIsTrue
<1>5. CASE RedirectSeen
  <2>1. /\ monitor.attempt # NoAttempt => monitor' = monitor
        /\ monitor.attempt = NoAttempt => monitor'.attempt = NotObserved
    BY <1>5 DEF RedirectSeen
  <2>2. sent' = sent /\ report'.kind = "redirected"
    BY <1>5 DEF RedirectSeen, Redirected
  <2>. QED  BY <2>1, <2>2 DEF AttemptIsTrue, IsCognitoOtpChallengeRequest
<1>6. CASE RaceFails
  BY <1>6 DEF RaceFails, AttemptIsTrue, ReportInv, IsCognitoOtpChallengeRequest
<1>7. CASE TextIsSampled
  BY <1>7 DEF TextIsSampled, AttemptIsTrue, ReportInv, IsCognitoOtpChallengeRequest
<1>8. CASE ScreenshotGoesOn
  BY <1>8 DEF ScreenshotGoesOn, AttemptIsTrue, ReportInv, IsCognitoOtpChallengeRequest
<1>9. CASE RedirectFails
  BY <1>9 DEF RedirectFails, AttemptIsTrue, ReportInv, IsCognitoOtpChallengeRequest
<1>10. CASE PageArrives
  BY <1>10 DEF PageArrives, AttemptIsTrue, ReportInv, IsCognitoOtpChallengeRequest
<1>11. ASSUME NEW r \in Requests, PageSends(r)
      PROVE  AttemptIsTrue'
  <2>1. /\ sent[r].state = "unsent" /\ \A q \in Requests \ {r} : sent'[q] = sent[q]
        /\ UNCHANGED <<monitor, report, heardAt>>
    BY <1>11, SentTypes DEF PageSends
  <2>2. monitor.attempt.type \in {"response", "request-failure"} => monitor.attempt.request # r
    BY <2>1 DEF AttemptIsTrue
  <2>. QED  BY <2>1, <2>2 DEF AttemptIsTrue, IsCognitoOtpChallengeRequest
<1>12. ASSUME NEW r \in Requests, NEW status \in ResponseStatuses, RequestAnswered(r, status)
      PROVE  AttemptIsTrue'
  <2>1. /\ sent' = [sent EXCEPT ![r] = [state |-> "answered", status |-> status]]
        /\ sent[r].state = "sent" /\ report' = report
        /\ sent'[r] = [state |-> "answered", status |-> status]
        /\ \A q \in Requests \ {r} : sent'[q] = sent[q]
    BY <1>12 DEF RequestAnswered, MonitorInv
  <2>2. CASE UNCHANGED <<monitor, heardAt>>
    BY <2>1, <2>2 DEF AttemptIsTrue, IsCognitoOtpChallengeRequest
  <2>3. CASE Complete(Attempt("response", r, status, {"omitted"}))
             /\ monitor.listening /\ IsCognitoOtpChallengeRequest(r)
    <3>1. /\ monitor'.attempt.type = "response" /\ monitor'.attempt.request = r
          /\ monitor'.attempt.status = status /\ monitor'.attempt.text = {"omitted"}
      BY <2>3, SettlesWith DEF MonitorInv
    <3>. QED  BY <2>1, <2>3, <3>1, SecretsAreKept DEF AttemptIsTrue, IsCognitoOtpChallengeRequest
  <2>. QED  BY <1>12, <2>2, <2>3 DEF RequestAnswered
<1>13. ASSUME NEW r \in Requests, BodySettles(r)
      PROVE  AttemptIsTrue'
  <2>1. PICK text \in {Sanitized(BodyOf[r]), {"unavailable"}} :
          Complete(Attempt("response", r, sent[r].status, text))
    BY <1>13 DEF BodySettles
  <2>2. UNCHANGED <<sent, report>> /\ Hear /\ r \in bodies
    BY <1>13 DEF BodySettles
  <2>3. CASE monitor.attempt = NoAttempt
    <3>1. /\ monitor'.attempt.type = "response" /\ monitor'.attempt.request = r
          /\ monitor'.attempt.status = sent[r].status /\ monitor'.attempt.text = text
      BY <2>1, <2>3, SettlesWith
    <3>2. sent[r] = [state |-> "answered", status |-> sent[r].status]
          /\ IsCognitoOtpChallengeRequest(r)
      BY <2>2 DEF MonitorInv
    <3>3. text \cap Secrets = {}
      BY SanitizedIsClean, SecretsAreKept
    <3>. QED  BY <2>2, <3>1, <3>2, <3>3 DEF AttemptIsTrue, IsCognitoOtpChallengeRequest
  <2>4. CASE monitor.attempt # NoAttempt
    <3>1. monitor' = monitor /\ (heardAt' = heardAt \/ heardAt' = loop)
      BY <2>1, <2>2, <2>4, SettlesWith DEF Hear
    <3>. QED  BY <2>2, <3>1 DEF AttemptIsTrue, IsCognitoOtpChallengeRequest
  <2>. QED  BY <2>3, <2>4
<1>14. ASSUME NEW r \in Requests, RequestFails(r)
      PROVE  AttemptIsTrue'
  <2>1. /\ sent[r].state = "sent" /\ report' = report
        /\ sent'[r] = [state |-> "failed", status |-> 0]
        /\ \A q \in Requests \ {r} : sent'[q] = sent[q]
    BY <1>14, SentTypes DEF RequestFails
  <2>2. CASE UNCHANGED <<monitor, heardAt>>
    <3>1. monitor.attempt.type \in {"response", "request-failure"} => monitor.attempt.request # r
      BY <2>1 DEF AttemptIsTrue
    <3>. QED  BY <2>1, <2>2, <3>1 DEF AttemptIsTrue, IsCognitoOtpChallengeRequest
  <2>3. CASE Complete(Attempt("request-failure", r, 0, Sanitized(PlaywrightText)))
             /\ monitor.listening /\ IsCognitoOtpChallengeRequest(r)
    <3>1. monitor.attempt = NoAttempt
      BY <2>3 DEF MonitorInv
    <3>2. /\ monitor'.attempt.type = "request-failure" /\ monitor'.attempt.request = r
          /\ monitor'.attempt.status = 0 /\ monitor'.attempt.text = Sanitized(PlaywrightText)
      BY <2>3, <3>1, SettlesWithFailure
    <3>. QED  BY <2>1, <2>3, <3>2, SanitizedIsClean DEF AttemptIsTrue, IsCognitoOtpChallengeRequest
  <2>. QED  BY <1>14, <2>2, <2>3 DEF RequestFails
<1>. QED
  BY <1>1, <1>2, <1>3, <1>4, <1>5, <1>6, <1>7, <1>8, <1>9, <1>10, <1>11, <1>12, <1>13, <1>14 DEF OtpNext, PageNext

\* What the call reports is what the monitor settled with.
LEMMA ReportStep ==
  ASSUME OtpInv, OtpNext, loop \in Nat, loop' = loop, RedirectTimeout \in Nat
  PROVE  ReportInv'
<1> USE Settles, AttemptFields DEF OtpInv, Unheard, pageVars
<1>1. CASE OtpCalls
  BY <1>1 DEF OtpCalls, ReportInv, IsTerminalFailure, NoReport
<1>2. CASE FillFails
  BY <1>2 DEF FillFails, ReportInv, IsTerminalFailure, FillRaised
<1>3. CASE FillSucceeds
  BY <1>3 DEF FillSucceeds, ReportInv, IsTerminalFailure
<1>4. CASE MonitorExpires
  BY <1>4 DEF MonitorExpires, ReportInv, IsTerminalFailure
<1>5. CASE RedirectSeen
  BY <1>5 DEF RedirectSeen, ReportInv, IsTerminalFailure, Redirected
<1>6. CASE RaceFails
  <2>1. /\ otp = "racing" /\ otp' = "diagnosing" /\ report'.kind = "failing"
        /\ report'.cause = "challenge" => IsTerminalFailure(monitor.attempt)
        /\ UNCHANGED <<monitor, arrived, sample>>
    BY <1>6 DEF RaceFails
  <2>. QED  BY <2>1 DEF ReportInv, IsTerminalFailure
<1>7. CASE TextIsSampled
  BY <1>7, SanitizedIsClean DEF TextIsSampled, ReportInv, IsTerminalFailure
<1>8. CASE ScreenshotGoesOn
  BY <1>8 DEF ScreenshotGoesOn, ReportInv, IsTerminalFailure
<1>9. CASE RedirectFails
  BY <1>9, SanitizedIsClean DEF RedirectFails, ReportInv, IsTerminalFailure
<1>10. CASE PageArrives
  BY <1>10 DEF PageArrives, ReportInv, IsTerminalFailure
<1>11. ASSUME NEW r \in Requests, PageSends(r)
      PROVE  ReportInv'
  BY <1>11, SentTypes DEF PageSends, ReportInv, IsTerminalFailure
<1>12. ASSUME NEW r \in Requests, NEW status \in ResponseStatuses, RequestAnswered(r, status)
      PROVE  ReportInv'
  <2>1. CASE UNCHANGED monitor
    BY <1>12, <2>1 DEF RequestAnswered, ReportInv, IsTerminalFailure
  <2>2. CASE Complete(Attempt("response", r, status, {"omitted"}))
    <3>1. /\ monitor'.attempt # NoAttempt
          /\ monitor.attempt # NoAttempt => monitor' = monitor
      BY <2>2, SettlesWith
    <3>2. UNCHANGED <<otp, report, sample, arrived>>
      BY <1>12 DEF RequestAnswered
    <3>. QED  BY <3>1, <3>2 DEF ReportInv, IsTerminalFailure
  <2>. QED  BY <1>12, <2>1, <2>2 DEF RequestAnswered
<1>13. ASSUME NEW r \in Requests, BodySettles(r)
      PROVE  ReportInv'
  <2>1. PICK text : Complete(Attempt("response", r, sent[r].status, text))
    BY <1>13 DEF BodySettles
  <2>2. /\ monitor'.attempt # NoAttempt
        /\ monitor.attempt # NoAttempt => monitor' = monitor
    BY <2>1, SettlesWith
  <2>3. UNCHANGED <<otp, report, sample, arrived>>
    BY <1>13 DEF BodySettles
  <2>. QED  BY <2>2, <2>3 DEF ReportInv, IsTerminalFailure
<1>14. ASSUME NEW r \in Requests, RequestFails(r)
      PROVE  ReportInv'
  <2>1. CASE UNCHANGED monitor
    BY <1>14, <2>1 DEF RequestFails, ReportInv, IsTerminalFailure
  <2>2. CASE Complete(Attempt("request-failure", r, 0, Sanitized(PlaywrightText)))
    <3>1. /\ monitor'.attempt # NoAttempt
          /\ monitor.attempt # NoAttempt => monitor' = monitor
      BY <2>2, SettlesWith
    <3>2. UNCHANGED <<otp, report, sample, arrived>>
      BY <1>14 DEF RequestFails
    <3>. QED  BY <3>1, <3>2 DEF ReportInv, IsTerminalFailure
  <2>. QED  BY <1>14, <2>1, <2>2 DEF RequestFails
<1>. QED
  BY <1>1, <1>2, <1>3, <1>4, <1>5, <1>6, <1>7, <1>8, <1>9, <1>10, <1>11, <1>12, <1>13, <1>14 DEF OtpNext, PageNext

-----------------------------------------------------------------------------
(* How the calls of a verification depend on those of runWithRetry. *)

\* For the others call x is as it was.
Untouched(x) ==
  /\ live'[x] = live[x] /\ pc'[x] = pc[x] /\ result'[x] = result[x]
  /\ attempt'[x] = attempt[x]

LEMMA OneCall ==
  ASSUME RetryTypeOK, NEW c \in Calls, RetryStep(c)
  PROVE  \A x \in Calls \ {c} : Untouched(x)
<1> USE DEF RetryTypeOK, Untouched, End, Fail, TimerFires, AttemptFails
<1>1. ASSUME NEW m \in Modes, Call(c, m)
      PROVE  \A x \in Calls \ {c} : Untouched(x)
  BY <1>1 DEF Call
<1>2. ASSUME NEW a \in live[c], NEW outcome \in Outcomes, OperationSettles(c, a, outcome)
      PROVE  \A x \in Calls \ {c} : Untouched(x)
  BY <1>2 DEF OperationSettles
<1>3. CASE AttemptExpires(c)
  BY <1>3 DEF AttemptExpires
<1>4. CASE HookReturns(c)
  BY <1>4 DEF HookReturns
<1>5. CASE HookThrows(c) \/ HookExpires(c) \/ SleepExpires(c)
  BY <1>5 DEF HookThrows, HookExpires, SleepExpires
<1>6. CASE SleepEnds(c)
  BY <1>6 DEF SleepEnds
<1>. QED  BY <1>1, <1>2, <1>3, <1>4, <1>5, <1>6 DEF RetryStep

\* A call that goes on by itself gets no value, and begins an attempt only after a sleep.
LEMMA GoesOn ==
  ASSUME RetryTypeOK, NEW c \in Calls,
         AttemptExpires(c) \/ HookReturns(c) \/ SleepEnds(c) \/ SleepExpires(c)
  PROVE  /\ result'[c] = result[c] \/ result'[c].kind # "value"
         /\ pc'[c] # "done" \/ result'[c].kind # "value"
         /\ live'[c] = live[c] \/ (SleepEnds(c) /\ pc'[c] = "operation")
         /\ \A x \in Calls \ {c} : Untouched(x)
<1> USE DEF RetryTypeOK, End, Fail, TimerFires, AttemptFails, RetryError, Raised
<1>0. \A x \in Calls \ {c} : Untouched(x)
  BY OneCall DEF RetryStep
<1>1. CASE AttemptExpires(c)
  BY <1>0, <1>1 DEF AttemptExpires
<1>2. CASE HookReturns(c)
  <2>1. live' = live
    BY <1>2 DEF HookReturns
  <2>2. \/ result' = result /\ pc' = [pc EXCEPT ![c] = "sleep"]
        \/ \E answer : answer.kind # "value" /\ End(c, answer)
    BY <1>2 DEF HookReturns
  <2>. QED  BY <1>0, <2>1, <2>2
<1>3. CASE SleepEnds(c)
  BY <1>0, <1>3 DEF SleepEnds
<1>4. CASE SleepExpires(c)
  BY <1>0, <1>4 DEF SleepExpires
<1>. QED  BY <1>1, <1>2, <1>3, <1>4

\* An operation that settles is no longer live, and what it has settled with may be the
\* call's answer.
LEMMA Settling ==
  ASSUME RetryTypeOK, NEW c \in Calls, NEW a \in live[c], NEW outcome \in Outcomes,
         OperationSettles(c, a, outcome)
  PROVE  /\ live'[c] = live[c] \ {a}
         /\ \/ result'[c] = result[c] /\ (pc'[c] = pc[c] \/ pc'[c] = "hook")
            \/ outcome = "value"
         /\ \A x \in Calls \ {c} : Untouched(x)
<1>1. \A x \in Calls \ {c} : Untouched(x)
  BY OneCall DEF RetryStep
<1>. QED  BY <1>1 DEF RetryTypeOK, OperationSettles, AttemptFails

\* A call that begins has no answer yet, or none that is a value.
LEMMA Beginning ==
  ASSUME RetryTypeOK, NEW c \in Calls, NEW m \in Modes, Call(c, m)
  PROVE  /\ result'[c].kind # "value"
         /\ ~ValidMode(m) => live'[c] = {}
         /\ \A x \in Calls \ {c} : Untouched(x)
<1>1. \A x \in Calls \ {c} : Untouched(x)
  BY OneCall DEF RetryStep
<1>. QED  BY <1>1 DEF RetryTypeOK, Call, End, NoResult, Refused

\* The clocks do not go back.
LEMMA ClocksGoOn ==
  ASSUME RetryInv, [RetryNext]_retryVars
  PROVE  /\ loop \in Nat /\ loop' \in Nat /\ loop' >= loop
         /\ now \in Nat /\ now' \in Nat /\ now' >= now
<1>1. loop \in Nat /\ now \in Nat
  BY DEF RetryInv, RetryTypeOK
<1>2. CASE Tick
  BY <1>1, <1>2 DEF Tick, DateTick, LoopTick
<1>3. ASSUME NEW c \in Calls, RetryStep(c)
      PROVE  loop' = loop /\ now' = now
  BY <1>3 DEF RetryStep, Call, OperationSettles, AttemptExpires, HookReturns, HookThrows,
              HookExpires, SleepEnds, SleepExpires
<1>4. CASE UNCHANGED retryVars
  BY <1>1, <1>4 DEF retryVars
<1>. QED  BY <1>1, <1>2, <1>3, <1>4 DEF RetryNext
-----------------------------------------------------------------------------
(* A report of success about the assets. *)

LEMMA OptionsTyped ==
  ASSUME NEW o \in GraphOptions
  PROVE  /\ o.limit \in Int /\ o.checks \in Nat /\ o.checks <= Len(AssetCalls)
         /\ \A i \in 1 .. o.checks : /\ i \in DOMAIN AssetCalls
                                     /\ AssetCalls[i] \in Calls /\ AssetCalls[i] # Graph
         /\ \A i, j \in 1 .. o.checks : AssetCalls[i] = AssetCalls[j] => i = j
         /\ o.window \in Nat
BY GraphAssumption DEF GraphOptionType

\* A new verification has everything before it.
LEMMA VerificationBegins ==
  ASSUME NEW o \in GraphOptions, BeginVerification(o), options' = o,
         windowStart' = healthySince', windowStart' \in Nat \cup {NoTime}
  PROVE  AssetsInv'
<1> USE DEF BeginVerification, Checks, Free, Off
<1>1. AssetsTypeOK'
  BY OptionsTyped DEF AssetsTypeOK
<1>2. QueueInv'
  BY OptionsTyped DEF QueueInv
<1>. QED  BY <1>1, <1>2 DEF AssetsInv, WindowInv

\* What others do does not concern a verification.
LEMMA AssetsStandStill ==
  ASSUME AssetsInv, UNCHANGED assetVars,
         live'[Graph] = {} \/ live[Graph] # {},
         \A i \in Checks : \/ result'[AssetCalls[i]] = result[AssetCalls[i]]
                           \/ result'[AssetCalls[i]].kind # "value"
  PROVE  AssetsInv'
<1>1. UNCHANGED <<options, nextIndex, workers, results, windowStart, passed, healthySince>>
  BY DEF assetVars
<1>2. AssetsTypeOK' /\ WindowInv'
  BY <1>1 DEF AssetsInv, AssetsTypeOK, WindowInv, Checks
<1>3. QueueInv'
  BY <1>1 DEF AssetsInv, QueueInv, Checks
<1>. QED  BY <1>2, <1>3 DEF AssetsInv

LEMMA AssetsStep ==
  ASSUME RetryTypeOK, AssetsInv, AssetsNext
  PROVE  AssetsInv'
<1> USE DEF AssetsInv
<1>0. /\ options \in GraphOptions /\ Graph \in Calls
      /\ GraphModes \subseteq Modes /\ AssetModes \subseteq Modes
  BY GraphAssumption DEF AssetsTypeOK
<1>1. \A i \in Checks : AssetCalls[i] \in Calls /\ AssetCalls[i] # Graph
  BY <1>0, OptionsTyped DEF Checks
<1>2. ASSUME \A i \in Checks : Untouched(AssetCalls[i]), UNCHANGED assetVars,
             live'[Graph] = {} \/ live[Graph] # {}
      PROVE  AssetsInv'
  BY <1>2, AssetsStandStill DEF Untouched
<1>3. CASE GraphCalls
  <2>1. PICK o \in GraphOptions, m \in GraphModes :
          /\ Call(Graph, m)
          /\ IF ValidMode(m)
             THEN /\ options' = o /\ BeginVerification(o)
                  /\ windowStart' = NoTime /\ healthySince' = NoTime
             ELSE UNCHANGED assetVars
    BY <1>3 DEF GraphCalls
  <2>2. CASE ValidMode(m)
    BY <2>1, <2>2, VerificationBegins
  <2>3. CASE ~ValidMode(m)
    BY <1>0, <1>1, <1>2, <2>1, <2>3, Beginning
  <2>. QED  BY <2>2, <2>3
<1>4. ASSUME NEW w \in DOMAIN workers, WorkerTakes(w)
      PROVE  AssetsInv'
  <2>0. /\ options \in GraphOptions /\ options.checks \in Nat /\ nextIndex \in Nat \ {0}
        /\ workers[w] = Free /\ nextIndex' = nextIndex + 1
        /\ UNCHANGED <<options, results, windowStart, passed, healthySince>>
    BY <1>0, <1>4, OptionsTyped DEF WorkerTakes, AssetsTypeOK
  <2>1. CASE /\ nextIndex > options.checks /\ workers' = [workers EXCEPT ![w] = Off]
             /\ UNCHANGED retryVars
    <3>1. AssetsTypeOK' /\ WindowInv'
      BY <2>0, <2>1 DEF AssetsTypeOK, WindowInv, Checks, Off
    <3>2. QueueInv'
      BY <2>0, <2>1 DEF QueueInv, AssetsTypeOK, Checks, Off, Free, retryVars
    <3>. QED  BY <3>1, <3>2
  <2>2. CASE /\ nextIndex <= options.checks /\ workers' = [workers EXCEPT ![w] = nextIndex]
             /\ \E m \in AssetModes : Call(AssetCalls[nextIndex], m)
    <3> DEFINE c == AssetCalls[nextIndex]
    <3>0. nextIndex \in Checks
      BY <2>0, <2>2 DEF Checks
    <3>1. /\ result'[c].kind # "value"
          /\ \A x \in Calls \ {c} : Untouched(x)
      BY <1>0, <1>1, <2>2, <3>0, Beginning
    <3>2. live'[Graph] = live[Graph]
      BY <1>0, <1>1, <3>0, <3>1 DEF Untouched
    <3>3. \A i \in Checks : i # nextIndex => result'[AssetCalls[i]] = result[AssetCalls[i]]
      BY <1>0, <1>1, <3>0, <3>1, OptionsTyped DEF Untouched, Checks
    <3>4. AssetsTypeOK' /\ WindowInv'
      BY <2>0, <2>2, <3>0 DEF AssetsTypeOK, WindowInv, Checks
    <3>5. \A v \in DOMAIN workers' :
            /\ workers'[v] = Off => nextIndex' > options.checks
            /\ workers'[v] \in Checks =>
                 /\ workers'[v] < nextIndex'
                 /\ result'[AssetCalls[workers'[v]]].kind = "value" => workers'[v] \in passed
      <4>1. ASSUME NEW v \in DOMAIN workers, v # w
            PROVE  /\ workers'[v] = Off => nextIndex' > options.checks
                   /\ workers'[v] \in Checks =>
                        /\ workers'[v] < nextIndex'
                        /\ result'[AssetCalls[workers'[v]]].kind = "value" =>
                             workers'[v] \in passed
        <5>1. workers'[v] = workers[v]
          BY <2>2, <4>1
        <5>. QED  BY <2>0, <3>3, <5>1 DEF QueueInv, Checks
      <4>2. workers'[w] = nextIndex /\ nextIndex # Off /\ nextIndex < nextIndex'
        BY <2>0, <2>2 DEF Off
      <4>. QED  BY <2>2, <3>1, <4>1, <4>2
    <3>6. \A i \in DOMAIN results : i < nextIndex' =>
            results[i] # "none" \/ \E v \in DOMAIN workers' : workers'[v] = i
      <4>. SUFFICES ASSUME NEW i \in DOMAIN results, i < nextIndex', results[i] = "none"
                    PROVE  \E v \in DOMAIN workers' : workers'[v] = i
        OBVIOUS
      <4>1. CASE i = nextIndex
        BY <2>2, <4>1
      <4>2. CASE i < nextIndex
        <5>1. PICK v \in DOMAIN workers : workers[v] = i
          BY <4>2 DEF QueueInv
        <5>2. v # w /\ workers'[v] = i
          BY <2>0, <2>2, <5>1 DEF AssetsTypeOK, Checks, Free
        <5>. QED  BY <2>2, <5>2
      <4>. QED  BY <2>0, <4>1, <4>2 DEF AssetsTypeOK, Checks
    <3>7. QueueInv'
      BY <2>0, <2>2, <3>2, <3>5, <3>6 DEF QueueInv, Checks
    <3>. QED  BY <3>4, <3>7
  <2>. QED  BY <1>4, <2>1, <2>2 DEF WorkerTakes
<1>5. ASSUME NEW w \in DOMAIN workers, WorkerResumes(w)
      PROVE  AssetsInv'
  <2> DEFINE i == workers[w]
  <2>0. /\ i \in Checks /\ workers' = [workers EXCEPT ![w] = Free]
        /\ results' = [results EXCEPT ![i] =
             IF result[AssetCalls[i]].kind = "value" THEN "passed" ELSE "failed"]
        /\ UNCHANGED <<options, nextIndex, windowStart, passed, healthySince>>
        /\ UNCHANGED <<live, result>>
    BY <1>5 DEF WorkerResumes, retryVars
  <2> HIDE DEF i
  <2>1. AssetsTypeOK' /\ WindowInv'
    BY <2>0 DEF AssetsTypeOK, WindowInv, Checks, Free
  <2>2. \A v \in DOMAIN workers' : v # w => workers'[v] = workers[v]
    BY <2>0
  <2>3. workers'[w] = Free /\ Free # Off /\ Free \notin Checks
    BY <2>0 DEF Free, Off, Checks
  <2>4. \A j \in DOMAIN results' : results'[j] = "passed" => j \in passed
    BY <2>0 DEF QueueInv, i
  <2>5. \A j \in DOMAIN results' : j < nextIndex =>
          results'[j] # "none" \/ \E v \in DOMAIN workers' : workers'[v] = j
    <3>. SUFFICES ASSUME NEW j \in DOMAIN results, j < nextIndex, results'[j] = "none"
                  PROVE  \E v \in DOMAIN workers' : workers'[v] = j
      BY <2>0
    <3>1. j # i /\ results[j] = "none"
      BY <2>0
    <3>2. PICK v \in DOMAIN workers : workers[v] = j
      BY <3>1 DEF QueueInv
    <3>3. v # w
      BY <3>1, <3>2 DEF i
    <3>. QED  BY <2>0, <2>2, <3>2, <3>3
  <2>6. QueueInv'
    BY <2>0, <2>2, <2>3, <2>4, <2>5 DEF QueueInv, Checks
  <2>. QED  BY <2>1, <2>6
<1>6. CASE VerificationEnds
  <2>1. PICK a \in live[Graph], outcome \in Outcomes : OperationSettles(Graph, a, outcome)
    BY <1>6 DEF VerificationEnds, Outcomes, Failures
  <2>2. /\ live[Graph] # {} /\ \A x \in Calls \ {Graph} : Untouched(x)
    BY <1>0, <2>1, Settling
  <2>3. /\ UNCHANGED <<options, nextIndex, workers, results, passed>>
        /\ windowStart' = healthySince'
        /\ windowStart' \in {NoTime, windowStart, now}
    BY <1>6 DEF VerificationEnds, WindowStart, WindowInv
  <2>4. now \in Nat
    BY DEF RetryTypeOK
  <2>5. AssetsTypeOK' /\ WindowInv'
    BY <2>3, <2>4 DEF AssetsTypeOK, WindowInv, Checks
  <2>6. QueueInv'
    BY <1>1, <2>2, <2>3 DEF QueueInv, Untouched, Checks
  <2>. QED  BY <2>5, <2>6
<1>7. CASE LimitIsRefused
  <2>1. PICK a \in live[Graph] : OperationSettles(Graph, a, "deterministic")
    BY <1>7 DEF LimitIsRefused
  <2>2. /\ live[Graph] # {} /\ \A x \in Calls \ {Graph} : Untouched(x)
    BY <1>0, <2>1, Settling DEF Outcomes, Failures
  <2>. QED  BY <1>1, <1>2, <1>7, <2>2 DEF LimitIsRefused
<1>8. ASSUME NEW i \in DOMAIN AssetCalls, CheckAnswers(i)
      PROVE  AssetsInv'
  <2> DEFINE c == AssetCalls[i]
  <2>0. c \in Calls /\ c # Graph
    BY GraphAssumption
  <2>1. PICK a \in live[c], outcome \in Outcomes :
          /\ OperationSettles(c, a, outcome)
          /\ passed' = IF outcome = "value" THEN passed \cup {i} ELSE passed
          /\ UNCHANGED <<options, nextIndex, workers, results, windowStart, healthySince>>
    <3>1. CheckOutcomes(i) \subseteq Outcomes
      BY DEF CheckOutcomes, CheckAssetOnce, Outcomes, Failures
    <3>. QED  BY <1>8, <3>1 DEF CheckAnswers
  <2>2. /\ result'[c] = result[c] \/ outcome = "value"
        /\ \A x \in Calls \ {c} : Untouched(x)
    BY <2>0, <2>1, Settling
  <2>3. live'[Graph] = live[Graph] /\ passed \subseteq passed'
    BY <1>0, <2>0, <2>1, <2>2 DEF Untouched
  <2>4. \A j \in Checks : result'[AssetCalls[j]] = result[AssetCalls[j]] \/ j \in passed'
    <3>. SUFFICES ASSUME NEW j \in Checks, result'[AssetCalls[j]] # result[AssetCalls[j]]
                  PROVE  j \in passed'
      OBVIOUS
    <3>1. AssetCalls[j] = c
      BY <1>1, <2>2 DEF Untouched
    <3>2. j = i
      BY <1>0, <3>1, OptionsTyped, GraphAssumption DEF Checks
    <3>. QED  BY <2>1, <2>2, <3>2
  <2>5. AssetsTypeOK' /\ WindowInv'
    BY <2>1 DEF AssetsTypeOK, WindowInv, Checks
  <2>6. QueueInv'
    BY <2>1, <2>3, <2>4 DEF QueueInv, Checks
  <2>. QED  BY <2>5, <2>6
<1>9. ASSUME NEW i \in DOMAIN AssetCalls, CheckGoesOn(i)
      PROVE  AssetsInv'
  <2> DEFINE c == AssetCalls[i]
  <2>0. c \in Calls /\ c # Graph
    BY GraphAssumption
  <2>1. /\ result'[c] = result[c] \/ result'[c].kind # "value"
        /\ \A x \in Calls \ {c} : Untouched(x)
    BY <1>9, <2>0, GoesOn DEF CheckGoesOn
  <2>2. live'[Graph] = live[Graph]
    BY <1>0, <2>0, <2>1 DEF Untouched
  <2>3. \A j \in Checks : \/ result'[AssetCalls[j]] = result[AssetCalls[j]]
                          \/ result'[AssetCalls[j]].kind # "value"
    BY <1>1, <2>1 DEF Untouched
  <2>. QED  BY <1>9, <2>2, <2>3, AssetsStandStill DEF CheckGoesOn
<1>10. CASE GraphGoesOn
  <2>1. /\ live'[Graph] = live[Graph] \/ (SleepEnds(Graph) /\ pc'[Graph] = "operation")
        /\ \A x \in Calls \ {Graph} : Untouched(x)
    BY <1>0, <1>10, GoesOn DEF GraphGoesOn
  <2>2. CASE UNCHANGED assetVars /\ live'[Graph] = live[Graph]
    BY <1>1, <1>2, <2>1, <2>2
  <2>3. CASE /\ BeginVerification(options)
             /\ UNCHANGED <<options, windowStart, healthySince>>
    BY <1>0, <2>3, VerificationBegins DEF AssetsTypeOK, WindowInv
  <2>. QED  BY <1>10, <2>1, <2>2, <2>3 DEF GraphGoesOn, SleepEnds, AttemptExpires, HookReturns, SleepExpires
<1>. QED  BY <1>3, <1>4, <1>5, <1>6, <1>7, <1>8, <1>9, <1>10 DEF AssetsNext, WorkersStep

\* Nor do the others' steps.
LEMMA OthersKeepAssets ==
  ASSUME RetryTypeOK, AssetsInv, UNCHANGED assetVars, NEW c \in {Plain, Mail},
         RetryStep(c) \/ UNCHANGED <<live, result>>
  PROVE  AssetsInv'
<1>1. /\ Graph \in Calls /\ c \in Calls /\ c # Graph
      /\ \A i \in Checks : AssetCalls[i] \in Calls /\ AssetCalls[i] # c
  BY ReadinessAssumption, GraphAssumption, MailAssumption, OptionsTyped
     DEF AssetsInv, AssetsTypeOK, Checks
<1>2. \A x \in Calls \ {c} : live'[x] = live[x] /\ result'[x] = result[x]
  BY <1>1, OneCall DEF Untouched
<1>. QED  BY <1>1, <1>2, AssetsStandStill

-----------------------------------------------------------------------------
(* Mails. *)

LEMMA Smallest ==
  ASSUME NEW S, S \subseteq Nat, S # {}
  PROVE  \E n \in S : \A k \in S : n <= k
<1> DEFINE Less == {ss \in Nat \X Nat : ss[1] < ss[2]}
<1>1. OpToRel(<, Nat) = Less
  BY Zenon DEF OpToRel
<1>2. IsWellFoundedOn(Less, Nat)
  BY <1>1, NatLessThanWellFounded, Zenon
<1>3. \E n \in S : \A k \in S : ~ (<<k, n>> \in Less)
  <2> HIDE DEF Less
  <2>. QED  BY <1>2, WFMin, Zenon
<1>4. PICK n \in S : \A k \in S : ~ (<<k, n>> \in Less)
  BY <1>3
<1>5. ASSUME NEW k \in S
      PROVE  n <= k
  <2>1. k \in Nat /\ n \in Nat /\ <<k, n>> \in Nat \X Nat
    OBVIOUS
  <2>2. ~ (k < n)
    BY <1>4, <2>1
  <2>. QED  BY <2>1, <2>2
<1>. QED  BY <1>5

\* Dates that have come have a latest.
LEMMA Latest ==
  ASSUME NEW D, D \subseteq Int, D # {}, NEW t \in Int, \A d \in D : d <= t
  PROVE  \E d \in D : \A e \in D : e <= d
<1> DEFINE S == {t - d : d \in D}
<1>1. S \subseteq Nat /\ S # {}
  OBVIOUS
<1>2. PICK n \in S : \A k \in S : n <= k
  BY <1>1, Smallest
<1>3. PICK d \in D : n = t - d
  OBVIOUS
<1>4. ASSUME NEW e \in D PROVE e <= d
  <2>1. t - d <= t - e
    BY <1>2, <1>3
  <2>. QED  BY <2>1
<1>. QED  BY <1>3, <1>4

\* Every candidate is eligible; they are sorted; and a mail left out by the cut is not newer
\* than any of them.
LEMMA CandidatesAreNewest ==
  ASSUME NEW mails, mails \subseteq Mails, IsFiniteSet(mails), NEW q \in Candidates(mails)
  PROVE  /\ q \in Seq(Mails)
         /\ \A i \in DOMAIN q : q[i] \in Eligible(mails)
         /\ \A i, j \in DOMAIN q : i < j => NewestFirst(q[i], q[j])
         /\ \A m \in Eligible(mails) :
              \/ \E i \in DOMAIN q : q[i] = m
              \/ \A i \in DOMAIN q : NewestFirst(q[i], m)
<1> DEFINE S == Eligible(mails)
           n == Cardinality(S)
<1>1. IsFiniteSet(S) /\ n \in Nat /\ S \subseteq Mails
  BY FS_Subset, FS_CardinalityType DEF Eligible
<1>2. PICK r \in SetToSeqs(S) :
        /\ \A i, j \in DOMAIN r : i < j => NewestFirst(r[i], r[j])
        /\ q = SubSeq(r, 1, Smaller(MaxMessages, Len(r)))
  BY DEF Candidates, Eligible
<1> HIDE DEF S, n
<1>3. r \in [1 .. n -> S] /\ \A i, j \in 1 .. n : i # j => r[i] # r[j]
  BY <1>2 DEF SetToSeqs, n
<1>4. r \in Seq(S) /\ Len(r) = n
  BY <1>1, <1>3
<1>5. r \in Injection(1 .. n, S)
  BY <1>3 DEF Injection, IsInjective
<1>6. \A m \in S : \E i \in 1 .. n : r[i] = m
  <2>1. Cardinality(1 .. n) = n /\ IsFiniteSet(1 .. n)
    BY <1>1, FS_Interval
  <2>2. r \in Surjection(1 .. n, S)
    BY <1>1, <1>5, <2>1, FS_Injection DEF n
  <2>. QED  BY <2>2 DEF Surjection
<1> DEFINE k == Smaller(MaxMessages, n)
<1>7. k \in Nat /\ k <= n
  BY <1>1, MailAssumption DEF Smaller
<1>8. /\ q \in Seq(S) /\ DOMAIN q = 1 .. k
      /\ \A i \in 1 .. k : q[i] = r[i]
  <2>1. q = SubSeq(r, 1, k)
    BY <1>2, <1>4
  <2>. QED  BY <1>1, <1>4, <1>7, <2>1, SubSeqProperties
<1> HIDE DEF k
<1>9. \A i, j \in 1 .. n : i < j => NewestFirst(r[i], r[j])
  BY <1>2, <1>3
<1>10. ASSUME NEW m \in S
       PROVE  (\E i \in 1 .. k : r[i] = m) \/ (\A i \in 1 .. k : NewestFirst(r[i], m))
  <2>1. PICK j \in 1 .. n : r[j] = m
    BY <1>6
  <2>2. CASE j <= k
    BY <2>1, <2>2
  <2>3. CASE j > k
    BY <1>1, <1>7, <1>9, <2>1, <2>3
  <2>. QED  BY <1>1, <1>7, <2>2, <2>3
<1>. QED  BY <1>1, <1>3, <1>7, <1>8, <1>9, <1>10 DEF S


\* A probe that ends belongs to a call, and without a value leaves it unanswered.
LEMMA ProbeSettles ==
  ASSUME RetryInv, NEW outcome \in Outcomes, ProbeEnds(outcome)
  PROVE  /\ phase' = "none" /\ candidates' = <<>>
         /\ pc[Mail] # "idle" /\ attempt'[Mail] = attempt[Mail] /\ now' = now
         /\ outcome # "value" /\ ~MailSucceeded => ~MailSucceeded'
<1>1. Mail \in Calls
  BY MailAssumption
<1>2. PICK a \in live[Mail] : OperationSettles(Mail, a, outcome)
  BY DEF ProbeEnds
<1>3. RetryTypeOK /\ pc[Mail] # "idle"
  BY <1>1, <1>2 DEF RetryInv, CallInv, AttemptsOf
<1>4. now' = now /\ attempt'[Mail] = attempt[Mail]
  BY <1>2 DEF OperationSettles
<1>5. outcome # "value" => result'[Mail] = result[Mail] /\ pc'[Mail] \in {pc[Mail], "hook"}
  BY <1>1, <1>2, <1>3, Settling
<1>. QED  BY <1>3, <1>4, <1>5 DEF ProbeEnds, MailSucceeded

\* The first candidate is the newest that is left.
LEMMA FirstIsNewest ==
  ASSUME MailTypeOK, ProbeInv, phase = "reading", candidates # <<>>
  PROVE  LET m == Head(candidates) IN
         /\ m \in Eligible(searched) /\ m \in Mails
         /\ Tail(candidates) \in Seq(Mails)
         /\ \A e \in Eligible(searched) \ missed :
              ~NewestFirst(m, e) => ~IsWanted(ExtractValue(e))
<1> DEFINE m == Head(candidates)
<1>1. m = candidates[1] /\ 1 \in DOMAIN candidates /\ m \in Mails /\ Tail(candidates) \in Seq(Mails)
  BY DEF MailTypeOK
<1>2. NewestFirst(m, m)
  <2>1. IsDated(m) => Created[m] \in Int
    BY <1>1, MailAssumption DEF IsDated
  <2>. QED  BY <2>1 DEF NewestFirst
<1>3. \A i \in DOMAIN candidates : NewestFirst(m, candidates[i])
  <2>. SUFFICES ASSUME NEW i \in DOMAIN candidates PROVE NewestFirst(m, candidates[i])
    OBVIOUS
  <2>1. i = 1 \/ 1 < i
    BY DEF MailTypeOK
  <2>. QED  BY <1>1, <1>2, <2>1 DEF ProbeInv
<1>. QED  BY <1>1, <1>3 DEF ProbeInv

\* A value that is taken is that of the newest mail that has one.
LEMMA TakeKeeps ==
  ASSUME MailTypeOK, ProbeInv, phase = "reading", candidates # <<>>,
         IsWanted(ExtractValue(Head(candidates))), found' = Head(candidates),
         UNCHANGED <<label, searched, missed>>
  PROVE  NewestWins'
<1> DEFINE m == Head(candidates)
<1>1. /\ m \in Eligible(searched)
      /\ \A e \in Eligible(searched) \ missed :
              ~NewestFirst(m, e) => ~IsWanted(ExtractValue(e))
  BY FirstIsNewest
<1>2. \A e : ExtractValue(e)' = ExtractValue(e) /\ (\A v : IsWanted(v)' = IsWanted(v))
  BY DEF ExtractValue, IsWanted
<1> HIDE DEF m
<1>3. found' = m /\ IsWanted(ExtractValue(m))
  BY DEF m
<1>. QED  BY <1>1, <1>2, <1>3 DEF NewestWins, Eligible

\* A mail that is passed over was not wanted or could not be read.
LEMMA PassKeeps ==
  ASSUME MailTypeOK, ProbeInv, phase = "reading", candidates # <<>>,
         candidates' = Tail(candidates),
         UNCHANGED <<phase, label, searched>> /\ UNCHANGED retryVars,
         \/ missed' = missed /\ ~IsWanted(ExtractValue(Head(candidates)))
         \/ missed' = missed \cup {Head(candidates)}
  PROVE  ProbeInv' /\ candidates' \in Seq(Mails)
<1> DEFINE m == Head(candidates)
           rest == Tail(candidates)
<1>1. /\ candidates \in Seq(Mails) /\ m = candidates[1] /\ rest \in Seq(Mails)
      /\ Len(rest) = Len(candidates) - 1
      /\ \A i \in 1 .. Len(rest) : rest[i] = candidates[i + 1]
  BY HeadTailProperties DEF MailTypeOK
<1> HIDE DEF m, rest
<1>2. DOMAIN candidates = 1 .. Len(candidates) /\ DOMAIN rest = 1 .. Len(rest)
      /\ Len(candidates) \in Nat /\ Len(rest) \in Nat
  BY <1>1
<1>3. \A i \in DOMAIN rest : i + 1 \in DOMAIN candidates /\ rest[i] = candidates[i + 1]
  BY <1>1, <1>2
<1>4. \A i \in DOMAIN rest : rest[i] \in Eligible(searched)
  BY <1>3 DEF ProbeInv
<1>5. \A i, j \in DOMAIN rest : i < j => NewestFirst(rest[i], rest[j])
  <2>. SUFFICES ASSUME NEW i \in DOMAIN rest, NEW j \in DOMAIN rest, i < j
                PROVE  NewestFirst(rest[i], rest[j])
    OBVIOUS
  <2>1. i + 1 < j + 1
    BY <1>2
  <2>. QED  BY <1>3, <2>1 DEF ProbeInv
<1>6. ASSUME NEW e \in Eligible(searched), e \notin missed', IsWanted(ExtractValue(e))
      PROVE  \/ \E i \in DOMAIN rest : rest[i] = e
             \/ \A i \in DOMAIN rest : NewestFirst(rest[i], e)
  <2>1. e # m /\ e \notin missed
    BY <1>6 DEF m
  <2>2. \/ \E i \in DOMAIN candidates : candidates[i] = e
        \/ \A i \in DOMAIN candidates : NewestFirst(candidates[i], e)
    BY <1>6, <2>1 DEF ProbeInv
  <2>3. ASSUME NEW i \in DOMAIN candidates, candidates[i] = e
        PROVE  \E j \in DOMAIN rest : rest[j] = e
    <3>1. i # 1
      BY <1>1, <2>1, <2>3
    <3>2. i - 1 \in DOMAIN rest
      BY <1>1, <1>2, <3>1
    <3>3. rest[i - 1] = candidates[(i - 1) + 1] /\ (i - 1) + 1 = i
      BY <1>2, <1>3, <3>2
    <3>. QED  BY <2>3, <3>2, <3>3
  <2>. QED  BY <1>3, <2>2, <2>3
<1>7. UNCHANGED <<live, pc, result>>
  BY DEF retryVars
<1>8. candidates' = rest
  BY DEF rest
<1>9. \A e : ExtractValue(e)' = ExtractValue(e) /\ (\A v : IsWanted(v)' = IsWanted(v))
  BY DEF ExtractValue, IsWanted
<1>10. \A e : Eligible(searched)' = Eligible(searched)
  BY DEF Eligible
<1>. QED  BY <1>1, <1>4, <1>5, <1>6, <1>7, <1>8, <1>9, <1>10 DEF ProbeInv, MailSucceeded

SnapshotType ==
  [searches : Nat, results : Nat, candidates : Nat, undated : Nat, fetched : Nat,
   misses : Nat, excluded : Nat, errors : Nat, statuses : {snapshot.statuses},
   newest : Int \cup {NoDate}]

\* A failed request is counted with its status, and changes no other count.
LEMMA CountsStand ==
  ASSUME MailTypeOK, DiagnosticsAddUp,
         snapshot' = snapshot \/ \E e : snapshot' = WithRequestError(e),
         UNCHANGED <<box, label, values>>, attempt'[Mail] = attempt[Mail],
         pc[Mail] # "idle" \/ pc'[Mail] = pc[Mail]
  PROVE  DiagnosticsAddUp' /\ snapshot' \in SnapshotType' /\ snapshot'.candidates = snapshot.candidates
<1>1. snapshot \in SnapshotType
  BY DEF MailTypeOK, SnapshotType
<1>2. /\ snapshot' \in SnapshotType'
      /\ snapshot'.searches = snapshot.searches /\ snapshot'.results = snapshot.results
      /\ snapshot'.candidates = snapshot.candidates /\ snapshot'.fetched = snapshot.fetched
      /\ snapshot'.misses = snapshot.misses /\ snapshot'.excluded = snapshot.excluded
      /\ snapshot'.newest = snapshot.newest
      /\ \/ snapshot'.errors = snapshot.errors /\ snapshot'.statuses = snapshot.statuses
         \/ snapshot'.errors = snapshot.errors + 1 /\ snapshot'.statuses # {}
  <2>1. CASE snapshot' = snapshot
    BY <1>1, <2>1 DEF SnapshotType
  <2>2. ASSUME NEW e, snapshot' = WithRequestError(e)
        PROVE  /\ snapshot' \in SnapshotType'
               /\ snapshot'.searches = snapshot.searches /\ snapshot'.results = snapshot.results
               /\ snapshot'.candidates = snapshot.candidates
               /\ snapshot'.fetched = snapshot.fetched
               /\ snapshot'.misses = snapshot.misses /\ snapshot'.excluded = snapshot.excluded
               /\ snapshot'.newest = snapshot.newest
               /\ snapshot'.errors = snapshot.errors + 1 /\ snapshot'.statuses # {}
    <3>1. snapshot' = [snapshot EXCEPT !.errors = snapshot.errors + 1,
                                       !.statuses = snapshot.statuses \cup {e.status}]
      BY <1>1, <2>2 DEF SnapshotType, WithRequestError
    <3>2. /\ snapshot'.errors = snapshot.errors + 1
          /\ snapshot'.statuses = snapshot.statuses \cup {e.status}
      BY <1>1, <3>1 DEF SnapshotType
    <3>3. snapshot' \in SnapshotType'
      <4> DEFINE st == snapshot.statuses \cup {e.status}
      <4> HIDE DEF st
      <4>1. snapshot' = [snapshot EXCEPT !.errors = snapshot.errors + 1, !.statuses = st]
        BY <3>1 DEF st
      <4>2. snapshot' \in [searches : Nat, results : Nat, candidates : Nat, undated : Nat,
                           fetched : Nat, misses : Nat, excluded : Nat, errors : Nat,
                           statuses : {st}, newest : Int \cup {NoDate}]
        <5> DEFINE mid == [snapshot EXCEPT !.errors = snapshot.errors + 1]
        <5>1. snapshot.errors + 1 \in Nat
          BY <1>1 DEF SnapshotType
        <5>2. mid \in SnapshotType
          BY <1>1, <5>1 DEF SnapshotType
        <5>3. snapshot' = [mid EXCEPT !.statuses = st]
          BY <1>1, <4>1 DEF SnapshotType
        <5> HIDE DEF mid
        <5>. QED  BY <5>2, <5>3 DEF SnapshotType
      <4>3. st = snapshot'.statuses
        BY <3>2 DEF st
      <4>. QED  BY <4>2, <4>3 DEF SnapshotType
    <3>4. snapshot'.statuses # {}
      BY <3>2
    <3>. QED  BY <1>1, <3>1, <3>2, <3>3, <3>4 DEF SnapshotType
  <2>. QED  BY <2>1, <2>2
<1>3. \A v : IsWanted(v)' = IsWanted(v)
  BY DEF IsWanted
<1>4. {m \in DOMAIN values : IsWanted(values[m])}' = {m \in DOMAIN values : IsWanted(values[m])}
  BY <1>3
<1>5. snapshot.errors \in Nat
  BY <1>1 DEF SnapshotType
<1>6. /\ (snapshot'.errors = 0) = (snapshot'.statuses = {})
      /\ snapshot'.newest = NoDate \/ \E m \in Summaries(box)' : Created[m] = snapshot'.newest
  BY <1>2, <1>5 DEF DiagnosticsAddUp, Summaries
<1>. QED  BY <1>2, <1>4, <1>6 DEF DiagnosticsAddUp

\* A probe ends without a value.
LEMMA EndsWithout ==
  ASSUME RetryInv, MailInv, phase # "none", NEW outcome \in Failures, ProbeEnds(outcome),
         snapshot' = snapshot \/ \E e : snapshot' = WithRequestError(e),
         UNCHANGED <<box, label, values, found, searched>>
  PROVE  MailInv'
<1>1. /\ phase' = "none" /\ candidates' = <<>> /\ ~MailSucceeded'
      /\ pc[Mail] # "idle" /\ attempt'[Mail] = attempt[Mail] /\ now' = now
  BY ProbeSettles DEF Outcomes, Failures, MailInv, ProbeInv
<1>2. /\ DiagnosticsAddUp' /\ snapshot' \in SnapshotType'
      /\ snapshot'.candidates = snapshot.candidates
  BY <1>1, CountsStand DEF MailInv
<1>3. MailTypeOK'
  <2>1. MailTypeOK /\ searched \subseteq Summaries(box)
    BY DEF MailInv, MailTypeOK
  <2>2. candidates' \in Seq(Mails)
    BY <1>1
  <2>3. searched' \subseteq Summaries(box')
    BY <2>1 DEF Summaries
  <2>. QED  BY <1>1, <1>2, <2>1, <2>2, <2>3 DEF MailTypeOK, SnapshotType, Summaries
<1>4. ValuesInv'
  BY <1>1, <1>2 DEF MailInv, ValuesInv, Eligible, ExtractValue
<1>5. ProbeInv' /\ NewestWins'
  BY <1>1 DEF ProbeInv, NewestWins, MailSucceeded
<1>. QED  BY <1>2, <1>3, <1>4, <1>5 DEF MailInv
\* What is known of the mails concerns them and the call, not the time that passes.
LEMMA MailStandsStill ==
  ASSUME MailInv, UNCHANGED mailVars, now \in Nat, now' \in Nat, now' >= now,
         live'[Mail] = live[Mail], attempt'[Mail] = attempt[Mail],
         MailSucceeded' => MailSucceeded,
         pc[Mail] # "idle" \/ pc'[Mail] = pc[Mail]
  PROVE  MailInv'
<1>1. UNCHANGED <<box, label, phase, candidates, values, snapshot, found, searched, missed>>
  BY DEF mailVars
<1>2. DiagnosticsAddUp'
  BY <1>1, CountsStand DEF MailInv
<1>3. MailTypeOK'
  <2>1. \A m \in box : IsDated(m) => Created[m] <= now'
    <3>. SUFFICES ASSUME NEW m \in box, IsDated(m) PROVE Created[m] <= now'
      OBVIOUS
    <3>1. Created[m] \in Int /\ Created[m] <= now
      BY MailAssumption DEF MailInv, MailTypeOK, IsDated
    <3>. QED  BY <3>1
  <2>. QED  BY <1>1, <2>1 DEF MailInv, MailTypeOK, Summaries, IsDated
<1>4. ValuesInv'
  BY <1>1 DEF MailInv, ValuesInv, Eligible, ExtractValue
<1>5. \A v : IsWanted(v)' = IsWanted(v)
  BY <1>1 DEF IsWanted
<1>6. \A m : ExtractValue(m)' = ExtractValue(m)
  BY <1>1 DEF ExtractValue
<1>7. ProbeInv'
  BY <1>1, <1>5, <1>6 DEF MailInv, ProbeInv, Eligible
<1>8. NewestWins'
  BY <1>1, <1>5, <1>6 DEF MailInv, NewestWins, MailSucceeded
<1>. QED  BY <1>2, <1>3, <1>4, <1>7, <1>8 DEF MailInv

\* A mail arrives.
LEMMA DeliverKeeps ==
  ASSUME RetryTypeOK, MailInv, NEW m \in Mails, Deliver(m)
  PROVE  MailInv'
<1>1. /\ box' = box \cup {m} /\ UNCHANGED <<now, pc, live, attempt, result>>
      /\ UNCHANGED <<label, phase, candidates, values, snapshot, found, searched, missed>>
      /\ IsDated(m) => Created[m] <= now
  BY DEF Deliver, retryVars
<1>2. MailTypeOK'
  BY <1>1, FS_AddElement DEF MailInv, MailTypeOK, Summaries, IsDated
<1>3. ValuesInv'
  BY <1>1 DEF MailInv, ValuesInv, Eligible, ExtractValue
<1>4. \A v : IsWanted(v)' = IsWanted(v)
  BY <1>1 DEF IsWanted
<1>5. \A n : ExtractValue(n)' = ExtractValue(n)
  BY <1>1 DEF ExtractValue
<1>6. ProbeInv'
  BY <1>1, <1>4, <1>5 DEF MailInv, ProbeInv, Eligible, MailSucceeded
<1>7. NewestWins'
  BY <1>1, <1>4, <1>5 DEF MailInv, NewestWins
<1>8. {n \in DOMAIN values : IsWanted(values[n])}' = {n \in DOMAIN values : IsWanted(values[n])}
  BY <1>1, <1>4
<1>9. Summaries(box) \subseteq Summaries(box)'
  BY <1>1 DEF Summaries
<1>10. DiagnosticsAddUp'
  BY <1>1, <1>8, <1>9 DEF MailInv, DiagnosticsAddUp
<1>. QED  BY <1>2, <1>3, <1>6, <1>7, <1>10 DEF MailInv

\* A call forgets what the one before it has met.
LEMMA MailCallsKeeps ==
  ASSUME RetryTypeOK, MailInv, MailCalls
  PROVE  MailInv'
<1>1. Mail \in Calls /\ MailModes \subseteq Modes
  BY MailAssumption
<1>2. PICK m \in MailModes :
        /\ Call(Mail, m)
        /\ IF ValidMode(m) THEN BeginProbe(EmptySnapshot)
           ELSE snapshot' = EmptySnapshot /\ UNCHANGED <<phase, candidates>>
  BY DEF MailCalls
<1>3. /\ label' \in {"link", "code"} /\ values' = [i \in {} |-> NoValue]
      /\ UNCHANGED <<box, searched, missed>>
  BY DEF MailCalls
<1>4. /\ ~MailSucceeded' /\ live[Mail] = {} /\ now' = now
      /\ ValidMode(m) => live'[Mail] # {} /\ attempt'[Mail] = 1
      /\ ~ValidMode(m) => attempt'[Mail] = 0
  <2>1. result'[Mail].kind # "value"
    BY <1>1, <1>2, Beginning
  <2>2. live[Mail] = {} /\ now' = now
    BY <1>2 DEF Call
  <2>3. ValidMode(m) => live'[Mail] = {1} /\ attempt'[Mail] = 1
    BY <1>1, <1>2 DEF Call, RetryTypeOK
  <2>4. ~ValidMode(m) => attempt'[Mail] = 0
    BY <1>1, <1>2 DEF Call, RetryTypeOK
  <2>. QED  BY <2>1, <2>2, <2>3, <2>4 DEF MailSucceeded
<1>5. phase = "none" /\ candidates \in Seq(Mails)
  BY <1>4 DEF MailInv, MailTypeOK, ProbeInv
<1>6. /\ phase' \in {"none", "searching"} /\ candidates' \in Seq(Mails)
      /\ phase' = "searching" => live'[Mail] # {}
  <2>1. CASE ValidMode(m)
    BY <1>2, <1>4, <2>1 DEF BeginProbe
  <2>2. CASE ~ValidMode(m)
    BY <1>2, <1>5, <2>2
  <2>. QED  BY <2>1, <2>2
<1>7. PICK n \in {0, 1} :
        /\ snapshot' = [searches |-> n, results |-> 0, candidates |-> 0, undated |-> 0,
                        fetched |-> 0, misses |-> 0, excluded |-> 0, errors |-> 0,
                        statuses |-> {}, newest |-> NoDate]
        /\ attempt'[Mail] = n
  BY <1>2, <1>4 DEF BeginProbe, EmptySnapshot
<1>8. DOMAIN values' = {} /\ values' = [i \in DOMAIN values' |-> ExtractValue(i)']
  BY <1>3
<1>9. MailTypeOK'
  BY <1>3, <1>4, <1>6, <1>7 DEF MailInv, MailTypeOK, Summaries
<1>10. ValuesInv'
  BY <1>6, <1>8 DEF ValuesInv
<1>11. ProbeInv' /\ NewestWins'
  BY <1>4, <1>6 DEF ProbeInv, NewestWins, MailSucceeded
<1>12. DiagnosticsAddUp'
  <2>1. {i \in DOMAIN values : IsWanted(values[i])}' = {}
    BY <1>8
  <2>. QED  BY <1>7, <1>8, <2>1, FS_EmptySet DEF DiagnosticsAddUp
<1>. QED  BY <1>9, <1>10, <1>11, <1>12 DEF MailInv

\* The call goes on by itself: when it begins an attempt it begins a probe, and counts it.
LEMMA MailGoesOnKeeps ==
  ASSUME RetryInv, MailInv, MailGoesOn
  PROVE  MailInv'
<1>1. Mail \in Calls /\ RetryTypeOK /\ now \in Nat /\ live[Mail] \subseteq {attempt[Mail]}
      /\ (pc[Mail] = "sleep" => live[Mail] = {})
  BY MailAssumption DEF RetryInv, RetryTypeOK, CallInv, AttemptsOf
<1>2. CASE UNCHANGED mailVars /\ (AttemptExpires(Mail) \/ HookReturns(Mail) \/ SleepExpires(Mail))
  <2>1. ~MailSucceeded' /\ (live'[Mail] = live[Mail] \/ (SleepEnds(Mail) /\ pc'[Mail] = "operation"))
    BY <1>1, <1>2, GoesOn DEF MailSucceeded
  <2>2. /\ live'[Mail] = live[Mail] /\ attempt'[Mail] = attempt[Mail] /\ now' = now
        /\ pc[Mail] # "idle"
    BY <1>2 DEF AttemptExpires, HookReturns, SleepExpires
  <2>. QED  BY <1>1, <1>2, <2>1, <2>2, MailStandsStill
<1>3. CASE SleepEnds(Mail) /\ UNCHANGED mailVars /\ pc'[Mail] # "operation"
  <2>1. /\ ~MailSucceeded' /\ live'[Mail] = live[Mail]
    BY <1>1, <1>3, GoesOn DEF MailSucceeded
  <2>2. attempt'[Mail] = attempt[Mail] /\ now' = now /\ pc[Mail] # "idle"
    BY <1>1, <1>3 DEF SleepEnds, RetryTypeOK
  <2>. QED  BY <1>1, <1>3, <2>1, <2>2, MailStandsStill
<1>4. CASE /\ SleepEnds(Mail) /\ pc'[Mail] = "operation" /\ BeginProbe(snapshot)
           /\ UNCHANGED <<box, label, values, found, searched, missed>>
  <2>1. /\ live'[Mail] # {} /\ attempt'[Mail] = attempt[Mail] + 1 /\ now' = now
        /\ pc[Mail] = "sleep" /\ ~MailSucceeded' /\ attempt[Mail] \in Nat
    BY <1>1, <1>4 DEF SleepEnds, RetryTypeOK, MailSucceeded, Fail, End
  <2>2. phase = "none" /\ attempt[Mail] >= 1
    BY <1>1, <2>1 DEF MailInv, ProbeInv, RetryInv, CallInv, FailuresOf, Active
  <2>3. snapshot \in SnapshotType /\ snapshot.searches = attempt[Mail]
    BY <2>1, <2>2 DEF MailInv, MailTypeOK, SnapshotType, DiagnosticsAddUp
  <2>4. /\ snapshot' = [snapshot EXCEPT !.searches = snapshot.searches + 1]
        /\ snapshot.searches + 1 \in Nat
    BY <1>4, <2>3 DEF BeginProbe, SnapshotType
  <2>5. /\ snapshot' \in SnapshotType
        /\ snapshot'.searches = snapshot.searches + 1 /\ snapshot'.statuses = snapshot.statuses
        /\ snapshot'.results = snapshot.results /\ snapshot'.candidates = snapshot.candidates
        /\ snapshot'.fetched = snapshot.fetched /\ snapshot'.misses = snapshot.misses
        /\ snapshot'.excluded = snapshot.excluded /\ snapshot'.errors = snapshot.errors
        /\ snapshot'.newest = snapshot.newest
    BY <2>3, <2>4 DEF SnapshotType
  <2>6. phase' = "searching" /\ candidates' = <<>>
    BY <1>4 DEF BeginProbe
  <2>7. MailTypeOK'
    BY <1>4, <2>1, <2>5, <2>6 DEF MailInv, MailTypeOK, SnapshotType, Summaries
  <2>8. ValuesInv'
    BY <1>4, <2>2, <2>5, <2>6 DEF MailInv, ValuesInv, Eligible, ExtractValue
  <2>9. ProbeInv' /\ NewestWins'
    BY <2>1, <2>6 DEF ProbeInv, NewestWins, MailSucceeded
  <2>10. {n \in DOMAIN values : IsWanted(values[n])}' = {n \in DOMAIN values : IsWanted(values[n])}
    BY <1>4 DEF IsWanted
  <2>11. DiagnosticsAddUp'
    BY <1>4, <2>1, <2>3, <2>5, <2>10 DEF MailInv, DiagnosticsAddUp, Summaries
  <2>. QED  BY <2>7, <2>8, <2>9, <2>11 DEF MailInv
<1>. QED  BY <1>2, <1>3, <1>4 DEF MailGoesOn, mailVars
\* The newest date is one of a mail that was found, now or before.
LEMMA NewestDateIsFound ==
  ASSUME NEW mails, mails \subseteq Mails, now \in Nat, \A m \in mails : IsDated(m) => Created[m] <= now,
         snapshot.newest = NoDate \/ (snapshot.newest \in Int /\ snapshot.newest <= now)
  PROVE  \/ NewestDate(mails) = NoDate
         \/ /\ NewestDate(mails) \in Int
            /\ NewestDate(mails) = snapshot.newest \/ \E m \in mails : Created[m] = NewestDate(mails)
<1> DEFINE dates == ({Created[m] : m \in mails} \cup {snapshot.newest}) \ {NoDate}
<1>1. dates \subseteq Int
  BY MailAssumption
<1>2. \A d \in dates : d <= now
  BY DEF IsDated
<1>3. NewestDate(mails) = IF dates = {} THEN NoDate ELSE CHOOSE d \in dates : \A e \in dates : e <= d
  BY DEF NewestDate
<1>4. CASE dates # {}
  <2>1. \E d \in dates : \A e \in dates : e <= d
    <3> HIDE DEF dates
    <3>1. now \in Int
      OBVIOUS
    <3>. QED  BY <1>1, <1>2, <1>4, <3>1, Latest, Zenon
  <2>2. NewestDate(mails) \in dates
    <3> HIDE DEF dates
    <3>. QED  BY <1>3, <1>4, <2>1
  <2>. QED  BY <1>1, <2>2
<1>. QED  BY <1>3, <1>4

\* A search gives the probe the newest of what it found, and counts it.
LEMMA SearchAnswersKeeps ==
  ASSUME RetryTypeOK, MailInv, SearchAnswers
  PROVE  MailInv'
<1> DEFINE mails == Summaries(box)
<1>1. /\ candidates' \in Candidates(mails) /\ searched' = mails /\ missed' = {}
      /\ snapshot' = WithSearch(mails) /\ phase = "searching" /\ phase' = "reading"
      /\ UNCHANGED <<box, label, values, found, now, pc, live, attempt, result>>
  BY DEF SearchAnswers, retryVars
<1>2. mails \subseteq Mails /\ mails \subseteq box /\ IsFiniteSet(mails) /\ searched \subseteq mails
  BY FS_Subset DEF Summaries, MailInv, MailTypeOK
<1> HIDE DEF mails
<1>3. /\ Eligible(mails) \subseteq mails
      /\ Cardinality(Eligible(mails)) \in Nat /\ Cardinality(mails) \in Nat
      /\ Cardinality(Eligible(mails)) <= Cardinality(mails)
  BY <1>2, FS_Subset, FS_CardinalityType DEF Eligible
<1>4. Cardinality({m \in mails : ~IsDated(m)}) \in Nat
  BY <1>2, FS_Subset, FS_CardinalityType
<1>5. ~MailSucceeded' /\ live'[Mail] # {}
  BY <1>1 DEF MailInv, ProbeInv, MailSucceeded
<1>6. snapshot \in SnapshotType /\ now \in Nat
  BY DEF MailInv, MailTypeOK, SnapshotType, RetryTypeOK
<1>7. \A m \in mails : IsDated(m) => Created[m] <= now
  BY <1>2 DEF MailInv, MailTypeOK
<1>8. snapshot.newest = NoDate \/ (snapshot.newest \in Int /\ \E m \in mails : Created[m] = snapshot.newest)
  BY <1>6 DEF MailInv, DiagnosticsAddUp, SnapshotType, mails
<1>9. snapshot.newest = NoDate \/ (snapshot.newest \in Int /\ snapshot.newest <= now)
  BY <1>7, <1>8, MailAssumption DEF IsDated
<1> DEFINE latest == NewestDate(Eligible(mails))
           r == snapshot.results + Cardinality(mails)
           u == snapshot.undated + Cardinality({m \in mails : ~IsDated(m)})
           c == snapshot.candidates + Cardinality(Eligible(mails))
<1>10. latest = NoDate \/ (latest \in Int /\ \E m \in mails : Created[m] = latest)
  <2> HIDE DEF latest
  <2>1. \A m \in Eligible(mails) : IsDated(m) => Created[m] <= now
    BY <1>3, <1>7
  <2>2. Eligible(mails) \subseteq Mails
    BY <1>2, <1>3
  <2>3. \/ latest = NoDate
        \/ latest \in Int /\ (latest = snapshot.newest \/ \E m \in Eligible(mails) : Created[m] = latest)
    BY <1>6, <1>9, <2>1, <2>2, NewestDateIsFound DEF latest
  <2>. QED  BY <1>3, <1>8, <2>3
<1>11. r \in Nat /\ u \in Nat /\ c \in Nat
       /\ r = snapshot.results + Cardinality(mails)
       /\ c = snapshot.candidates + Cardinality(Eligible(mails))
  BY <1>3, <1>4, <1>6 DEF SnapshotType
<1>12. snapshot' = [snapshot EXCEPT !.results = r, !.undated = u, !.candidates = c, !.newest = latest]
  BY <1>1, <1>6 DEF WithSearch, Eligible, SnapshotType
<1> HIDE DEF latest, r, u, c
<1>13. /\ snapshot'.results = r /\ snapshot'.candidates = c /\ snapshot'.newest = latest
       /\ snapshot'.searches = snapshot.searches /\ snapshot'.fetched = snapshot.fetched
       /\ snapshot'.misses = snapshot.misses /\ snapshot'.excluded = snapshot.excluded
       /\ snapshot'.errors = snapshot.errors /\ snapshot'.statuses = snapshot.statuses
  BY <1>6, <1>12 DEF SnapshotType
<1>14. snapshot' \in SnapshotType
  BY <1>6, <1>10, <1>11, <1>12 DEF SnapshotType
<1>15. /\ candidates' \in Seq(Mails)
       /\ \A i \in DOMAIN candidates' : candidates'[i] \in Eligible(mails)
       /\ \A i, j \in DOMAIN candidates' : i < j => NewestFirst(candidates'[i], candidates'[j])
       /\ \A m \in Eligible(mails) :
            \/ \E i \in DOMAIN candidates' : candidates'[i] = m
            \/ \A i \in DOMAIN candidates' : NewestFirst(candidates'[i], m)
  BY <1>1, <1>2, CandidatesAreNewest
<1>16. MailTypeOK'
  BY <1>1, <1>2, <1>13, <1>14, <1>15 DEF MailInv, MailTypeOK, SnapshotType, Summaries, mails
<1>17. ValuesInv'
  <2>1. DOMAIN values' \subseteq Eligible(searched')
    BY <1>1, <1>2 DEF MailInv, ValuesInv, Eligible
  <2>2. values' = [m \in DOMAIN values' |-> ExtractValue(m)']
    BY <1>1 DEF MailInv, ValuesInv, ExtractValue
  <2>3. Cardinality(Eligible(mails)) <= snapshot'.candidates
    BY <1>3, <1>6, <1>11, <1>13 DEF SnapshotType
  <2>. QED  BY <1>1, <2>1, <2>2, <2>3 DEF ValuesInv, Eligible
<1>18. ProbeInv' /\ NewestWins'
  BY <1>1, <1>5, <1>15 DEF ProbeInv, NewestWins, MailSucceeded, Eligible
<1>19. {n \in DOMAIN values : IsWanted(values[n])}' = {n \in DOMAIN values : IsWanted(values[n])}
  BY <1>1 DEF IsWanted
<1>20. /\ snapshot'.fetched <= snapshot'.candidates /\ snapshot'.candidates <= snapshot'.results
  <2>1. /\ snapshot.fetched <= snapshot.candidates /\ snapshot.candidates <= snapshot.results
        /\ snapshot.fetched \in Nat /\ snapshot.candidates \in Nat /\ snapshot.results \in Nat
    BY <1>6 DEF MailInv, DiagnosticsAddUp, SnapshotType
  <2>. QED  BY <1>3, <1>11, <1>13, <2>1
<1>21. DiagnosticsAddUp'
  BY <1>1, <1>10, <1>13, <1>19, <1>20 DEF MailInv, DiagnosticsAddUp, mails, Summaries
<1>. QED  BY <1>16, <1>17, <1>18, <1>21 DEF MailInv

\* A search that fails ends the probe.
LEMMA SearchFailsKeeps ==
  ASSUME RetryInv, MailInv, SearchFails
  PROVE  MailInv'
<1>1. PICK outcome \in Failures :
        ProbeEnds(outcome) /\ (snapshot' = snapshot \/ \E e : snapshot' = WithRequestError(e))
  BY DEF SearchFails, Failures
<1>. QED  BY <1>1, EndsWithout DEF SearchFails

\* A candidate whose value is known is taken with it, or passed over.
LEMMA TakeOrPassKeeps ==
  ASSUME RetryInv, MailInv, phase = "reading", candidates # <<>>,
         TakeOrPass(Head(candidates), ExtractValue(Head(candidates))),
         UNCHANGED <<label, searched, missed>>
  PROVE  /\ ProbeInv' /\ NewestWins' /\ candidates' \in Seq(Mails) /\ phase' \in {"none", "reading"}
         /\ pc[Mail] # "idle" /\ attempt'[Mail] = attempt[Mail] /\ now' = now
<1>0. MailTypeOK /\ ProbeInv
  BY DEF MailInv
<1>1. CASE /\ IsWanted(ExtractValue(Head(candidates))) /\ found' = Head(candidates)
           /\ ProbeEnds("value")
  <2>1. "value" \in Outcomes
    BY DEF Outcomes
  <2>2. /\ phase' = "none" /\ candidates' = <<>>
        /\ pc[Mail] # "idle" /\ attempt'[Mail] = attempt[Mail] /\ now' = now
    BY <1>1, <2>1, ProbeSettles
  <2>3. NewestWins'
    BY <1>0, <1>1, TakeKeeps
  <2>. QED  BY <2>2, <2>3 DEF ProbeInv
<1>2. CASE /\ ~IsWanted(ExtractValue(Head(candidates)))
           /\ candidates' = Tail(candidates) /\ UNCHANGED <<phase, found>> /\ UNCHANGED retryVars
  <2>1. ProbeInv' /\ candidates' \in Seq(Mails)
    BY <1>0, <1>2, PassKeeps
  <2>2. UNCHANGED <<now, pc, attempt, result>> /\ ~MailSucceeded /\ live[Mail] # {}
    BY <1>0, <1>2 DEF retryVars, ProbeInv
  <2>3. pc[Mail] # "idle"
    BY <2>2, MailAssumption DEF RetryInv, CallInv, AttemptsOf
  <2>. QED  BY <1>2, <2>1, <2>2, <2>3 DEF NewestWins, MailSucceeded
<1>. QED  BY <1>1, <1>2 DEF TakeOrPass

LEMMA KnownCandidateKeeps ==
  ASSUME RetryInv, MailInv, KnownCandidate
  PROVE  MailInv'
<1> DEFINE m == Head(candidates)
<1>1. /\ phase = "reading" /\ candidates # <<>> /\ m \in DOMAIN values
      /\ TakeOrPass(m, values[m])
      /\ UNCHANGED <<box, label, values, snapshot, searched, missed>>
  BY DEF KnownCandidate
<1>2. values[m] = ExtractValue(m)
  BY <1>1 DEF MailInv, ValuesInv
<1>3. /\ ProbeInv' /\ NewestWins' /\ candidates' \in Seq(Mails) /\ phase' \in {"none", "reading"}
      /\ pc[Mail] # "idle" /\ attempt'[Mail] = attempt[Mail] /\ now' = now
  BY <1>1, <1>2, TakeOrPassKeeps
<1>4. MailTypeOK'
  BY <1>1, <1>3 DEF MailInv, MailTypeOK, Summaries
<1>5. ValuesInv'
  BY <1>1 DEF MailInv, ValuesInv, Eligible, ExtractValue
<1>6. DiagnosticsAddUp'
  BY <1>1, <1>3, CountsStand DEF MailInv
<1>. QED  BY <1>3, <1>4, <1>5, <1>6 DEF MailInv
\* A mail that is read is judged once, and one of those that were found.
LEMMA ReadAnswersKeeps ==
  ASSUME RetryInv, MailInv, ReadAnswers
  PROVE  MailInv'
<1> DEFINE m == Head(candidates)
           value == ExtractValue(m)
<1>1. /\ phase = "reading" /\ candidates # <<>> /\ m \notin DOMAIN values
      /\ values' = [i \in DOMAIN values \cup {m} |-> IF i = m THEN value ELSE values[i]]
      /\ snapshot' = WithMail(value)
      /\ TakeOrPass(m, value)
      /\ UNCHANGED <<box, label, searched, missed>>
  BY DEF ReadAnswers
<1>2. /\ ProbeInv' /\ NewestWins' /\ candidates' \in Seq(Mails) /\ phase' \in {"none", "reading"}
      /\ pc[Mail] # "idle" /\ attempt'[Mail] = attempt[Mail] /\ now' = now
  BY <1>1, TakeOrPassKeeps
<1>3. m \in Eligible(searched)
  BY <1>1, FirstIsNewest DEF MailInv
<1>4. /\ DOMAIN values \subseteq Eligible(searched) /\ IsFiniteSet(Eligible(searched))
      /\ Cardinality(Eligible(searched)) <= snapshot.candidates
  <2>1. Eligible(searched) \subseteq box /\ IsFiniteSet(box)
    BY DEF MailInv, MailTypeOK, Eligible, Summaries
  <2>. QED  BY <1>1, <2>1, FS_Subset DEF MailInv, ValuesInv
<1>5. \A e : ExtractValue(e)' = ExtractValue(e) /\ (\A v : IsWanted(v)' = IsWanted(v))
  BY <1>1 DEF ExtractValue, IsWanted
<1>6. value = ExtractValue(m)
  OBVIOUS
<1>7. snapshot \in SnapshotType
  BY DEF MailInv, MailTypeOK, SnapshotType
<1> DEFINE W == {i \in DOMAIN values : IsWanted(values[i])}
<1>8. {i \in DOMAIN values : IsWanted(values[i])}' = IF IsWanted(value) THEN W \cup {m} ELSE W
  <2> HIDE DEF m, value
  <2>1. DOMAIN values' = DOMAIN values \cup {m} /\ values'[m] = value
        /\ \A i \in DOMAIN values : values'[i] = values[i]
    BY <1>1
  <2>2. {i \in DOMAIN values : IsWanted(values[i])}' = {i \in DOMAIN values' : IsWanted(values'[i])}
    BY <1>5
  <2>. QED  BY <2>1, <2>2
<1> HIDE DEF m, value
<1>9. IsFiniteSet(DOMAIN values) /\ IsFiniteSet(W) /\ m \notin W
      /\ Cardinality(W) \in Nat /\ Cardinality(DOMAIN values) \in Nat
  BY <1>1, <1>4, FS_Subset, FS_CardinalityType
<1>10. /\ DOMAIN values' = DOMAIN values \cup {m} /\ DOMAIN values' \subseteq Eligible(searched)
       /\ Cardinality(DOMAIN values') = Cardinality(DOMAIN values) + 1
       /\ Cardinality(W \cup {m}) = Cardinality(W) + 1
  BY <1>1, <1>3, <1>4, <1>9, FS_AddElement
<1>11. Cardinality(DOMAIN values') <= snapshot.candidates
  <2>1. /\ Cardinality(DOMAIN values') <= Cardinality(Eligible(searched))
        /\ Cardinality(Eligible(searched)) \in Nat
    BY <1>4, <1>10, FS_Subset, FS_CardinalityType
  <2>. QED  BY <1>4, <1>7, <1>9, <1>10, <2>1 DEF SnapshotType
<1> DEFINE misses == IF value = NoValue THEN snapshot.misses + 1 ELSE snapshot.misses
           excluded == IF value # NoValue /\ value \in Excluded[label]
                       THEN snapshot.excluded + 1 ELSE snapshot.excluded
           wanted == IF IsWanted(value) THEN Cardinality(W) + 1 ELSE Cardinality(W)
<1>12. /\ misses \in Nat /\ excluded \in Nat /\ wanted \in Nat
       /\ misses + excluded + wanted = snapshot.misses + snapshot.excluded + Cardinality(W) + 1
  BY <1>7, <1>9 DEF SnapshotType, IsWanted
<1>13. Cardinality({i \in DOMAIN values : IsWanted(values[i])}') = wanted
  BY <1>8, <1>10
<1>14. /\ snapshot' = [snapshot EXCEPT !.fetched = snapshot.fetched + 1, !.misses = misses,
                                       !.excluded = excluded]
       /\ snapshot.fetched + 1 \in Nat
  BY <1>1, <1>7 DEF WithMail, SnapshotType
<1> HIDE DEF misses, excluded, wanted
<1>15. /\ snapshot'.fetched = snapshot.fetched + 1 /\ snapshot'.misses = misses
       /\ snapshot'.excluded = excluded /\ snapshot'.searches = snapshot.searches
       /\ snapshot'.results = snapshot.results /\ snapshot'.candidates = snapshot.candidates
       /\ snapshot'.errors = snapshot.errors /\ snapshot'.statuses = snapshot.statuses
       /\ snapshot'.newest = snapshot.newest
  BY <1>7, <1>14 DEF SnapshotType
<1>16. snapshot' \in SnapshotType
  BY <1>7, <1>12, <1>14 DEF SnapshotType
<1>17. MailTypeOK'
  BY <1>1, <1>2, <1>15, <1>16 DEF MailInv, MailTypeOK, SnapshotType, Summaries
<1>18. ValuesInv'
  <2>1. values' = [i \in DOMAIN values' |-> ExtractValue(i)']
    BY <1>1, <1>5, <1>6 DEF MailInv, ValuesInv
  <2>. QED  BY <1>1, <1>4, <1>10, <1>15, <2>1 DEF ValuesInv, Eligible
<1>19. /\ snapshot.fetched = Cardinality(DOMAIN values)
       /\ snapshot.fetched = snapshot.misses + snapshot.excluded + Cardinality(W)
       /\ snapshot.candidates <= snapshot.results
       /\ (snapshot.errors = 0) = (snapshot.statuses = {})
       /\ attempt[Mail] > 0 => snapshot.searches = attempt[Mail]
       /\ snapshot.newest = NoDate \/ \E e \in Summaries(box) : Created[e] = snapshot.newest
  BY <1>2 DEF MailInv, DiagnosticsAddUp
<1>20. /\ snapshot'.fetched = Cardinality(DOMAIN values')
       /\ snapshot'.fetched =
            snapshot'.misses + snapshot'.excluded + Cardinality({i \in DOMAIN values : IsWanted(values[i])}')
       /\ snapshot'.fetched <= snapshot'.candidates
  <2>1. snapshot.fetched \in Nat /\ snapshot.misses \in Nat /\ snapshot.excluded \in Nat
    BY <1>7 DEF SnapshotType
  <2>. QED  BY <1>9, <1>10, <1>11, <1>12, <1>13, <1>15, <1>19, <2>1
<1>21. DiagnosticsAddUp'
  BY <1>1, <1>2, <1>15, <1>19, <1>20 DEF DiagnosticsAddUp, Summaries
<1>. QED  BY <1>2, <1>17, <1>18, <1>21 DEF MailInv

\* A read that fails for good ends the probe; one that may be repeated leaves the mail to
\* the next, and is noted.
LEMMA ReadFailsKeeps ==
  ASSUME RetryInv, MailInv, ReadFails
  PROVE  MailInv'
<1>1. phase = "reading" /\ candidates # <<>> /\ UNCHANGED <<box, label, values, found, searched>>
  BY DEF ReadFails
<1>2. CASE ProbeEnds("deterministic") /\ UNCHANGED <<snapshot, missed>>
  BY <1>1, <1>2, EndsWithout DEF Failures
<1>3. ASSUME NEW e, /\ snapshot' = WithRequestError(e) /\ candidates' = Tail(candidates)
                    /\ missed' = missed \cup {Head(candidates)}
                    /\ UNCHANGED phase /\ UNCHANGED retryVars
      PROVE  MailInv'
  <2>1. ProbeInv' /\ candidates' \in Seq(Mails)
    BY <1>1, <1>3, PassKeeps DEF MailInv
  <2>2. /\ UNCHANGED <<now, pc, attempt, result>> /\ ~MailSucceeded /\ live[Mail] # {}
        /\ phase' = phase
    BY <1>1, <1>3 DEF retryVars, ProbeInv, MailInv
  <2>3. /\ DiagnosticsAddUp' /\ snapshot' \in SnapshotType'
        /\ snapshot'.candidates = snapshot.candidates
    BY <1>1, <1>3, <2>2, CountsStand DEF MailInv
  <2>4. MailTypeOK'
    BY <1>1, <2>1, <2>2, <2>3 DEF MailInv, MailTypeOK, SnapshotType, Summaries
  <2>5. ValuesInv'
    BY <1>1, <2>2, <2>3 DEF MailInv, ValuesInv, Eligible, ExtractValue
  <2>6. NewestWins'
    BY <2>2 DEF NewestWins, MailSucceeded
  <2>. QED  BY <2>1, <2>3, <2>4, <2>5, <2>6 DEF MailInv
<1>. QED  BY <1>2, <1>3 DEF ReadFails

LEMMA NothingFoundKeeps ==
  ASSUME RetryInv, MailInv, NothingFound
  PROVE  MailInv'
BY EndsWithout DEF NothingFound, Failures

LEMMA MailStep ==
  ASSUME RetryInv, MailInv, MailNext
  PROVE  MailInv'
BY DeliverKeeps, MailCallsKeeps, SearchAnswersKeeps, SearchFailsKeeps, KnownCandidateKeeps,
   ReadAnswersKeeps, ReadFailsKeeps, NothingFoundKeeps, MailGoesOnKeeps
   DEF MailNext, RetryInv

\* Nor do the others' steps concern the mails.
LEMMA OthersKeepMails ==
  ASSUME RetryInv, MailInv, UNCHANGED mailVars, now' \in Nat, now' >= now,
         Untouched(Mail)
  PROVE  MailInv'
<1>1. now \in Nat
  BY DEF RetryInv, RetryTypeOK
<1>2. MailSucceeded' = MailSucceeded
  BY DEF MailSucceeded, Untouched
<1>. QED  BY <1>1, <1>2, MailStandsStill DEF Untouched

-----------------------------------------------------------------------------
(* What holds of all waits. *)

ReadinessInv == RetryInv /\ AssetsInv /\ MailInv /\ OtpInv

LEMMA ReadinessInvInit == Init => ReadinessInv
<1>. SUFFICES ASSUME Init PROVE ReadinessInv
  OBVIOUS
<1>1. RetryInv
  BY RetryInvInit DEF Init
<1>2. AssetsInv
  <2>1. options \in GraphOptions
    BY GraphAssumption DEF Init, AssetsInit
  <2>2. live[Graph] = {}
    BY GraphAssumption DEF Init, RetryInit
  <2>. QED  BY <2>1, <2>2 DEF Init, AssetsInit, AssetsInv, AssetsTypeOK, QueueInv, WindowInv
<1>3. OtpInv
  <2>1. MonitorInv
    BY DEF Init, OtpInit, MonitorInv, NoAttempt, Attempt, Unheard
  <2>2. AttemptIsTrue /\ ReportInv
    BY AttemptFields DEF Init, OtpInit, AttemptIsTrue, ReportInv, NoReport
  <2>. QED  BY <2>1, <2>2 DEF OtpInv
<1>4. MailInv
  <2>1. /\ pc[Mail] = "idle" /\ DOMAIN values = {} /\ values = [m \in DOMAIN values |-> ExtractValue(m)]
        /\ {m \in DOMAIN values : IsWanted(values[m])} = {}
        /\ snapshot = [searches |-> 0, results |-> 0, candidates |-> 0, undated |-> 0,
                       fetched |-> 0, misses |-> 0, excluded |-> 0, errors |-> 0,
                       statuses |-> {}, newest |-> NoDate]
        /\ box = {} /\ label = "link" /\ phase = "none" /\ candidates = <<>> /\ searched = {}
    BY MailAssumption DEF Init, RetryInit, MailInit, EmptySnapshot
  <2>2. MailTypeOK /\ ValuesInv /\ ProbeInv /\ NewestWins
    BY <2>1, FS_EmptySet DEF MailTypeOK, ValuesInv, ProbeInv, NewestWins
  <2>3. DiagnosticsAddUp
    BY <2>1, FS_EmptySet DEF DiagnosticsAddUp
  <2>. QED  BY <2>2, <2>3 DEF MailInv
<1>. QED  BY <1>1, <1>2, <1>3, <1>4 DEF ReadinessInv

LEMMA ReadinessInvStep ==
  ASSUME ReadinessInv, [Next]_vars
  PROVE  ReadinessInv'
<1>0. RetryInv /\ AssetsInv /\ MailInv /\ OtpInv /\ RetryTypeOK
  BY DEF ReadinessInv, RetryInv
<1>1. [RetryNext]_retryVars
  BY <1>0, WaitsByRetrying
<1>2. RetryInv'
  BY <1>0, <1>1, NextKeepsInv
<1>3. /\ loop \in Nat /\ loop' \in Nat /\ loop' >= loop
      /\ now' \in Nat /\ now' >= now
  BY <1>0, <1>1, ClocksGoOn
<1>4. RedirectTimeout \in Nat /\ Plain \in Calls \ {Mail} /\ Mail \in Calls
  BY CognitoAssumption, ReadinessAssumption, MailAssumption
<1>5. CASE Clock \/ UNCHANGED vars
  <2>1. UNCHANGED <<assetVars, mailVars, otpVars, live, pc, attempt, result>>
    BY <1>5 DEF Clock, Tick, DateTick, LoopTick, vars, retryVars
  <2>2. MailInv'
    BY <1>0, <1>3, <2>1, OthersKeepMails DEF Untouched
  <2>. QED  BY <1>0, <1>2, <1>3, <2>1, <2>2, OthersKeepAssets, OtpStandsStill DEF ReadinessInv
<1>6. CASE PlainNext
  <2>1. RetryStep(Plain) /\ UNCHANGED <<assetVars, mailVars, otpVars>>
    BY <1>6, PlainRetries
  <2>2. Untouched(Mail)
    BY <1>0, <1>4, <2>1, OneCall
  <2>3. MailInv'
    BY <1>0, <1>3, <2>1, <2>2, OthersKeepMails
  <2>. QED  BY <1>0, <1>2, <1>3, <2>1, <2>3, OthersKeepAssets, OtpStandsStill DEF ReadinessInv
<1>7. CASE AssetsNext /\ UNCHANGED <<mailVars, otpVars>>
  <2>1. Untouched(Mail)
    <3>1. CASE UNCHANGED retryVars
      BY <3>1 DEF retryVars, Untouched
    <3>2. ASSUME NEW c \in Calls \ {Plain, Mail}, RetryStep(c)
          PROVE  Untouched(Mail)
      BY <1>0, <1>4, <3>2, OneCall
    <3>. QED  BY <1>0, <1>7, <3>1, <3>2, AssetsRetry
  <2>2. MailInv'
    BY <1>0, <1>3, <1>7, <2>1, OthersKeepMails
  <2>. QED  BY <1>0, <1>2, <1>3, <1>7, <2>2, AssetsStep, OtpStandsStill DEF ReadinessInv
<1>8. CASE MailNext /\ UNCHANGED <<assetVars, otpVars>>
  <2>1. RetryStep(Mail) \/ UNCHANGED <<live, result>>
    BY <1>8, MailRetries DEF retryVars
  <2>2. MailInv'
    BY <1>0, <1>8, MailStep
  <2>. QED  BY <1>0, <1>2, <1>3, <1>8, <2>1, <2>2, OthersKeepAssets, OtpStandsStill DEF ReadinessInv
<1>9. CASE OtpNext /\ UNCHANGED <<assetVars, mailVars>>
  <2>1. UNCHANGED <<live, pc, attempt, result, loop>>
    BY <1>9 DEF OtpNext, retryVars
  <2>2. AssetsInv'
    BY <1>0, <1>9, <2>1, OthersKeepAssets
  <2>3. MailInv'
    BY <1>0, <1>3, <1>9, <2>1, OthersKeepMails DEF Untouched
  <2>4. MonitorInv' /\ AttemptIsTrue' /\ ReportInv'
    BY <1>0, <1>3, <1>4, <1>9, <2>1, MonitorStep, AttemptStep, ReportStep
  <2>. QED  BY <1>2, <2>2, <2>3, <2>4 DEF ReadinessInv, OtpInv
<1>. QED  BY <1>5, <1>6, <1>7, <1>8, <1>9 DEF Next

\* What is known of the calls, of a verification, of the mails and of a challenge holds in
\* every state of the waits.
THEOREM ReadinessInvariant == Spec => []ReadinessInv
<1>1. Init => ReadinessInv
  BY ReadinessInvInit
<1>2. ReadinessInv /\ [Next]_vars => ReadinessInv'
  BY ReadinessInvStep
<1>. QED  BY <1>1, <1>2, PTL DEF Spec

\* Whatever a test waits for, it waits as runWithRetry does: what the theorems of
\* Retry_proofs say of its calls holds of the waits.
THEOREM WaitsAreRetries == Spec => RetrySpec
<1>1. Init => RetryInit
  BY DEF Init
<1>2. ReadinessInv /\ [Next]_vars => [RetryNext]_retryVars
  BY WaitsByRetrying DEF ReadinessInv
<1>. QED  BY <1>1, <1>2, ReadinessInvariant, PTL DEF Spec, RetrySpec

\* What a failed wait for a redirect reports of the challenge is what happened, and holds
\* no secret; and no listener is left on the page.
THEOREM RedirectReportsTrue == Spec => []RedirectReportsAreTrue
<1>1. ReadinessInv => RedirectReportsAreTrue
  <2>. SUFFICES ASSUME ReadinessInv PROVE RedirectReportsAreTrue
    OBVIOUS
  <2>1. MonitorInv /\ AttemptIsTrue /\ ReportInv
    BY DEF ReadinessInv, OtpInv
  <2>2. otp \in {"idle", "done"} => ~monitor.listening
    BY <2>1 DEF MonitorInv, ReportInv
  <2>3. ASSUME report.kind = "failed"
        PROVE  LET a == report.challenge IN
               /\ report.cause = "challenge" => IsTerminalFailure(a)
               /\ a.type \in {"response", "request-failure"} =>
                    /\ IsCognitoOtpChallengeRequest(a.request)
                    /\ sent[a.request].status = a.status
                    /\ sent[a.request].state =
                         IF a.type = "response" THEN "answered" ELSE "failed"
               /\ a.type = "not-observed" => heardAt = Unheard \/ heardAt >= monitor.due
               /\ (a.text \cup report.pageText \cup report.lastError) \cap Secrets = {}
    BY <2>1, <2>3 DEF AttemptIsTrue, ReportInv
  <2>. QED  BY <2>1, <2>2, <2>3 DEF RedirectReportsAreTrue, ReportInv
<1>. QED  BY <1>1, ReadinessInvariant, PTL

\* The answer of a mailbox comes from the newest mail of its search that has a wanted
\* value, and what its answer or timeout is explained by adds up.
THEOREM MailAnswersExplained == Spec => []MailAnswersAreExplained
<1>1. ReadinessInv => MailAnswersAreExplained
  BY DEF ReadinessInv, MailInv, MailAnswersAreExplained
<1>. QED  BY <1>1, ReadinessInvariant, PTL

\* When the graph's call gets a value, its verification has ended: all checks were taken,
\* have ended and have passed, and have for the window.
LEMMA SuccessStep ==
  ASSUME ReadinessInv, [Next]_vars, ~GraphSucceeded, GraphSucceeded'
  PROVE  /\ SuccessIsFresh'
         /\ healthySince' # NoTime /\ now - healthySince' >= options.window
<1>0. /\ RetryTypeOK /\ AssetsTypeOK /\ QueueInv /\ WindowInv /\ Graph \in Calls
  BY GraphAssumption DEF ReadinessInv, RetryInv, AssetsInv
<1>1. ASSUME Untouched(Graph) PROVE FALSE
  BY <1>1 DEF GraphSucceeded, Untouched
<1>2. ASSUME NEW c \in Calls \ {Graph}, RetryStep(c) \/ UNCHANGED retryVars PROVE FALSE
  BY <1>0, <1>1, <1>2, OneCall DEF Untouched, retryVars
<1>3. CASE VerificationEnds
  <2>1. PICK a \in live[Graph], outcome \in Outcomes :
          /\ OperationSettles(Graph, a, outcome)
          /\ outcome = "value" => Healthy /\ ~(now - WindowStart < options.window)
    BY <1>3 DEF VerificationEnds, Outcomes, Failures
  <2>2. outcome = "value"
    BY <1>0, <2>1, Settling DEF GraphSucceeded
  <2>3. /\ healthySince' = WindowStart /\ now' = now /\ UNCHANGED <<options, passed>>
        /\ options.limit >= 1 /\ \A w \in DOMAIN workers : workers[w] = Off
    BY <1>0, <1>3, <2>1, <2>2 DEF VerificationEnds, WindowInv, WindowStart, OperationSettles
  <2>4. now \in Nat /\ WindowStart \in Nat /\ options.window \in Nat
        /\ options.limit \in Int /\ options.checks \in Nat
    BY <1>0, OptionsTyped DEF RetryTypeOK, AssetsTypeOK, WindowStart
  <2>5. healthySince' # NoTime /\ now - healthySince' >= options.window
    BY <2>1, <2>2, <2>3, <2>4 DEF NoTime
  <2>6. ASSUME NEW i \in Checks
        PROVE  i \in passed
    <3>1. DOMAIN results = Checks /\ 1 \in DOMAIN workers
      BY <1>0, <2>1, <2>3, <2>4 DEF QueueInv, Checks, Smaller
    <3>2. nextIndex > options.checks /\ nextIndex \in Nat
      BY <1>0, <2>3, <3>1 DEF QueueInv, AssetsTypeOK
    <3>3. i < nextIndex /\ i # Off
      BY <2>4, <3>2 DEF Checks, Off
    <3>4. results[i] # "none"
      BY <1>0, <2>3, <3>1, <3>3 DEF QueueInv
    <3>5. results[i] = "passed"
      BY <1>0, <2>1, <2>2, <3>1, <3>4 DEF Healthy, AssetsTypeOK
    <3>. QED  BY <1>0, <3>1, <3>5 DEF QueueInv
  <2>. QED  BY <2>3, <2>5, <2>6 DEF SuccessIsFresh, Checks
<1>4. CASE LimitIsRefused
  <2>1. PICK a \in live[Graph] : OperationSettles(Graph, a, "deterministic")
    BY <1>4 DEF LimitIsRefused
  <2>. QED  BY <1>0, <2>1, Settling DEF Outcomes, Failures, GraphSucceeded
<1>5. CASE GraphCalls \/ GraphGoesOn
  <2>1. GraphModes \subseteq Modes
    BY GraphAssumption
  <2>2. pc'[Graph] # "done" \/ result'[Graph].kind # "value"
    BY <1>0, <1>5, <2>1, Beginning, GoesOn DEF GraphCalls, GraphGoesOn
  <2>. QED  BY <2>2 DEF GraphSucceeded
<1>6. ASSUME NEW w \in DOMAIN workers, WorkerTakes(w) \/ WorkerResumes(w) PROVE FALSE
  <2>1. CASE UNCHANGED retryVars
    BY <1>1, <2>1 DEF Untouched, retryVars
  <2>2. CASE nextIndex <= options.checks /\ \E m \in AssetModes : Call(AssetCalls[nextIndex], m)
    <3>1. nextIndex \in 1 .. options.checks /\ AssetModes \subseteq Modes
      BY <1>0, <2>2, OptionsTyped, GraphAssumption DEF AssetsTypeOK
    <3>2. AssetCalls[nextIndex] \in Calls \ {Graph}
      BY <1>0, <3>1, OptionsTyped DEF AssetsTypeOK
    <3>. QED  BY <1>2, <2>2, <3>1, <3>2 DEF RetryStep
  <2>. QED  BY <1>6, <2>1, <2>2 DEF WorkerTakes, WorkerResumes
<1>7. ASSUME NEW i \in DOMAIN AssetCalls, CheckAnswers(i) \/ CheckGoesOn(i) PROVE FALSE
  <2>1. AssetCalls[i] \in Calls \ {Graph}
    BY GraphAssumption
  <2>2. CheckOutcomes(i) \subseteq Outcomes
    BY DEF CheckOutcomes, CheckAssetOnce, Outcomes, Failures
  <2>. QED  BY <1>2, <1>7, <2>1, <2>2 DEF CheckAnswers, CheckGoesOn, RetryStep
<1>8. CASE PlainNext \/ MailNext
  BY <1>2, <1>8, PlainRetries, MailRetries, ReadinessAssumption, MailAssumption
<1>9. CASE Clock \/ OtpNext \/ UNCHANGED vars
  BY <1>1, <1>9 DEF Clock, Tick, DateTick, LoopTick, OtpNext, vars, retryVars, Untouched
<1>. QED
  BY <1>3, <1>4, <1>5, <1>6, <1>7, <1>8, <1>9 DEF Next, AssetsNext, WorkersStep

\* The assets are said to be deployed only when one verification has just found every one
\* of them healthy, and all that ended in the window before it have.
THEOREM SuccessStable == Spec => SuccessIsStable
<1>1. ReadinessInv /\ [Next]_vars =>
        [~GraphSucceeded /\ GraphSucceeded'
           => /\ SuccessIsFresh'
              /\ healthySince' # NoTime /\ now - healthySince' >= options.window
        ]_<<retryVars, assetVars>>
  BY SuccessStep
<1>. QED  BY <1>1, ReadinessInvariant, PTL DEF Spec, SuccessIsStable
=============================================================================

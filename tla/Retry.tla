------------------------------- MODULE Retry -------------------------------
(***************************************************************************)
(* runWithRetry of packages/playwright-toolkit/src/lib/retry.ts: calls     *)
(* that repeat an operation, either a number of times ("classified") or    *)
(* until a time is over ("poll").                                          *)
(*                                                                         *)
(* The operation and the hook are the caller's: they may answer at any     *)
(* time or never.  A poll races each of them, and its own sleep, against   *)
(* a timer; what loses the race goes on in the background, its signal      *)
(* aborted.  Timers are Node's: one that is due may fire up to LateBy      *)
(* milliseconds late, because the process was busy.  They follow a clock   *)
(* of their own, whose milliseconds begin elsewhere than those of          *)
(* Date.now, so that a timer can be early by what the code reads.          *)
(***************************************************************************)
EXTENDS Integers, Sequences, FiniteSets

CONSTANTS
  Calls,    \* the calls of runWithRetry, each of them used again once it is over
  Modes,    \* the modes they are made with
  LateBy,
  LastStart, \* bound: the last time at which a test begins to wait
  MaxTime   \* bound: the clock stops there

Kinds == {"classified", "poll"}
ModeType ==
  [kind : {"classified"}, hooked : BOOLEAN, maxAttempts : Int,
   delays : SUBSET Int, computed : BOOLEAN]
    \cup
  [kind : {"poll"}, hooked : BOOLEAN, timeout : Int,
   intervals : Seq(Int), classifies : BOOLEAN]

ASSUME RetryAssumption ==
  /\ Modes \subseteq ModeType /\ Modes # {}
  /\ LateBy \in Nat /\ LastStart \in Nat /\ MaxTime \in Nat

VARIABLES
  now,      \* nowImplementation()
  loop,     \* the clock of the event loop's timers
  mode,     \* params.mode of each call
  pc,       \* where the call is: which of its promises it awaits
  since,    \* startedAtMs
  attempt,  \* attemptNumber
  live,     \* the attempts whose operations have not settled
  aborted,  \* the attempts whose signals are aborted
  error,    \* lastError
  due,      \* when the timer of runWithinRetryBudget is to fire
  wake,     \* when the sleep ends
  result    \* what the call has answered

retryVars == <<now, loop, mode, pc, since, attempt, live, aborted, error, due, wake, result>>

Failures == {"transient", "deterministic"}   \* of operations, as isTransient judges them
Errors == Failures \cup {"timedOut"}         \* and PollAttemptTimeoutError
Reasons == {"attempts-exhausted", "non-transient", "timeout"}
Outcomes == {"value"} \cup Failures

Larger(a, b) == IF a >= b THEN a ELSE b
Smaller(a, b) == IF a <= b THEN a ELSE b

NoResult == [kind |-> "none"]
Value(n) == [kind |-> "value", attempts |-> n]
RetryError(reason, n, elapsed, cause) ==
  [kind |-> "RetryError", reason |-> reason, attempts |-> n,
   elapsed |-> elapsed, cause |-> cause]
Raised == [kind |-> "raised"]    \* an error of the hook or of the delay function
Refused == [kind |-> "refused"]  \* validateRetryMode threw

Polls(c) == mode[c].kind = "poll"
Elapsed(c) == now - since[c]     \* getElapsedMs; the clock does not go back here
CanFire(t) == loop >= t

\* Mutant: every race is given the whole timeout.
WholeBudget(m, from) == IF m.kind = "poll" THEN loop + Larger(m.timeout, 1) ELSE 0

\* The timer that runWithinRetryBudget starts: a poll's remaining time, but setTimeout
\* turns 0 into 1.
Budget(m, from) == IF m.kind = "poll" THEN loop + Larger(from + m.timeout - now, 1) ELSE 0

ValidMode(m) ==
  \/ /\ m.kind = "classified"
     /\ m.maxAttempts >= 1
     /\ ~m.computed => \A d \in m.delays : d >= 0
  \/ /\ m.kind = "poll"
     /\ m.timeout > 0
     /\ m.intervals # <<>>
     /\ \A i \in DOMAIN m.intervals : m.intervals[i] >= 0

\* Mutant: maxAttempts counts the repetitions.
TerminalReasonOffByOne(c) ==
  IF ~Polls(c)
  THEN IF error[c] # "transient" THEN "non-transient"
       ELSE IF attempt[c] > mode[c].maxAttempts THEN "attempts-exhausted" ELSE "go on"
  ELSE IF error[c] = "timedOut" THEN "timeout"
       ELSE IF mode[c].classifies /\ error[c] # "transient" THEN "non-transient"
       ELSE IF Elapsed(c) >= mode[c].timeout THEN "timeout" ELSE "go on"

\* getTerminalReason: "go on" is its undefined.
TerminalReason(c) ==
  IF ~Polls(c)
  THEN IF error[c] # "transient" THEN "non-transient"
       ELSE IF attempt[c] >= mode[c].maxAttempts THEN "attempts-exhausted" ELSE "go on"
  ELSE IF error[c] = "timedOut" THEN "timeout"
       ELSE IF mode[c].classifies /\ error[c] # "transient" THEN "non-transient"
       ELSE IF Elapsed(c) >= mode[c].timeout THEN "timeout" ELSE "go on"

\* getRetryDelayMs: what delayMs may say, or the interval of this attempt, the last one
\* from then on, within the time that is left.
RetryDelays(c) ==
  IF ~Polls(c) THEN mode[c].delays
  ELSE LET intervals == mode[c].intervals
       IN  {Smaller(intervals[Smaller(attempt[c], Len(intervals))],
                    Larger(mode[c].timeout - Elapsed(c), 0))}
-----------------------------------------------------------------------------
RetryInit ==
  /\ now = 0 /\ loop = 0
  /\ mode = [c \in Calls |-> CHOOSE m \in Modes : TRUE]
  /\ pc = [c \in Calls |-> "idle"]
  /\ since = [c \in Calls |-> 0]
  /\ attempt = [c \in Calls |-> 0]
  /\ live = [c \in Calls |-> {}]
  /\ aborted = [c \in Calls |-> {}]
  /\ error = [c \in Calls |-> "none"]
  /\ due = [c \in Calls |-> 0]
  /\ wake = [c \in Calls |-> 0]
  /\ result = [c \in Calls |-> NoResult]

End(c, answer) ==
  /\ pc' = [pc EXCEPT ![c] = "done"]
  /\ result' = [result EXCEPT ![c] = answer]

Fail(c, reason) == End(c, RetryError(reason, attempt[c], Elapsed(c), error[c]))

\* A call begins: the mode is validated and the first attempt's operation called.
Call(c, m) ==
  /\ pc[c] \in {"idle", "done"} /\ live[c] = {}
  /\ mode' = [mode EXCEPT ![c] = m]
  /\ since' = [since EXCEPT ![c] = now]
  /\ aborted' = [aborted EXCEPT ![c] = {}]
  /\ error' = [error EXCEPT ![c] = "none"]
  /\ \/ /\ ~ValidMode(m)
        /\ End(c, Refused)
        /\ attempt' = [attempt EXCEPT ![c] = 0]
        /\ UNCHANGED <<live, due>>
     \/ /\ ValidMode(m)
        /\ pc' = [pc EXCEPT ![c] = "operation"]
        /\ attempt' = [attempt EXCEPT ![c] = 1]
        /\ live' = [live EXCEPT ![c] = {1}]
        /\ due' = [due EXCEPT ![c] = Budget(m, now)]
        /\ result' = [result EXCEPT ![c] = NoResult]
  /\ UNCHANGED <<now, loop, wake>>

\* The attempt has failed: the failure is recorded and the hook called, with what
\* time is left (or 1 ms, if none).
AttemptFails(c, e) ==
  /\ error' = [error EXCEPT ![c] = e]
  /\ pc' = [pc EXCEPT ![c] = "hook"]
  /\ due' = [due EXCEPT ![c] = Budget(mode[c], since[c])]
  /\ UNCHANGED result

\* The operation of attempt a settles.  Nobody listens when the race is over.
OperationSettles(c, a, outcome) ==
  /\ a \in live[c]
  /\ live' = [live EXCEPT ![c] = @ \ {a}]
  /\ \/ /\ pc[c] = "operation" /\ a = attempt[c]
        /\ \/ /\ outcome = "value"
              /\ End(c, Value(a))
              /\ UNCHANGED <<error, due>>
           \/ /\ outcome \in Failures
              /\ AttemptFails(c, outcome)
     \/ /\ ~(pc[c] = "operation" /\ a = attempt[c])
        /\ UNCHANGED <<pc, error, due, result>>
  /\ UNCHANGED <<now, loop, mode, since, attempt, aborted, wake>>

\* Mutant: the timer only ends the race.
TimerFiresSilently(c) == Polls(c) /\ CanFire(due[c]) /\ UNCHANGED aborted

\* The timer of the race fires and aborts the attempt's signal.
TimerFires(c) ==
  /\ Polls(c) /\ CanFire(due[c])
  /\ aborted' = [aborted EXCEPT ![c] = @ \cup {attempt[c]}]

\* Mutant: after a timeout the head of the loop judges whether time is left.
AttemptExpiresToLoop(c) ==
  /\ pc[c] = "operation"
  /\ TimerFires(c)
  /\ error' = [error EXCEPT ![c] = "timedOut"]
  /\ IF Elapsed(c) >= mode[c].timeout
     THEN Fail(c, "timeout") /\ UNCHANGED <<attempt, live, due>>
     ELSE /\ attempt' = [attempt EXCEPT ![c] = @ + 1]
          /\ live' = [live EXCEPT ![c] = @ \cup {attempt[c] + 1}]
          /\ due' = [due EXCEPT ![c] = Budget(mode[c], since[c])]
          /\ UNCHANGED <<pc, result>>
  /\ UNCHANGED <<now, loop, mode, since, wake>>

AttemptExpires(c) ==
  /\ pc[c] = "operation"
  /\ TimerFires(c)
  /\ AttemptFails(c, "timedOut")
  /\ UNCHANGED <<now, loop, mode, since, attempt, live, wake>>

\* After the hook the failure is judged: the call ends, or sleeps.
HookReturns(c) ==
  /\ pc[c] = "hook"
  /\ \/ /\ TerminalReason(c) # "go on"
        /\ Fail(c, TerminalReason(c))
        /\ UNCHANGED <<due, wake>>
     \/ /\ TerminalReason(c) = "go on"
        /\ \E d \in RetryDelays(c) :
             \/ /\ d < 0
                /\ End(c, Raised)
                /\ UNCHANGED <<due, wake>>
             \/ /\ d >= 0
                /\ pc' = [pc EXCEPT ![c] = "sleep"]
                /\ wake' = [wake EXCEPT ![c] = loop + Larger(d, 1)]
                /\ due' = [due EXCEPT ![c] = Budget(mode[c], since[c])]
                /\ UNCHANGED result
  /\ UNCHANGED <<now, loop, mode, since, attempt, live, aborted, error>>

HookThrows(c) ==
  /\ pc[c] = "hook" /\ mode[c].hooked
  /\ End(c, Raised)
  /\ UNCHANGED <<now, loop, mode, since, attempt, live, aborted, error, due, wake>>

\* Mutant: the hook is awaited without a race.
HookIsAwaited(c) == pc[c] = "hook" /\ FALSE /\ UNCHANGED retryVars

\* The hook loses its race.  Without a hook there is nothing to wait for.
HookExpires(c) ==
  /\ pc[c] = "hook" /\ mode[c].hooked
  /\ TimerFires(c)
  /\ Fail(c, "timeout")
  /\ UNCHANGED <<now, loop, mode, since, attempt, live, error, due, wake>>

\* The head of the loop: a poll looks at the clock, then the next attempt begins.
SleepEnds(c) ==
  /\ pc[c] = "sleep" /\ CanFire(wake[c])
  /\ wake' = [wake EXCEPT ![c] = 0]
  /\ \/ /\ Polls(c) /\ Elapsed(c) >= mode[c].timeout
        /\ Fail(c, "timeout")
        /\ UNCHANGED <<attempt, live, due>>
     \/ /\ ~(Polls(c) /\ Elapsed(c) >= mode[c].timeout)
        /\ pc' = [pc EXCEPT ![c] = "operation"]
        /\ attempt' = [attempt EXCEPT ![c] = @ + 1]
        /\ live' = [live EXCEPT ![c] = @ \cup {attempt[c] + 1}]
        /\ due' = [due EXCEPT ![c] = Budget(mode[c], since[c])]
        /\ UNCHANGED result
  /\ UNCHANGED <<now, loop, mode, since, aborted, error>>

SleepExpires(c) ==
  /\ pc[c] = "sleep"
  /\ TimerFires(c)
  /\ Fail(c, "timeout")
  /\ UNCHANGED <<now, loop, mode, since, attempt, live, error, due, wake>>

\* What the call does without its caller: its timers, and what follows a failure when
\* there is no hook.
OwnStep(c) ==
  \/ AttemptExpires(c) \/ HookExpires(c) \/ SleepEnds(c) \/ SleepExpires(c)
  \/ ~mode[c].hooked /\ HookReturns(c)

RetryStep(c) ==
  \/ \E m \in Modes : Call(c, m)
  \/ \E a \in live[c], outcome \in Outcomes : OperationSettles(c, a, outcome)
  \/ AttemptExpires(c)
  \/ HookReturns(c)
  \/ HookThrows(c)
  \/ HookExpires(c)
  \/ SleepEnds(c)
  \/ SleepExpires(c)

\* After a failure without a hook the code runs on.
RunsOn(c) == pc[c] = "hook" /\ ~mode[c].hooked

\* A timer is late by at most LateBy.
Overdue(c) ==
  \/ Polls(c) /\ pc[c] \in {"operation", "hook", "sleep"} /\ loop >= due[c] + LateBy
  \/ pc[c] = "sleep" /\ loop >= wake[c] + LateBy

\* The clocks tick by turns.  What begins between two ticks of Date.now may begin before
\* or after the tick of the timers.
DateTick ==
  /\ now < MaxTime /\ now = loop
  /\ \A c \in Calls : ~RunsOn(c)
  /\ now' = now + 1
  /\ UNCHANGED <<loop, mode, pc, since, attempt, live, aborted, error, due, wake, result>>

LoopTick ==
  /\ loop < now
  /\ \A c \in Calls : ~RunsOn(c) /\ ~Overdue(c)
  /\ loop' = loop + 1
  /\ UNCHANGED <<now, mode, pc, since, attempt, live, aborted, error, due, wake, result>>

Tick == DateTick \/ LoopTick

RetryNext == Tick \/ \E c \in Calls : RetryStep(c)

RetrySpec == RetryInit /\ [][RetryNext]_retryVars
-----------------------------------------------------------------------------
ResultType ==
  {NoResult, Raised, Refused}
    \cup [kind : {"value"}, attempts : Nat]
    \cup [kind : {"RetryError"}, reason : Reasons, attempts : Nat,
          elapsed : Int, cause : Errors]

\* The type of the calls' state.
RetryTypeOK ==
  /\ now \in Nat /\ loop \in Nat
  /\ mode \in [Calls -> Modes]
  /\ pc \in [Calls -> {"idle", "operation", "hook", "sleep", "done"}]
  /\ since \in [Calls -> Nat]
  /\ attempt \in [Calls -> Nat]
  /\ live \in [Calls -> SUBSET Nat]
  /\ aborted \in [Calls -> SUBSET Nat]
  /\ error \in [Calls -> Errors \cup {"none"}]
  /\ due \in [Calls -> Nat]
  /\ wake \in [Calls -> Nat]
  /\ result \in [Calls -> ResultType]

\* Attempts are sequential ("Retry attempts are intentionally sequential", retry.ts:124):
\* even when an operation ignores its signal, no other attempt of the call is started
\* beside it.
AttemptsDoNotOverlap ==
  \A c \in Calls : \A a, b \in live[c] : a = b

\* An operation that nobody awaits any more has been told so by its signal.
AbandonedAreAborted ==
  \A c \in Calls : \A a \in live[c] :
    a \in aborted[c] \/ (pc[c] = "operation" /\ a = attempt[c])

\* A poll ends when its time is over, whatever its operation, hook and sleep do: it may
\* be late by one timer for the attempt and one more, of at least 1 ms, for the hook, and
\* by the difference of the clocks.
PollsEndOnTime ==
  \A c \in Calls :
    Polls(c) /\ pc[c] \in {"operation", "hook", "sleep"}
      => now <= since[c] + mode[c].timeout + 2 * LateBy + 2

\* The reason that a RetryError gives is what happened: the attempts are used up, the
\* last failure was not transient, or the time is over (but for the difference of the
\* clocks).
ReasonIsTrue(c) ==
  result[c].kind = "RetryError" =>
    CASE result[c].reason = "attempts-exhausted" ->
           /\ mode[c].kind = "classified"
           /\ result[c].attempts = mode[c].maxAttempts
           /\ result[c].cause = "transient"
      [] result[c].reason = "non-transient" -> result[c].cause = "deterministic"
      [] result[c].reason = "timeout" ->
           /\ mode[c].kind = "poll"
           /\ result[c].elapsed + 1 >= mode[c].timeout

ReasonsAreTrue == \A c \in Calls : ReasonIsTrue(c)
-----------------------------------------------------------------------------
\* What makes these properties inductive.
Active(c) == pc[c] \in {"operation", "hook", "sleep"}

\* The clocks are at most a tick apart.
ClocksInv == loop <= now /\ now <= loop + 1

\* Only the last attempt of a call may be in flight; once it is not awaited it has
\* timed out, or its hook or sleep has, and the call goes on to no other.
AttemptsOf(c) ==
  /\ live[c] \subseteq {attempt[c]}
  /\ pc[c] \in {"idle", "sleep"} => live[c] = {}
  /\ pc[c] = "hook" /\ live[c] # {} => error[c] = "timedOut"
  /\ pc[c] # "operation" /\ live[c] # {} => attempt[c] \in aborted[c]

\* What a failure has been, and how many there may still be.
FailuresOf(c) ==
  /\ Active(c) => ValidMode(mode[c]) /\ attempt[c] >= 1
  /\ pc[c] \in {"hook", "sleep"} =>
       \/ error[c] \in Failures
       \/ Polls(c) /\ error[c] = "timedOut" /\ now + 1 >= since[c] + mode[c].timeout
  /\ Active(c) /\ ~Polls(c) => attempt[c] <= mode[c].maxAttempts
  /\ pc[c] = "sleep" /\ ~Polls(c) => attempt[c] < mode[c].maxAttempts

\* No call begins in the future.  A poll's timer is set to the end of its time, but for
\* the difference of the clocks and for the millisecond that a hook always has; and it
\* is not overdue.
TimersOf(c) ==
  /\ since[c] <= now
  /\ Active(c) /\ Polls(c) =>
       /\ due[c] + 1 >= since[c] + mode[c].timeout
       /\ pc[c] = "hook" => due[c] <= since[c] + mode[c].timeout + LateBy + 1
       /\ pc[c] # "hook" => due[c] <= since[c] + mode[c].timeout
       /\ loop <= due[c] + LateBy

CallInv(c) == AttemptsOf(c) /\ FailuresOf(c) /\ TimersOf(c) /\ ReasonIsTrue(c)

RetryInv == RetryTypeOK /\ ClocksInv /\ \A c \in Calls : CallInv(c)
=============================================================================

----------------------------- MODULE Readiness -----------------------------
(***************************************************************************)
(* What a Playwright test waits for: an operation of its own, retried by   *)
(* runWithRetry (Plain), a graph of deployed assets, a mail, or the        *)
(* redirect after a code.  A test waits for one of them at a time.         *)
(***************************************************************************)
EXTENDS DeployedAssets, Mailpit, CognitoRedirect

CONSTANTS
  Plain, PlainModes,
  SetupErrors   \* of the operation, when classifySetupRetry judges them: [status, response]

ASSUME ReadinessAssumption ==
  /\ Plain \in Calls /\ PlainModes \subseteq Modes
  /\ Graph # Mail /\ Plain \notin {Graph, Mail}
  /\ \A i \in DOMAIN AssetCalls : AssetCalls[i] \notin {Plain, Mail}

vars == <<retryVars, assetVars, mailVars, otpVars>>

Init == RetryInit /\ AssetsInit /\ MailInit /\ OtpInit

Waiting == {c \in {Plain, Graph, Mail} : pc[c] # "idle"}

\* How the failures of a setup step are judged: retried, with a fresh identity or the
\* same, or not.
SetupOutcomes ==
  {IF ClassifySetupRetry(e, collides, passes).retryDecision = "do-not-retry"
   THEN "deterministic" ELSE "transient" :
     e \in SetupErrors, collides \in BOOLEAN, passes \in BOOLEAN}

PlainNext ==
  /\ \/ now <= LastStart /\ \E m \in PlainModes : Call(Plain, m)
     \/ \E a \in live[Plain], outcome \in {"value"} \cup SetupOutcomes :
          OperationSettles(Plain, a, outcome)
     \/ AttemptExpires(Plain)
     \/ HookReturns(Plain)
     \/ HookThrows(Plain)
     \/ HookExpires(Plain)
     \/ SleepEnds(Plain)
     \/ SleepExpires(Plain)
  /\ UNCHANGED <<assetVars, mailVars, otpVars>>

\* The clock is of interest while the wait has a timer; what is abandoned may go on after.
Clock ==
  /\ Tick /\ ~WorkersRunOn /\ ~OtpOverdue
  /\ otp = "idle" \/ OtpTimersRun
  /\ \A c \in Waiting : pc[c] # "done"
  /\ UNCHANGED <<assetVars, mailVars, otpVars>>

Next ==
  \/ Clock
  \/ otp = "idle" /\ Waiting \subseteq {Plain} /\ PlainNext
  \/ otp = "idle" /\ Waiting \subseteq {Graph} /\ AssetsNext /\ UNCHANGED <<mailVars, otpVars>>
  \/ otp = "idle" /\ Waiting \subseteq {Mail} /\ MailNext /\ UNCHANGED <<assetVars, otpVars>>
  \/ Waiting = {} /\ OtpNext /\ UNCHANGED <<assetVars, mailVars>>

Spec == Init /\ [][Next]_vars

\* What goes on without the caller, the servers and the validators: the clocks, timers,
\* and code that waits for nothing.
RunOn ==
  \/ Clock
  \/ OwnStep(Plain) /\ UNCHANGED <<assetVars, mailVars, otpVars>>
  \/ /\ GraphGoesOn \/ WorkersStep \/ \E i \in DOMAIN AssetCalls : CheckGoesOn(i)
     /\ UNCHANGED <<mailVars, otpVars>>
  \/ MailGoesOn /\ UNCHANGED <<assetVars, otpVars>>
  \/ MonitorExpires /\ UNCHANGED <<retryVars, assetVars, mailVars>>

\* The process runs.  Operations, hooks, requests, validators and the page need never
\* answer.
FairSpec == Spec /\ WF_vars(RunOn)

\* A poll ends, even when its operation and its hook never answer.
PollsEnd == []<>(\A c \in Calls : Polls(c) => pc[c] \in {"idle", "done"})
=============================================================================

----------------------------- MODULE SetupRetry -----------------------------
(***************************************************************************)
(* packages/playwright-toolkit/src/lib/setupRetry.ts: how the failure of a *)
(* request is judged.                                                      *)
(***************************************************************************)
EXTENDS Integers

NoStatus == 0   \* undefined

IsRetryableHttpStatus(status) == status \in {408, 429} \cup 500 .. 599

\* getHttpErrorStatus: an error's own status goes before that of its response.
HttpErrorStatus(error) == IF error.status # NoStatus THEN error.status ELSE error.response

\* collides and passes are what the caller's isIdentityCollision and isTransientError say.
ClassifySetupRetry(error, collides, passes) ==
  CASE collides ->
         [classification |-> "identity-collision", retryDecision |-> "regenerate-identity"]
    [] ~collides /\ (IsRetryableHttpStatus(HttpErrorStatus(error)) \/ passes) ->
         [classification |-> "transient", retryDecision |-> "retry-same-identity"]
    [] OTHER ->
         [classification |-> "deterministic", retryDecision |-> "do-not-retry"]
=============================================================================

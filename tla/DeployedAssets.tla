--------------------------- MODULE DeployedAssets ---------------------------
(***************************************************************************)
(* waitForDeployedAssets and verifyDeployedAssets of                       *)
(* packages/playwright-toolkit/src/lib/deployedAssets.ts.                  *)
(*                                                                         *)
(* The call Graph polls until all assets are healthy, and have been for a  *)
(* stable window.  Each of its attempts is a verification of the whole     *)
(* graph by a few workers that share a queue; each asset is checked by a   *)
(* classified call of runWithRetry.  The attempt's signal is not passed    *)
(* on, so a verification whose attempt has timed out runs to its end.      *)
(***************************************************************************)
EXTENDS Retry, SetupRetry

CONSTANTS
  Graph,        \* the call of waitForDeployedAssets
  AssetCalls,   \* the checks in their order, each with its own call
  GraphModes, AssetModes,
  GraphOptions, \* the options used: [limit, checks, window]
  Expected,     \* expectedContentTypes of each check, {} for undefined
  Validated,    \* the checks that have a validateResponse
  FetchErrors,  \* what fetch may throw: [codes, message]
  AssetStatuses, \* with which a server may answer
  ContentTypes, \* of what it may answer, normalised
  NoType        \* an answer without a content type

GraphOptionType == [limit : Int, checks : 0 .. Len(AssetCalls), window : Nat]

ASSUME GraphAssumption ==
  /\ AssetCalls \in Seq(Calls \ {Graph}) /\ Graph \in Calls
  /\ \A i, j \in DOMAIN AssetCalls : AssetCalls[i] = AssetCalls[j] => i = j
  /\ GraphModes \subseteq Modes /\ AssetModes \subseteq Modes
  /\ \A m \in GraphModes : m.kind = "poll" /\ m.classifies
  /\ \A m \in AssetModes : m.kind = "classified"
  /\ GraphOptions # {} /\ GraphOptions \subseteq GraphOptionType
  /\ Expected \in [DOMAIN AssetCalls -> SUBSET ContentTypes]
  /\ Validated \subseteq DOMAIN AssetCalls /\ NoType \notin ContentTypes
  /\ AssetStatuses \subseteq 200 .. 599

VARIABLES
  options,      \* concurrencyLimit, the number of checks, stableWindowMs
  nextIndex,    \* the queue that the workers share
  workers,      \* Free, Off, or the index each is at
  results,      \* isSuccess of each check, "none" where there is none
  windowStart,  \* stableWindowStartedAtMs
  \* history: the checks that have passed since the verification began, and when the
  \* first of the verifications ended that have all been healthy since
  passed, healthySince

assetVars == <<options, nextIndex, workers, results, windowStart, passed, healthySince>>

NoTime == -1
Free == 0   \* a worker about to turn to the queue
Off == -1   \* a worker that found it empty
Checks == 1 .. options.checks
MaxWorkers == Len(AssetCalls)

AssetsInit ==
  /\ options = CHOOSE o \in GraphOptions : TRUE
  /\ nextIndex = 1
  /\ workers = [w \in {} |-> Off]
  /\ results = [i \in {} |-> "none"]
  /\ windowStart = NoTime
  /\ passed = {}
  /\ healthySince = NoTime

\* A verification begins, unless the limit is not positive (LimitIsRefused).
BeginVerification(o) ==
  /\ nextIndex' = 1
  /\ results' = [i \in 1 .. o.checks |-> "none"]
  /\ workers' = [w \in 1 .. Smaller(o.limit, o.checks) |-> Free]
  /\ passed' = {}

GraphCalls ==
  /\ now <= LastStart
  /\ \E o \in GraphOptions, m \in GraphModes :
      /\ Call(Graph, m)
      /\ IF ValidMode(m)
         THEN /\ options' = o
              /\ BeginVerification(o)
              /\ windowStart' = NoTime
              /\ healthySince' = NoTime
         ELSE UNCHANGED assetVars

\* A worker takes the next check from the queue, or finds it empty.
WorkerTakes(w) ==
  /\ workers[w] = Free
  /\ nextIndex' = nextIndex + 1
  /\ \/ /\ nextIndex > options.checks
        /\ workers' = [workers EXCEPT ![w] = Off]
        /\ UNCHANGED retryVars
     \/ /\ nextIndex <= options.checks
        /\ workers' = [workers EXCEPT ![w] = nextIndex]
        /\ \E m \in AssetModes : Call(AssetCalls[nextIndex], m)
  /\ UNCHANGED <<options, results, windowStart, passed, healthySince>>

\* isTransientFetchError: codes holds the name and the codes of the error, of its cause
\* and so on, each error being looked at once.
IsTransientFetchError(e) ==
  \/ e.codes \cap {"AbortError", "ECONNREFUSED", "ECONNRESET", "EAI_AGAIN",
                   "ENOTFOUND", "ETIMEDOUT"} # {}
  \/ e.message \in {"failed to fetch", "fetch failed", "networkerror"}

IsTransientAssetStatus(status) == status = 425 \/ IsRetryableHttpStatus(status)

\* getEquivalentContentTypes.
EquivalentContentTypes(type) ==
  {type} \cup UNION {names \in {{"application/javascript", "text/javascript"},
                                {"application/json", "application/manifest+json"},
                                {"image/x-icon", "image/vnd.microsoft.icon"}} : type \in names}

IsExpectedContentType(i, type) ==
  Expected[i] # {} => type \in UNION {EquivalentContentTypes(t) : t \in Expected[i]}

\* What becomes of a request: fetch throws, or there is an answer, which a validator may
\* accept, refuse or throw at.
Verdicts ==
  [isValid : BOOLEAN, isTransient : BOOLEAN]
    \cup {[isValid |-> FALSE, isTransient |-> IsTransientFetchError(e)] : e \in FetchErrors}
Replies ==
  [kind : {"error"}, error : FetchErrors]
    \cup [kind : {"response"}, status : AssetStatuses, type : ContentTypes \cup {NoType},
          verdict : Verdicts]

IsAsExpected(i, reply) ==
  reply.kind = "response" /\ reply.status \in 200 .. 299 /\ IsExpectedContentType(i, reply.type)

IsHealthy(i, reply) == IsAsExpected(i, reply) /\ (i \in Validated => reply.verdict.isValid)

\* Of an asset that is not healthy.
MayRecover(i, reply) ==
  \/ reply.kind = "error" /\ IsTransientFetchError(reply.error)
  \/ reply.kind = "response" /\ IsTransientAssetStatus(reply.status)
  \/ IsAsExpected(i, reply) /\ i \in Validated /\ reply.verdict.isTransient

\* How checkAssetOnce settles.
CheckAssetOnce(i, reply) ==
  IF IsHealthy(i, reply) THEN "value"
  ELSE IF MayRecover(i, reply) THEN "transient" ELSE "deterministic"

\* The outcomes there are, each with the replies that lead to it.
CheckOutcomes(i) == {CheckAssetOnce(i, reply) : reply \in Replies}

CheckAnswers(i) ==
  LET c == AssetCalls[i] IN
  \E a \in live[c], outcome \in CheckOutcomes(i) :
    /\ OperationSettles(c, a, outcome)
    /\ passed' = IF outcome = "value" THEN passed \cup {i} ELSE passed
    /\ UNCHANGED <<options, nextIndex, workers, results, windowStart, healthySince>>

CheckGoesOn(i) ==
  /\ HookReturns(AssetCalls[i]) \/ SleepEnds(AssetCalls[i])
  /\ UNCHANGED assetVars

\* The worker has its check's result and turns to the queue again.
WorkerResumes(w) ==
  /\ workers[w] \in Checks
  /\ pc[AssetCalls[workers[w]]] = "done"
  /\ results' = [results EXCEPT ![workers[w]] =
       IF result[AssetCalls[workers[w]]].kind = "value" THEN "passed" ELSE "failed"]
  /\ workers' = [workers EXCEPT ![w] = Free]
  /\ UNCHANGED <<options, nextIndex, windowStart, passed, healthySince>>
  /\ UNCHANGED retryVars

\* The report counts the results there are.
Healthy == \A i \in Checks : results[i] # "failed"
WindowStart == IF windowStart = NoTime THEN now ELSE windowStart

\* Mutant: a failure does not end the stable window.
VerificationKeepsWindow ==
  /\ options.limit >= 1
  /\ \A w \in DOMAIN workers : workers[w] = Off
  /\ \E a \in live[Graph] :
       \/ /\ ~Healthy
          /\ UNCHANGED windowStart
          /\ OperationSettles(Graph, a, "transient")
       \/ /\ Healthy
          /\ windowStart' = WindowStart
          /\ OperationSettles(Graph, a,
               IF now - WindowStart < options.window THEN "transient" ELSE "value")
  /\ healthySince' = IF ~Healthy THEN NoTime
                      ELSE IF healthySince = NoTime THEN now ELSE healthySince
  /\ UNCHANGED <<options, nextIndex, workers, results, passed>>

\* The verification has ended, and so has the operation of the graph's attempt.
VerificationEnds ==
  /\ options.limit >= 1
  /\ \A w \in DOMAIN workers : workers[w] = Off
  /\ \E a \in live[Graph] :
       \/ /\ ~Healthy
          /\ windowStart' = NoTime
          /\ OperationSettles(Graph, a, "transient")
       \/ /\ Healthy
          /\ windowStart' = WindowStart
          /\ OperationSettles(Graph, a,
               IF now - WindowStart < options.window THEN "transient" ELSE "value")
  /\ healthySince' = IF ~Healthy THEN NoTime
                      ELSE IF healthySince = NoTime THEN now ELSE healthySince
  /\ UNCHANGED <<options, nextIndex, workers, results, passed>>

LimitIsRefused ==
  /\ options.limit < 1
  /\ \E a \in live[Graph] : OperationSettles(Graph, a, "deterministic")
  /\ UNCHANGED assetVars

\* The graph's own steps.  When its sleep ends in an attempt, a verification begins.
GraphGoesOn ==
  \/ /\ AttemptExpires(Graph) \/ HookReturns(Graph) \/ SleepExpires(Graph)
     /\ UNCHANGED assetVars
  \/ /\ SleepEnds(Graph)
     /\ IF pc'[Graph] = "operation"
        THEN /\ BeginVerification(options)
             /\ UNCHANGED <<options, windowStart, healthySince>>
        ELSE UNCHANGED assetVars

\* What runs without waiting for anything: no time passes before it.
WorkersRunOn ==
  \/ \E w \in DOMAIN workers :
       workers[w] = Free \/ (workers[w] \in Checks /\ pc[AssetCalls[workers[w]]] = "done")
  \/ live[Graph] # {} /\ \A w \in DOMAIN workers : workers[w] = Off

WorkersStep ==
  \/ \E w \in DOMAIN workers : WorkerTakes(w) \/ WorkerResumes(w)
  \/ VerificationEnds
  \/ LimitIsRefused

AssetsNext ==
  \/ GraphCalls
  \/ WorkersStep
  \/ \E i \in DOMAIN AssetCalls : CheckAnswers(i) \/ CheckGoesOn(i)
  \/ GraphGoesOn
-----------------------------------------------------------------------------
GraphSucceeded == pc[Graph] = "done" /\ result[Graph].kind = "value"

\* A report of success is about now: every asset was found healthy in the verification
\* that the report comes from, none was left out by the workers' queue, and none is
\* taken over from an earlier verification.
SuccessIsFresh == GraphSucceeded => Checks \subseteq passed

\* A success follows a stable window: all verifications have found the graph healthy
\* since one that ended stableWindowMs or more before (README.md:232); and it is fresh.
SuccessIsStable ==
  [][~GraphSucceeded /\ GraphSucceeded'
       => /\ SuccessIsFresh'
          /\ healthySince' # NoTime /\ now - healthySince' >= options.window]_<<retryVars, assetVars>>
-----------------------------------------------------------------------------
\* What makes it inductive.

AssetsTypeOK ==
  /\ options \in GraphOptions
  /\ nextIndex \in Nat \ {0}
  /\ windowStart \in Nat \cup {NoTime}
  /\ \A w \in DOMAIN workers : workers[w] \in {Free, Off} \cup Checks
  /\ \A i \in DOMAIN results : i \in Checks /\ results[i] \in {"none", "passed", "failed"}

\* Each check taken from the queue has its result, or is at a worker; who finds the queue
\* empty does so at its end; and what has passed has passed in this verification.
QueueInv ==
  /\ live[Graph] # {} =>
       DOMAIN results = Checks /\ DOMAIN workers = 1 .. Smaller(options.limit, options.checks)
  /\ \A w \in DOMAIN workers :
       /\ workers[w] = Off => nextIndex > options.checks
       /\ workers[w] \in Checks =>
            /\ workers[w] < nextIndex
            /\ result[AssetCalls[workers[w]]].kind = "value" => workers[w] \in passed
  /\ \A i \in DOMAIN results :
       /\ results[i] = "passed" => i \in passed
       /\ i < nextIndex => results[i] # "none" \/ \E w \in DOMAIN workers : workers[w] = i

\* The window is open while the verifications that ended have all been healthy.
WindowInv == windowStart = healthySince

AssetsInv == AssetsTypeOK /\ QueueInv /\ WindowInv
=============================================================================

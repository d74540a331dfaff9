---------------------------- MODULE LlmReporter ----------------------------
(***************************************************************************)
(* LlmReporter of packages/playwright-reporter-llm: Playwright tells it of *)
(* attempts of tests as they end, in any order across tests, and it writes *)
(* one report when the run ends.  Playwright, the file system and the      *)
(* death of the process are external.  Of an attempt only its number,      *)
(* its status and whether its traces could be read are kept here.          *)
(***************************************************************************)
EXTENDS Integers, Sequences, FiniteSets, SequencesExt

CONSTANTS
  Tests,
  ExpectedToFail, \* tests that are marked to fail
  MaxAttempts,    \* per test: Playwright's retries and one
  MaxErrors,      \* bound: errors outside of tests
  MaxRuns         \* bound: runs that write to the same file

ASSUME ReporterAssumption ==
  /\ IsFiniteSet(Tests) /\ ExpectedToFail \subseteq Tests
  /\ MaxAttempts \in Nat \ {0} /\ MaxErrors \in Nat /\ MaxRuns \in Nat \ {0}

VARIABLES
  phase,         \* "loaded", "running", "ended", or "unused": it never began
  runNumber,     \* which run it is
  results,       \* Playwright's results of each test, attempt by attempt
  entries,       \* entriesById
  globalErrors,  \* how many there are
  outputFile,    \* "none" or the report in it
  temporaryFile  \* whether one is left behind

reporterVars ==
  <<phase, runNumber, results, entries, globalErrors, outputFile, temporaryFile>>

Statuses == {"passed", "failed", "timedOut", "skipped", "interrupted"}
NoEntry ==
  [status |-> "none", flaky |-> FALSE, retries |-> 0, error |-> "none", attempts |-> <<>>]
NoReport == [run |-> 0, summary |-> [x \in {} |-> 0], tests |-> {}, globalErrors |-> 0]

ReporterInit ==
  /\ phase = "loaded" /\ runNumber = 1
  /\ results = [t \in Tests |-> <<>>]
  /\ entries = [t \in Tests |-> NoEntry]
  /\ globalErrors = 0
  /\ outputFile = NoReport
  /\ temporaryFile = FALSE

-----------------------------------------------------------------------------
\* Mutant: the report of the run before is left where it is.
FileAtBeginKept == outputFile

\* rmSync: a run begins without a report.
FileAtBegin == NoReport

OnBegin ==
  /\ phase = "loaded"
  /\ phase' = "running"
  /\ entries' = [t \in Tests |-> NoEntry]
  /\ globalErrors' = 0
  /\ outputFile' = FileAtBegin
  /\ UNCHANGED <<runNumber, results, temporaryFile>>

ShouldEnrichError(status) == status \in {"failed", "timedOut", "interrupted"}

\* The error that Playwright gives: an attempt that is interrupted may come with one.
MayErr(status, errored) ==
  CASE status \in {"failed", "timedOut"} -> errored
    [] status \in {"passed", "skipped"} -> ~errored
    [] status = "interrupted" -> TRUE

\* The first error of an attempt, with the action that failed if it is known.
ErrorOf(status, errored, collected) ==
  CASE ~errored -> "none"
    [] errored -> IF collected /\ ShouldEnrichError(status) THEN "enriched" ELSE "plain"

\* What an attempt comes to in the report: traces that cannot be used cost its network
\* and console, lifecycles that cannot be joined only those.
BuildAttemptResult(number, status, errored, collected, joined) ==
  [attempt |-> number, status |-> status, error |-> ErrorOf(status, errored, collected),
   network |-> IF ~collected THEN "empty" ELSE IF joined THEN "joined" ELSE "read"]

\* Mutant: an error stays when a later attempt has none.
EntryErrorKept(entry, attempt) == IF attempt.error = "none" THEN entry.error ELSE attempt.error

\* The error of a test is that of its last attempt; it is deleted if that has none.
EntryError(entry, attempt) == attempt.error

\* Mutant: a test is flaky if it was ever retried.
IsFlakyIfRetried(status, retries) == retries > 0

IsFlaky(status, retries) == status = "passed" /\ retries > 0

Unexpected(t, status) ==
  IF t \in ExpectedToFail THEN status = "passed" ELSE status \in {"failed", "timedOut"}

\* Playwright runs a test again while it does what it should not, as often as it may.
MayRun(t) ==
  /\ Len(results[t]) < MaxAttempts
  /\ results[t] # <<>> => Unexpected(t, Last(results[t]))

OnTestEnd(t, status, errored, collected, joined) ==
  /\ phase = "running" /\ MayRun(t) /\ MayErr(status, errored)
  /\ results' = [results EXCEPT ![t] = Append(@, status)]
  /\ LET retries == Len(results'[t]) - 1
         attempt == BuildAttemptResult(retries + 1, status, errored, collected, joined)
     IN  entries' = [entries EXCEPT ![t] =
           [status |-> status, flaky |-> IsFlaky(status, retries), retries |-> retries,
            error |-> EntryError(@, attempt), attempts |-> Append(@.attempts, attempt)]]
  /\ globalErrors' = globalErrors + (IF collected THEN 0 ELSE 1) + (IF joined THEN 0 ELSE 1)
  /\ UNCHANGED <<phase, runNumber, outputFile, temporaryFile>>

OnError ==
  /\ phase = "running" /\ globalErrors < MaxErrors
  /\ globalErrors' = globalErrors + 1
  /\ UNCHANGED <<phase, runNumber, results, entries, outputFile, temporaryFile>>

-----------------------------------------------------------------------------
(* onEnd. *)

Reported == {t \in Tests : entries[t] # NoEntry}

\* Mutant: a flaky test is counted by its status, too.
SummaryCountingFlakyTwice ==
  [k \in Statuses \cup {"total", "flaky"} |->
     CASE k = "total" -> Cardinality(Reported)
       [] k = "flaky" -> Cardinality({t \in Reported : entries[t].flaky})
       [] OTHER       -> Cardinality({t \in Reported : entries[t].status = k})]

\* A flaky test counts as flaky only.
Summary ==
  [k \in Statuses \cup {"total", "flaky"} |->
     CASE k = "total" -> Cardinality(Reported)
       [] k = "flaky" -> Cardinality({t \in Reported : entries[t].flaky})
       [] OTHER -> Cardinality({t \in Reported : ~entries[t].flaky /\ entries[t].status = k})]

Report ==
  [run |-> runNumber, summary |-> Summary, tests |-> {<<t, entries[t]>> : t \in Reported},
   globalErrors |-> globalErrors]

\* The report is written to a temporary file and renamed; if that fails, it is removed.
OnEnd(fails) ==
  /\ phase = "running"
  /\ phase' = "ended"
  /\ outputFile' = IF fails THEN outputFile ELSE Report
  /\ UNCHANGED <<runNumber, results, entries, globalErrors, temporaryFile>>

\* onEnd of a run that never began.
OnEndAlone ==
  /\ phase = "loaded"
  /\ phase' = "unused"
  /\ UNCHANGED <<runNumber, results, entries, globalErrors, outputFile, temporaryFile>>

\* The process dies, perhaps while it writes: the temporary file may stay, the rename
\* has happened or not.
Dies(left, renamed) ==
  /\ phase = "running"
  /\ phase' = "ended"
  /\ outputFile' = IF renamed THEN Report ELSE outputFile
  /\ temporaryFile' = (temporaryFile \/ left)
  /\ UNCHANGED <<runNumber, results, entries, globalErrors>>

\* Another run, in a process of its own.
NextRun ==
  /\ phase \in {"ended", "unused"} /\ runNumber < MaxRuns
  /\ phase' = "loaded" /\ runNumber' = runNumber + 1
  /\ results' = [t \in Tests |-> <<>>]
  /\ entries' = [t \in Tests |-> NoEntry]
  /\ globalErrors' = 0
  /\ UNCHANGED <<outputFile, temporaryFile>>

ReporterNext ==
  \/ OnBegin \/ OnError \/ OnEndAlone \/ NextRun
  \/ \E t \in Tests, status \in Statuses, errored, collected, joined \in BOOLEAN :
       OnTestEnd(t, status, errored, collected, joined)
  \/ \E fails \in BOOLEAN : OnEnd(fails)
  \/ \E left, renamed \in BOOLEAN : ~(left /\ renamed) /\ Dies(left, renamed)

ReporterSpec == ReporterInit /\ [][ReporterNext]_reporterVars

-----------------------------------------------------------------------------
(* What makes this inductive. *)

AttemptRecords ==
  [attempt : Nat, status : Statuses, error : {"none", "plain", "enriched"},
   network : {"empty", "joined", "read"}]

\* An entry tells of all attempts of its test, and otherwise of the last one.
EntryIsOf(entry, statuses) ==
  /\ entry = [status |-> Last(statuses), flaky |-> Last(statuses) = "passed" /\ Len(statuses) > 1,
              retries |-> Len(statuses) - 1, error |-> Last(entry.attempts).error,
              attempts |-> entry.attempts]
  /\ entry.attempts \in Seq(AttemptRecords) /\ Len(entry.attempts) = Len(statuses)
  /\ \A i \in DOMAIN statuses : entry.attempts[i].status = statuses[i]

EntriesInv ==
  /\ results \in [Tests -> Seq(Statuses)] /\ DOMAIN entries = Tests
  /\ \A t \in Tests :
       IF results[t] = <<>> THEN entries[t] = NoEntry ELSE EntryIsOf(entries[t], results[t])

\* A report in the file is that of the run that ended, as long as nothing runs.
FileInv ==
  /\ phase = "running" => outputFile = NoReport
  /\ phase = "ended" /\ outputFile # NoReport => outputFile = Report

\* onBegin starts from what the process holds then, which is nothing.
LoadedInv ==
  /\ phase \in {"loaded", "running", "ended", "unused"}
  /\ phase = "loaded" => results = [t \in Tests |-> <<>>]

ReporterInv == LoadedInv /\ EntriesInv /\ FileInv

-----------------------------------------------------------------------------
\* While a run is on there is no report to mistake for its own, and once it has ended
\* there is none or its own: each test that ended is in it once, by its last attempt (an
\* error of an earlier one does not stay) and with all of them in order, and the summary
\* counts it in one place.  Only a run that never began leaves the report of another.
ReportIsTrue ==
  /\ phase = "running" => outputFile = NoReport
  /\ phase = "ended" /\ outputFile # NoReport =>
       /\ outputFile.run = runNumber
       /\ outputFile.tests =
            {<<t, [status   |-> Last(results[t]),
                   flaky    |-> Last(results[t]) = "passed" /\ Len(results[t]) > 1,
                   retries  |-> Len(results[t]) - 1,
                   error    |-> Last(entries[t].attempts).error,
                   attempts |-> entries[t].attempts]>> : t \in {s \in Tests : results[s] # <<>>}}
       /\ \A t \in Tests : [i \in DOMAIN results[t] |-> entries[t].attempts[i].status] = results[t]
       /\ LET s == outputFile.summary IN
          s["total"] = s["passed"] + s["failed"] + s["timedOut"] + s["skipped"] +
                       s["interrupted"] + s["flaky"]
=============================================================================

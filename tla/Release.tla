------------------------------ MODULE Release ------------------------------
(***************************************************************************)
(* scripts/release.ts: runs of the main branch's workflow bump versions,   *)
(* push a commit with a tag per changed project, and tell each tag's       *)
(* changelog in a release on GitHub.                                       *)
(*                                                                         *)
(* Runs overlap, and a newer one cancels an older.  nx, git and GitHub are *)
(* external: nx finds the changes since a project's last tag, git pushes   *)
(* all or nothing, and GitHub keeps a release per tag.  An answer of       *)
(* GitHub's may hide that it did what was asked.                           *)
(***************************************************************************)
EXTENDS Integers

CONSTANTS
  Projects,
  ReleaseRuns,
  MaxRetryCount,  \* MAX_RETRY_COUNT
  MaxCommits      \* bound: commits on main before a change is merged

ASSUME ReleaseAssumption == MaxRetryCount \in Nat \ {0} /\ MaxCommits \in Nat

VARIABLES
  commits,  \* on main
  changes,  \* per project how many of them change it
  tags,     \* that were pushed: project@version, for the changes after from up to to
  releases, \* on GitHub: the tag and what the release says
  runs

releaseVars == <<commits, changes, tags, releases, runs>>

Modes == {"full", "tokenless", "dry"}
NoTag == [project |-> "none", version |-> 0, from |-> 0, to |-> 0]
Waiting == [at |-> "waiting", mode |-> "full", base |-> 0, tags |-> {}, told |-> FALSE,
            listed |-> {}, todo |-> {}, tag |-> NoTag, attempt |-> 0, failures |-> {}]

ReleaseInit ==
  /\ commits = 0 /\ changes = [p \in Projects |-> 0]
  /\ tags = {} /\ releases = {}
  /\ runs = [r \in ReleaseRuns |-> Waiting]

\* A change is merged.
Merge(p) ==
  /\ commits < MaxCommits
  /\ commits' = commits + 1
  /\ changes' = [changes EXCEPT ![p] = @ + 1]
  /\ UNCHANGED <<tags, releases, runs>>

TagsOf(p) == {t \in tags : t.project = p}

\* The last version of a project, 0 before the first.
Released(p) ==
  IF TagsOf(p) = {} THEN [version |-> 0, to |-> 0]
  ELSE CHOOSE t \in TagsOf(p) : \A u \in TagsOf(p) : u.version <= t.version

NextTag(p) ==
  [project |-> p, version |-> Released(p).version + 1, from |-> Released(p).to, to |-> changes[p]]

\* A run that stops before its releases are done leaves nothing behind in its process.
Stopped(at) == [Waiting EXCEPT !.at = at]

Stops(r, at) == runs' = [runs EXCEPT ![r] = Stopped(at)]

\* Phases 1 and 2, on a checkout of main: besides what changed, nx may bump what depends on
\* it.  told: there are changelogs; listed: whose.
BumpVersions(r, mode, bumped, told, listed) ==
  LET changed == {p \in Projects : changes[p] > Released(p).to} IN
  /\ runs[r].at = "waiting"
  /\ changed \subseteq bumped /\ (changed = {} => bumped = {})
  /\ listed \subseteq bumped /\ (~told => listed = {})
  /\ runs' = [runs EXCEPT ![r] =
       [@ EXCEPT !.at = IF bumped = {} THEN "nothing" ELSE "bumped", !.mode = mode,
                 !.base = commits, !.tags = {NextTag(p) : p \in bumped}, !.told = told,
                 !.listed = {NextTag(p) : p \in listed}]]
  /\ UNCHANGED <<commits, changes, tags, releases>>

\* nx, or a git command before the push.
BumpFails(r) ==
  /\ runs[r].at \in {"waiting", "bumped"}
  /\ Stops(r, "failed")
  /\ UNCHANGED <<commits, changes, tags, releases>>

\* Where the script is after the push: it goes through the changelogs, not the tags.
AfterPush(run) ==
  CASE run.mode = "tokenless" \/ ~run.told -> Stopped("skipped")
    [] run.mode = "full" /\ run.told -> [run EXCEPT !.at = "releasing", !.todo = run.listed]
    [] run.mode = "dry" /\ run.told -> [run EXCEPT !.at = "releasing"]

\* Mutant: without --atomic, tags are pushed when the branch is not.
PushedTagsAlone(run) == tags \cup run.tags

\* Nothing is pushed unless main is where it was.
PushedTags(run) == IF run.base = commits THEN tags \cup run.tags ELSE tags

\* Phase 3.  A push that succeeded may seem to have failed.
Push(r, fails) ==
  LET run == runs[r] IN
  /\ run.at = "bumped"
  /\ \/ /\ run.mode = "dry" /\ ~fails
        /\ runs' = [runs EXCEPT ![r] = AfterPush(@)]
        /\ UNCHANGED <<commits, tags>>
     \/ /\ run.mode # "dry" /\ (run.base = commits \/ fails)
        /\ tags' = PushedTags(run)
        /\ commits' = IF run.base = commits THEN commits + 1 ELSE commits
        /\ runs' = [runs EXCEPT ![r] = IF fails THEN Stopped("failed") ELSE AfterPush(@)]
  /\ UNCHANGED <<changes, releases>>

\* resolveGitHubRepo or git rev-parse, before the first release.
ResolveFails(r) ==
  /\ runs[r].at = "releasing" /\ runs[r].tag = NoTag
  /\ Stops(r, "failed")
  /\ UNCHANGED <<commits, changes, tags, releases>>

\* Phase 4, one tag after the other.
CreateRelease(r, t) ==
  /\ runs[r].at = "releasing" /\ t \in runs[r].todo
  /\ runs' = [runs EXCEPT ![r] = [runs[r] EXCEPT !.at = "posting", !.tag = t, !.attempt = 1,
                                                 !.todo = @ \ {t}]]
  /\ UNCHANGED <<commits, changes, tags, releases>>

Fail(run) == [run EXCEPT !.at = "releasing", !.failures = @ \cup {run.tag}]

Exists(t) == \E x \in releases : x.tag = t

\* Mutant: a release that exists is taken to be right.
AfterExistsIsDone(run) == [run EXCEPT !.at = "releasing"]

AfterExists(run) == [run EXCEPT !.at = "getting"]

\* The answer to a POST: "retryable" is a status of RETRYABLE_STATUS_CODES, "refused" any
\* other, or none.
AfterPost(run, answer) ==
  CASE answer = "created" -> [run EXCEPT !.at = "releasing"]
    [] answer = "exists" -> AfterExists(run)
    [] answer = "retryable" /\ run.attempt < MaxRetryCount -> [run EXCEPT !.attempt = @ + 1]
    [] OTHER -> Fail(run)

\* takes: the release is made, whatever the answer is.
Post(r, answer, takes) ==
  LET t == runs[r].tag IN
  /\ runs[r].at = "posting"
  /\ answer = "exists" => Exists(t)
  /\ takes => ~Exists(t)
  /\ answer = "created" => takes
  /\ answer = "exists" => ~takes
  /\ releases' = IF takes THEN releases \cup {[tag |-> t, body |-> "changelog"]} ELSE releases
  /\ runs' = [runs EXCEPT ![r] = AfterPost(@, answer)]
  /\ UNCHANGED <<commits, changes, tags>>

\* updateExistingRelease, which repeats nothing.
GetExisting(r, ok) ==
  /\ runs[r].at = "getting"
  /\ runs' = [runs EXCEPT ![r] = IF ok THEN [@ EXCEPT !.at = "patching"] ELSE Fail(@)]
  /\ UNCHANGED <<commits, changes, tags, releases>>

PatchExisting(r, ok, takes) ==
  LET t == runs[r].tag IN
  /\ runs[r].at = "patching"
  /\ ok => takes
  /\ releases' = IF takes
                 THEN {x \in releases : x.tag # t} \cup {[tag |-> t, body |-> "changelog"]}
                 ELSE releases
  /\ runs' = [runs EXCEPT ![r] = IF ok THEN [@ EXCEPT !.at = "releasing"] ELSE Fail(@)]
  /\ UNCHANGED <<commits, changes, tags>>

ReleaseEnds(r) ==
  /\ runs[r].at = "releasing" /\ runs[r].todo = {}
  /\ runs' = [runs EXCEPT ![r] =
       [@ EXCEPT !.at = IF runs[r].failures = {} THEN "complete" ELSE "incomplete",
                 !.tag = NoTag, !.attempt = 0]]
  /\ UNCHANGED <<commits, changes, tags, releases>>

\* A newer run or the time limit cancels one.
CancelRun(r) ==
  /\ runs[r].at \in {"bumped", "releasing", "posting", "getting", "patching"}
  /\ Stops(r, "cancelled")
  /\ UNCHANGED <<commits, changes, tags, releases>>

\* Somebody writes a release for a tag by hand.
ReleaseByHand(t) ==
  /\ ~Exists(t)
  /\ releases' = releases \cup {[tag |-> t, body |-> "byHand"]}
  /\ UNCHANGED <<commits, changes, tags, runs>>

ReleaseNext ==
  \/ \E p \in Projects : Merge(p)
  \/ \E t \in tags : ReleaseByHand(t)
  \/ \E r \in ReleaseRuns :
       \/ \E mode \in Modes, told \in BOOLEAN,
            bumped \in SUBSET Projects, listed \in SUBSET Projects :
            BumpVersions(r, mode, bumped, told, listed)
       \/ BumpFails(r)
       \/ \E fails \in BOOLEAN : Push(r, fails)
       \/ ResolveFails(r)
       \/ \E t \in runs[r].todo : CreateRelease(r, t)
       \/ \E answer \in {"created", "exists", "retryable", "refused"}, takes \in BOOLEAN :
            Post(r, answer, takes)
       \/ \E ok \in BOOLEAN : \/ GetExisting(r, ok)
                            \/ \E takes \in BOOLEAN : PatchExisting(r, ok, takes)
       \/ ReleaseEnds(r) \/ CancelRun(r)

ReleaseSpec == ReleaseInit /\ [][ReleaseNext]_releaseVars

-----------------------------------------------------------------------------
\* A run that went through the releases told the truth: a changelog that it does not name as
\* failed has its release, whether an earlier attempt of its own made it unseen or somebody
\* else wrote another.
OutcomeOf(run) ==
  /\ run.at \in {"complete", "incomplete"} /\ run.mode = "full" =>
       \A t \in run.listed \ run.failures : [tag |-> t, body |-> "changelog"] \in releases
  /\ run.at = "complete" => run.failures = {}

OutcomeIsTrue == \A r \in ReleaseRuns : OutcomeOf(runs[r])

\* However runs overlap, a version is pushed once, and each change is in one version of
\* its project, the next after the one before it.
EachChangeIsReleasedOnce ==
  \A t \in tags :
    /\ \A u \in tags : t.project = u.project /\ t.version = u.version => t = u
    /\ IF t.version = 1 THEN t.from = 0
       ELSE \E u \in tags : /\ u.project = t.project /\ u.version = t.version - 1
                            /\ u.to = t.from

ReleasesAreTrue == OutcomeIsTrue /\ EachChangeIsReleasedOnce
-----------------------------------------------------------------------------
\* What makes this inductive.

Tag == [project : Projects, version : Nat \ {0}, from : Nat, to : Nat]
RunType ==
  [at : {"waiting", "nothing", "bumped", "skipped", "releasing", "posting", "getting",
         "patching", "complete", "incomplete", "failed", "cancelled"},
   mode : Modes, base : Nat, tags : SUBSET Tag, told : BOOLEAN, listed : SUBSET Tag,
   todo : SUBSET Tag, tag : Tag \cup {NoTag}, attempt : Nat, failures : SUBSET Tag]

ReleaseTypeOK ==
  /\ commits \in Nat /\ changes \in [Projects -> Nat]
  /\ tags \subseteq Tag
  /\ releases \subseteq [tag : Tag, body : {"changelog", "byHand"}]
  /\ runs \in [ReleaseRuns -> RunType]

\* A project that was released has a last version.
LastVersions ==
  \A p \in Projects : TagsOf(p) # {} =>
    \E t \in TagsOf(p) : \A u \in TagsOf(p) : u.version <= t.version

\* While main is where a run found it, the versions that the run would push are the next.
BumpsAreNext(run) ==
  run.at = "bumped" =>
    /\ run.base <= commits
    /\ run.base = commits => \A t \in run.tags : t = NextTag(t.project)

\* A run has told, or failed to tell, the tags that it has behind it.
ToldSoFar(run) ==
  /\ run.mode = "full" /\ run.at \in {"releasing", "posting", "getting", "patching"} =>
       \A t \in run.listed \ (run.todo \cup run.failures) :
         \/ [tag |-> t, body |-> "changelog"] \in releases
         \/ run.at # "releasing" /\ t = run.tag
  /\ run.at \in {"posting", "getting", "patching"} => run.tag \in Tag

RunInv(run) == BumpsAreNext(run) /\ ToldSoFar(run) /\ OutcomeOf(run)

ReleaseInv ==
  /\ ReleaseTypeOK /\ LastVersions /\ EachChangeIsReleasedOnce
  /\ \A r \in ReleaseRuns : RunInv(runs[r])
=============================================================================

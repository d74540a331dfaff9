-------------------------- MODULE Services_proofs --------------------------
(***************************************************************************)
(* Theorems about what talks to remote services: the overlapping runs of   *)
(* Release and the requests of NotificationClient, for any number of them. *)
(***************************************************************************)
EXTENDS NotificationClient, Release, TLAPS

-----------------------------------------------------------------------------
(* Releases. *)

\* A run that has stopped owes nothing.
LEMMA StoppedIsQuiet ==
  ASSUME NEW at \in {"waiting", "skipped", "failed", "cancelled"}
  PROVE  Stopped(at) \in RunType /\ Stopped(at).at = at /\ Stopped(at).listed = {}
<1> DEFINE w == Waiting
<1>1. /\ w \in RunType /\ w.mode = "full" /\ w.listed = {} /\ w.failures = {}
  BY DEF Waiting, RunType, Modes
<1>2. Stopped(at) = [w EXCEPT !.at = at]
  BY DEF Stopped
<1> HIDE DEF w
<1>3. /\ Stopped(at) \in RunType /\ Stopped(at).at = at /\ Stopped(at).listed = {}
  BY <1>1, <1>2 DEF RunType
<1>. QED  BY <1>3

\* The last version of a project is its highest.
LEMMA ReleasedIsLast ==
  ASSUME ReleaseTypeOK, LastVersions, NEW p \in Projects
  PROVE  /\ Released(p).version \in Nat /\ Released(p).to \in Nat
         /\ \A u \in TagsOf(p) : u.version <= Released(p).version
         /\ TagsOf(p) # {} => Released(p) \in TagsOf(p)
         /\ TagsOf(p) = {} => Released(p) = [version |-> 0, to |-> 0]
         /\ NextTag(p) \in Tag /\ NextTag(p).project = p
         /\ NextTag(p).version = Released(p).version + 1 /\ NextTag(p).from = Released(p).to
<1>1. CASE TagsOf(p) = {}
  BY <1>1 DEF Released, ReleaseTypeOK, NextTag, Tag
<1>2. CASE TagsOf(p) # {}
  <2>1. /\ Released(p) \in TagsOf(p)
        /\ \A u \in TagsOf(p) : u.version <= Released(p).version
    BY <1>2 DEF Released, LastVersions
  <2>2. Released(p) \in Tag
    BY <2>1 DEF TagsOf, ReleaseTypeOK
  <2>. QED  BY <1>2, <2>1, <2>2 DEF ReleaseTypeOK, NextTag, Tag
<1>. QED  BY <1>1, <1>2

\* Nothing is pushed, and no release of a changelog is taken back.
ReleasesGrow ==
  /\ UNCHANGED <<commits, changes, tags>>
  /\ releases' \subseteq [tag : Tag, body : {"changelog", "byHand"}]
  /\ \A t : [tag |-> t, body |-> "changelog"] \in releases
             => [tag |-> t, body |-> "changelog"] \in releases'

LEMMA NothingReleased ==
  ASSUME ReleaseInv, UNCHANGED <<commits, changes, tags, releases>>
  PROVE  ReleasesGrow
BY DEF ReleaseInv, ReleaseTypeOK, ReleasesGrow

\* A step of one run that pushes nothing and takes back no release of a changelog.
LEMMA RunMoves ==
  ASSUME ReleaseInv, NEW r \in ReleaseRuns, NEW run \in RunType,
         runs' = [runs EXCEPT ![r] = run], RunInv(run)',
         ReleasesGrow
  PROVE  ReleaseInv'
<1>0. /\ UNCHANGED <<commits, changes, tags>>
      /\ releases' \subseteq [tag : Tag, body : {"changelog", "byHand"}]
      /\ \A t : [tag |-> t, body |-> "changelog"] \in releases
                  => [tag |-> t, body |-> "changelog"] \in releases'
  BY DEF ReleasesGrow
<1>1. /\ runs' \in [ReleaseRuns -> RunType] /\ runs'[r] = run
      /\ \A q \in ReleaseRuns \ {r} : runs'[q] = runs[q]
  BY DEF ReleaseInv, ReleaseTypeOK
<1>2. ReleaseTypeOK' /\ LastVersions' /\ EachChangeIsReleasedOnce'
  BY <1>0, <1>1 DEF ReleaseInv, ReleaseTypeOK, LastVersions, EachChangeIsReleasedOnce, TagsOf
<1>3. \A p : NextTag(p)' = NextTag(p)
  BY <1>0 DEF NextTag, Released, TagsOf
<1>4. ASSUME NEW q \in ReleaseRuns \ {r}
      PROVE  RunInv(runs[q])'
  <2>1. RunInv(runs[q]) /\ runs'[q] = runs[q]
    BY <1>1 DEF ReleaseInv
  <2>2. BumpsAreNext(runs[q])'
    BY <1>0, <1>3, <2>1 DEF RunInv, BumpsAreNext
  <2>3. ToldSoFar(runs[q])' /\ OutcomeOf(runs[q])'
    BY <1>0, <2>1 DEF RunInv, ToldSoFar, OutcomeOf
  <2>. QED  BY <2>2, <2>3 DEF RunInv
<1>5. RunInv(runs[r])'
  BY <1>1 DEF RunInv, BumpsAreNext, ToldSoFar, OutcomeOf, NextTag, Released, TagsOf
<1>. QED  BY <1>2, <1>4, <1>5 DEF ReleaseInv

\* The versions are bumped on a checkout of main, so that they are the next ones.
LEMMA BumpStep ==
  ASSUME ReleaseInv, NEW r \in ReleaseRuns, NEW mode \in Modes, NEW bumped \in SUBSET Projects,
         NEW told \in BOOLEAN, NEW listed \in SUBSET Projects,
         BumpVersions(r, mode, bumped, told, listed)
  PROVE  ReleaseInv'
<1> DEFINE next == {NextTag(p) : p \in bumped}
           named == {NextTag(p) : p \in listed}
           at == IF bumped = {} THEN "nothing" ELSE "bumped"
<1>1. PICK run : run = [runs[r] EXCEPT !.at = at, !.mode = mode, !.base = commits,
                                       !.tags = next, !.told = told, !.listed = named]
  OBVIOUS
<1>2. /\ runs' = [runs EXCEPT ![r] = run] /\ UNCHANGED <<commits, changes, tags, releases>>
  BY <1>1 DEF BumpVersions
<1>3. /\ next \subseteq Tag /\ \A t \in next : t = NextTag(t.project)
      /\ named \subseteq Tag
  <2>. SUFFICES ASSUME NEW p \in Projects PROVE NextTag(p) \in Tag /\ NextTag(p).project = p
    OBVIOUS
  <2>. QED  BY ReleasedIsLast DEF ReleaseInv
<1>4. at \in {"nothing", "bumped"}
  OBVIOUS
<1>5. runs[r] \in RunType /\ commits \in Nat
  BY DEF ReleaseInv, ReleaseTypeOK
<1> HIDE DEF next, named, at
<1>6. run \in RunType /\ run.at = at /\ run.base = commits /\ run.tags = next
  BY <1>1, <1>3, <1>4, <1>5 DEF RunType
<1>7. \A t : NextTag(t.project)' = NextTag(t.project)
  BY <1>2 DEF NextTag, Released, TagsOf
<1>8. RunInv(run)'
  BY <1>2, <1>3, <1>4, <1>5, <1>6, <1>7 DEF RunInv, BumpsAreNext, ToldSoFar, OutcomeOf
<1>. QED  BY <1>2, <1>6, <1>8, RunMoves, NothingReleased

\* A run stops.
LEMMA StopStep ==
  ASSUME ReleaseInv, NEW r \in ReleaseRuns, NEW at \in {"waiting", "skipped", "failed", "cancelled"},
         Stops(r, at), UNCHANGED <<commits, changes, tags, releases>>
  PROVE  ReleaseInv'
<1>1. PICK run : run = Stopped(at)
  OBVIOUS
<1>2. runs' = [runs EXCEPT ![r] = run]
  BY <1>1 DEF Stops
<1>3. run \in RunType /\ run.at = at /\ run.listed = {}
  <2>1. Stopped(at) \in RunType /\ Stopped(at).at = at /\ Stopped(at).listed = {}
    BY StoppedIsQuiet
  <2>. QED  BY <1>1, <2>1
<1>4. RunInv(run)'
  BY <1>3 DEF RunInv, BumpsAreNext, ToldSoFar, OutcomeOf
<1>. QED  BY <1>2, <1>3, <1>4, RunMoves, NothingReleased

\* The releases are made one after the other.
LEMMA CreateStep ==
  ASSUME ReleaseInv, NEW r \in ReleaseRuns, NEW t \in runs[r].todo, CreateRelease(r, t)
  PROVE  ReleaseInv'
<1> DEFINE old == runs[r]
           todo == old.todo \ {t}
<1>1. PICK run : run = [old EXCEPT !.at = "posting", !.tag = t, !.attempt = 1, !.todo = todo]
  OBVIOUS
<1>2. /\ runs' = [runs EXCEPT ![r] = run] /\ UNCHANGED <<commits, changes, tags, releases>>
      /\ old.at = "releasing"
  <2>1. runs' = [runs EXCEPT ![r] = [old EXCEPT !.at = "posting", !.tag = t, !.attempt = 1,
                                                !.todo = todo]]
    BY DEF CreateRelease
  <2>. QED  BY <1>1, <2>1 DEF CreateRelease
<1>3. old \in RunType /\ RunInv(old)
  BY DEF ReleaseInv, ReleaseTypeOK
<1>4. t \in Tag /\ todo \subseteq Tag /\ todo = old.todo \ {t}
  BY <1>3 DEF RunType
<1> HIDE DEF old, todo
<1>5. /\ run \in RunType /\ run.at = "posting" /\ run.tag = t /\ run.todo = todo
      /\ run.mode = old.mode /\ run.listed = old.listed /\ run.failures = old.failures
  BY <1>1, <1>3, <1>4 DEF RunType
<1>6. RunInv(run)'
  BY <1>2, <1>3, <1>4, <1>5 DEF RunInv, BumpsAreNext, ToldSoFar, OutcomeOf
<1>. QED  BY <1>2, <1>5, <1>6, RunMoves, NothingReleased

\* What becomes of a run with a tag in hand.
HandMove(r, run) ==
  /\ runs[r].at \in {"posting", "getting", "patching"} /\ runs' = [runs EXCEPT ![r] = run]
  /\ \/ \E at \in {"posting", "getting", "patching"} : run = [runs[r] EXCEPT !.at = at]
     \/ run = [runs[r] EXCEPT !.attempt = @ + 1]
     \/ run = Fail(runs[r])
     \/ /\ run = [runs[r] EXCEPT !.at = "releasing"]
        /\ [tag |-> runs[r].tag, body |-> "changelog"] \in releases'

\* A run with a tag in hand stays with it, has told it, or notes that it has failed to.
LEMMA HandMoves ==
  ASSUME ReleaseInv, NEW r \in ReleaseRuns, NEW run,
         HandMove(r, run), ReleasesGrow
  PROVE  ReleaseInv'
<1> DEFINE old == runs[r]
<1>1. old \in RunType /\ RunInv(old)
  BY DEF ReleaseInv, ReleaseTypeOK
<1>2. old.tag \in Tag /\ old.failures \cup {old.tag} \in SUBSET Tag /\ old.attempt + 1 \in Nat
  BY <1>1 DEF HandMove, RunInv, ToldSoFar, RunType
<1> HIDE DEF old
<1>3. /\ run \in RunType /\ run.listed = old.listed /\ run.todo = old.todo /\ run.tag = old.tag
      /\ run.mode = old.mode
      /\ \/ run.at \in {"posting", "getting", "patching"} /\ run.failures = old.failures
         \/ run.at = "releasing" /\ run.failures = old.failures \cup {old.tag}
         \/ /\ run.at = "releasing" /\ run.failures = old.failures
            /\ [tag |-> old.tag, body |-> "changelog"] \in releases'
  <2>1. CASE \E at \in {"posting", "getting", "patching"} : run = [old EXCEPT !.at = at]
    BY <1>1, <2>1 DEF RunType
  <2>2. CASE run = [old EXCEPT !.attempt = old.attempt + 1]
    <3> DEFINE n == old.attempt + 1
    <3>1. run = [old EXCEPT !.attempt = n] /\ n \in Nat
      BY <1>2, <2>2
    <3> HIDE DEF n
    <3>. QED  BY <1>1, <1>2, <3>1 DEF RunType, HandMove, old
  <2>3. CASE run = [old EXCEPT !.at = "releasing", !.failures = old.failures \cup {old.tag}]
    <3> DEFINE f == old.failures \cup {old.tag}
    <3>1. run = [old EXCEPT !.at = "releasing", !.failures = f] /\ f \in SUBSET Tag
      BY <1>2, <2>3
    <3>2. f = old.failures \cup {old.tag}
      OBVIOUS
    <3> HIDE DEF f
    <3>. QED  BY <1>1, <3>1, <3>2 DEF RunType
  <2>4. CASE /\ run = [old EXCEPT !.at = "releasing"]
             /\ [tag |-> old.tag, body |-> "changelog"] \in releases'
    BY <1>1, <2>4 DEF RunType
  <2>. QED  BY <2>1, <2>2, <2>3, <2>4 DEF HandMove, Fail, old
<1>4. \A t \in old.listed \ (old.todo \cup old.failures) : old.mode = "full" =>
        [tag |-> t, body |-> "changelog"] \in releases \/ t = old.tag
  BY <1>1 DEF RunInv, ToldSoFar, HandMove, old
<1>5. RunInv(run)'
  BY <1>2, <1>3, <1>4 DEF ReleasesGrow, RunInv, BumpsAreNext, ToldSoFar, OutcomeOf
<1>6. runs' = [runs EXCEPT ![r] = run]
  BY DEF HandMove
<1>. QED  BY <1>3, <1>5, <1>6, RunMoves

\* Answers of GitHub's.
LEMMA PostStep ==
  ASSUME ReleaseInv, NEW r \in ReleaseRuns, NEW answer, NEW takes \in BOOLEAN,
         Post(r, answer, takes)
  PROVE  ReleaseInv'
<1>1. PICK run : run = AfterPost(runs[r], answer)
  OBVIOUS
<1>2. /\ runs' = [runs EXCEPT ![r] = run] /\ runs[r].at = "posting"
      /\ UNCHANGED <<commits, changes, tags>>
      /\ releases' = IF takes THEN releases \cup {[tag |-> runs[r].tag, body |-> "changelog"]}
                     ELSE releases
      /\ answer = "created" => takes
  BY <1>1 DEF Post
<1>3. runs[r].tag \in Tag /\ releases \subseteq [tag : Tag, body : {"changelog", "byHand"}]
  BY <1>2 DEF ReleaseInv, RunInv, ToldSoFar, ReleaseTypeOK
<1>4. \/ run = [runs[r] EXCEPT !.at = "getting"]
      \/ run = [runs[r] EXCEPT !.attempt = @ + 1]
      \/ run = Fail(runs[r])
      \/ answer = "created" /\ run = [runs[r] EXCEPT !.at = "releasing"]
  BY <1>1 DEF AfterPost, AfterExists
<1>5. HandMove(r, run)
  BY <1>2, <1>4 DEF HandMove
<1>6. ReleasesGrow
  BY <1>2, <1>3 DEF ReleasesGrow
<1>. QED  BY <1>5, <1>6, HandMoves

LEMMA ExistingStep ==
  ASSUME ReleaseInv, NEW r \in ReleaseRuns, NEW ok \in BOOLEAN,
         GetExisting(r, ok) \/ \E takes \in BOOLEAN : PatchExisting(r, ok, takes)
  PROVE  ReleaseInv'
<1>1. /\ releases \subseteq [tag : Tag, body : {"changelog", "byHand"}]
      /\ runs[r].at = "patching" => runs[r].tag \in Tag
  BY DEF ReleaseInv, RunInv, ToldSoFar, ReleaseTypeOK
<1>2. CASE GetExisting(r, ok)
  <2>1. PICK run : run = IF ok THEN [runs[r] EXCEPT !.at = "patching"] ELSE Fail(runs[r])
    OBVIOUS
  <2>2. /\ runs' = [runs EXCEPT ![r] = run] /\ runs[r].at = "getting"
        /\ UNCHANGED <<commits, changes, tags, releases>>
    BY <1>2, <2>1 DEF GetExisting
  <2>3. HandMove(r, run)
    BY <2>1, <2>2 DEF HandMove
  <2>4. ReleasesGrow
    BY <2>2, NothingReleased
  <2>. QED  BY <2>3, <2>4, HandMoves
<1>3. ASSUME NEW takes \in BOOLEAN, PatchExisting(r, ok, takes)
      PROVE  ReleaseInv'
  <2>1. PICK run : run = IF ok THEN [runs[r] EXCEPT !.at = "releasing"] ELSE Fail(runs[r])
    OBVIOUS
  <2>2. /\ runs' = [runs EXCEPT ![r] = run] /\ runs[r].at = "patching"
        /\ UNCHANGED <<commits, changes, tags>> /\ (ok => takes)
        /\ releases' = IF takes THEN {x \in releases : x.tag # runs[r].tag}
                                       \cup {[tag |-> runs[r].tag, body |-> "changelog"]}
                       ELSE releases
    BY <1>3, <2>1 DEF PatchExisting
  <2>3. releases' \subseteq [tag : Tag, body : {"changelog", "byHand"}]
    BY <1>1, <2>2
  <2>4. \A t : [tag |-> t, body |-> "changelog"] \in releases
                 => [tag |-> t, body |-> "changelog"] \in releases'
    BY <2>2
  <2>5. ok => [tag |-> runs[r].tag, body |-> "changelog"] \in releases'
    BY <2>2
  <2>6. HandMove(r, run)
    BY <2>1, <2>2, <2>5 DEF HandMove
  <2>7. ReleasesGrow
    BY <2>2, <2>3, <2>4 DEF ReleasesGrow
  <2>. QED  BY <2>6, <2>7, HandMoves
<1>. QED  BY <1>2, <1>3

LEMMA EndStep ==
  ASSUME ReleaseInv, NEW r \in ReleaseRuns, ReleaseEnds(r)
  PROVE  ReleaseInv'
<1> DEFINE old == runs[r]
           at == IF old.failures = {} THEN "complete" ELSE "incomplete"
<1>1. PICK run : run = [old EXCEPT !.at = at, !.tag = NoTag, !.attempt = 0]
  OBVIOUS
<1>2. /\ runs' = [runs EXCEPT ![r] = run] /\ UNCHANGED <<commits, changes, tags, releases>>
      /\ old.at = "releasing" /\ old.todo = {}
  BY <1>1 DEF ReleaseEnds
<1>3. old \in RunType /\ RunInv(old)
  BY DEF ReleaseInv, ReleaseTypeOK
<1>4. at \in {"complete", "incomplete"} /\ (at = "complete" => old.failures = {})
  OBVIOUS
<1> HIDE DEF old, at
<1>5. /\ run \in RunType /\ run.at = at /\ run.mode = old.mode /\ run.listed = old.listed
      /\ run.failures = old.failures
  BY <1>1, <1>3, <1>4 DEF RunType
<1>6. RunInv(run)'
  BY <1>2, <1>3, <1>4, <1>5 DEF RunInv, BumpsAreNext, ToldSoFar, OutcomeOf
<1>. QED  BY <1>2, <1>5, <1>6, RunMoves, NothingReleased

\* The versions that are pushed are the next ones, each after the last of its project.
LEMMA TagsArePushed ==
  ASSUME ReleaseInv, NEW new \in SUBSET Tag, \A t \in new : t = NextTag(t.project),
         tags' = tags \cup new
  PROVE  LastVersions' /\ EachChangeIsReleasedOnce' /\ tags' \subseteq Tag
<1>1. tags \subseteq Tag /\ LastVersions /\ EachChangeIsReleasedOnce /\ ReleaseTypeOK
  BY DEF ReleaseInv, ReleaseTypeOK
<1>2. \A t \in new : /\ t.version = Released(t.project).version + 1
                     /\ t.from = Released(t.project).to
                     /\ \A u \in TagsOf(t.project) : u.version < t.version
  <2>. SUFFICES ASSUME NEW t \in new
                PROVE  /\ t.version = Released(t.project).version + 1
                       /\ t.from = Released(t.project).to
                       /\ \A u \in TagsOf(t.project) : u.version < t.version
    OBVIOUS
  <2>1. t.project \in Projects /\ t = NextTag(t.project)
    BY DEF Tag
  <2>2. /\ NextTag(t.project).version = Released(t.project).version + 1
        /\ NextTag(t.project).from = Released(t.project).to
        /\ Released(t.project).version \in Nat
        /\ \A u \in TagsOf(t.project) : u.version <= Released(t.project).version
    BY <1>1, <2>1, ReleasedIsLast
  <2>3. \A u \in TagsOf(t.project) : u.version \in Nat
    BY <1>1 DEF TagsOf, Tag
  <2>. QED  BY <2>1, <2>2, <2>3
<1>3. \A t, u \in new : t.project = u.project => t = u
  OBVIOUS
<1>4. LastVersions'
  <2>. SUFFICES ASSUME NEW p \in Projects, TagsOf(p)' # {}
                PROVE  \E t \in TagsOf(p)' : \A u \in TagsOf(p)' : u.version <= t.version
    BY DEF LastVersions
  <2>1. TagsOf(p)' = TagsOf(p) \cup {t \in new : t.project = p}
    BY DEF TagsOf
  <2>2. \A u \in TagsOf(p)' : u.version \in Nat
    BY <1>1, <2>1 DEF TagsOf, Tag
  <2>3. ASSUME NEW t \in new, t.project = p
        PROVE  \A u \in TagsOf(p)' : u.version <= t.version
    BY <1>2, <1>3, <2>1, <2>2, <2>3
  <2>4. CASE {t \in new : t.project = p} = {}
    BY <1>1, <2>1, <2>4 DEF LastVersions
  <2>. QED  BY <2>1, <2>3, <2>4
<1>5. EachChangeIsReleasedOnce'
  <2>1. ASSUME NEW t \in tags', NEW u \in tags', t.project = u.project, t.version = u.version
        PROVE  t = u
    <3>1. t.version \in Nat
      BY <1>1 DEF Tag
    <3>2. \A v \in tags, n \in new : v.project = n.project => v.version < n.version
      BY <1>2 DEF TagsOf
    <3>3. CASE t \in tags /\ u \in tags
      BY <1>1, <2>1, <3>3 DEF EachChangeIsReleasedOnce
    <3>4. CASE t \in new /\ u \in new
      BY <1>3, <2>1, <3>4
    <3>. QED  BY <2>1, <3>1, <3>2, <3>3, <3>4
  <2>2. ASSUME NEW t \in new
        PROVE  IF t.version = 1 THEN t.from = 0
               ELSE \E u \in tags : /\ u.project = t.project /\ u.version = t.version - 1
                                    /\ u.to = t.from
    <3> DEFINE p == t.project
    <3>1. /\ p \in Projects /\ t.version = Released(p).version + 1 /\ t.from = Released(p).to
      BY <1>2 DEF Tag
    <3>2. /\ Released(p).version \in Nat
          /\ TagsOf(p) # {} => Released(p) \in TagsOf(p)
          /\ TagsOf(p) = {} => Released(p) = [version |-> 0, to |-> 0]
      BY <1>1, <3>1, ReleasedIsLast
    <3>3. CASE TagsOf(p) = {}
      BY <3>1, <3>2, <3>3
    <3>4. CASE TagsOf(p) # {}
      <4>1. Released(p) \in tags /\ Released(p).project = p /\ Released(p).version # 0
        BY <1>1, <3>2, <3>4 DEF TagsOf, Tag
      <4>2. Released(p).version = t.version - 1 /\ t.version # 1
        BY <3>1, <3>2, <4>1
      <4>. QED  BY <3>1, <4>1, <4>2
    <3>. QED  BY <3>3, <3>4
  <2>3. \A t \in tags : IF t.version = 1 THEN t.from = 0
                        ELSE \E u \in tags : /\ u.project = t.project /\ u.version = t.version - 1
                                             /\ u.to = t.from
    BY <1>1 DEF EachChangeIsReleasedOnce
  <2>. QED  BY <2>1, <2>2, <2>3 DEF EachChangeIsReleasedOnce
<1>. QED  BY <1>1, <1>4, <1>5

\* Main moves on: whoever bumped before has not its head any more.
LEMMA MainMoves ==
  ASSUME ReleaseInv, commits' = commits + 1, releases' = releases,
         NEW run, RunInv(run), run \in RunType
  PROVE  RunInv(run)'
<1>1. BumpsAreNext(run)'
  BY DEF ReleaseInv, ReleaseTypeOK, RunInv, BumpsAreNext, RunType
<1>2. ToldSoFar(run)' /\ OutcomeOf(run)'
  BY DEF RunInv, ToldSoFar, OutcomeOf
<1>. QED  BY <1>1, <1>2 DEF RunInv

LEMMA MergeStep ==
  ASSUME ReleaseInv, NEW p \in Projects, Merge(p)
  PROVE  ReleaseInv'
<1>1. /\ commits' = commits + 1 /\ changes' = [changes EXCEPT ![p] = @ + 1]
      /\ UNCHANGED <<tags, releases, runs>>
  BY DEF Merge
<1>2. ReleaseTypeOK' /\ LastVersions' /\ EachChangeIsReleasedOnce'
  BY <1>1 DEF ReleaseInv, ReleaseTypeOK, LastVersions, EachChangeIsReleasedOnce, TagsOf
<1>3. ASSUME NEW r \in ReleaseRuns
      PROVE  RunInv(runs[r])'
  <2>1. PICK run : run = runs[r]
    OBVIOUS
  <2>2. RunInv(run) /\ run \in RunType
    BY <2>1 DEF ReleaseInv, ReleaseTypeOK
  <2>3. RunInv(run)'
    BY <1>1, <2>2, MainMoves
  <2>4. runs'[r] = run
    BY <1>1, <2>1
  <2>. QED  BY <2>3, <2>4 DEF RunInv, BumpsAreNext, ToldSoFar, OutcomeOf, NextTag, Released, TagsOf
<1>. QED  BY <1>2, <1>3 DEF ReleaseInv

\* What a run is after its push: it has told nothing yet.
LEMMA AfterPushType ==
  ASSUME NEW old \in RunType, old.at = "bumped", NEW run, run = AfterPush(old)
  PROVE  /\ run \in RunType
         /\ run.listed = {} \/ (run.at = "releasing" /\ (run.mode = "full" => run.todo = run.listed))
         /\ run.at \in {"skipped", "releasing"}
<1>1. CASE run = Stopped("skipped")
  BY <1>1, StoppedIsQuiet
<1>2. CASE old.mode = "full" /\ run = [old EXCEPT !.at = "releasing", !.todo = old.listed]
  BY <1>2 DEF RunType
<1>3. CASE old.mode = "dry" /\ run = [old EXCEPT !.at = "releasing"]
  BY <1>3 DEF RunType
<1>4. old.mode \in {"full", "tokenless", "dry"} /\ old.told \in BOOLEAN
  BY DEF RunType, Modes
<1>. QED  BY <1>1, <1>2, <1>3, <1>4 DEF AfterPush

\* A push succeeds where main is where the run found it, and then nothing can be bumped
\* that others have bumped.
LEMMA PushStep ==
  ASSUME ReleaseInv, NEW r \in ReleaseRuns, NEW fails \in BOOLEAN, Push(r, fails)
  PROVE  ReleaseInv'
<1> DEFINE old == runs[r]
<1>1. old \in RunType /\ RunInv(old) /\ old.at = "bumped" /\ UNCHANGED <<changes, releases>>
  BY DEF ReleaseInv, ReleaseTypeOK, Push
<1>2. PICK run : run = IF fails THEN Stopped("failed") ELSE AfterPush(old)
  OBVIOUS
<1>3. /\ run \in RunType /\ run.at \in {"failed", "skipped", "releasing"}
      /\ run.listed = {} \/ (run.at = "releasing" /\ (run.mode = "full" => run.todo = run.listed))
  BY <1>1, <1>2, AfterPushType, StoppedIsQuiet
<1>4. RunInv(run) /\ RunInv(run)'
  BY <1>3 DEF RunInv, BumpsAreNext, ToldSoFar, OutcomeOf
<1>5. runs' = [runs EXCEPT ![r] = run]
  BY <1>2 DEF Push
<1>6. CASE UNCHANGED <<commits, tags>>
  BY <1>1, <1>3, <1>4, <1>5, <1>6, RunMoves, NothingReleased
<1>7. CASE old.base = commits /\ commits' = commits + 1 /\ tags' = tags \cup old.tags
  <2>1. old.tags \in SUBSET Tag /\ \A t \in old.tags : t = NextTag(t.project)
    BY <1>1, <1>7 DEF RunType, RunInv, BumpsAreNext
  <2>2. LastVersions' /\ EachChangeIsReleasedOnce' /\ tags' \subseteq Tag
    BY <1>7, <2>1, TagsArePushed
  <2>3. /\ runs' \in [ReleaseRuns -> RunType] /\ runs'[r] = run
        /\ \A q \in ReleaseRuns \ {r} : runs'[q] = runs[q]
    BY <1>3, <1>5 DEF ReleaseInv, ReleaseTypeOK
  <2>4. ReleaseTypeOK'
    BY <1>1, <1>7, <2>2, <2>3 DEF ReleaseInv, ReleaseTypeOK
  <2>5. ASSUME NEW q \in ReleaseRuns
        PROVE  RunInv(runs[q])'
    <3>1. PICK other : other = runs'[q]
      OBVIOUS
    <3>2. CASE q = r
      BY <1>3, <2>3, <3>2 DEF RunInv, BumpsAreNext, ToldSoFar, OutcomeOf
    <3>3. CASE q # r
      <4>1. RunInv(other) /\ other \in RunType
        BY <2>3, <3>1, <3>3 DEF ReleaseInv, ReleaseTypeOK
      <4>2. RunInv(other)'
        BY <1>1, <1>7, <4>1, MainMoves
      <4>. QED  BY <3>1, <4>2 DEF RunInv, BumpsAreNext, ToldSoFar, OutcomeOf, NextTag, Released, TagsOf
    <3>. QED  BY <3>2, <3>3
  <2>. QED  BY <2>2, <2>4, <2>5 DEF ReleaseInv
<1>. QED  BY <1>6, <1>7 DEF Push, PushedTags

\* Whoever writes a release by hand takes none away.
LEMMA ByHandStep ==
  ASSUME ReleaseInv, NEW t \in tags, ReleaseByHand(t)
  PROVE  ReleaseInv'
<1>1. /\ releases \subseteq releases' /\ UNCHANGED <<commits, changes, tags, runs>>
      /\ releases' = releases \cup {[tag |-> t, body |-> "byHand"]}
  BY DEF ReleaseByHand
<1>2. ReleaseTypeOK' /\ LastVersions' /\ EachChangeIsReleasedOnce'
  BY <1>1 DEF ReleaseInv, ReleaseTypeOK, LastVersions, EachChangeIsReleasedOnce, TagsOf
<1>3. \A p : NextTag(p)' = NextTag(p)
  BY <1>1 DEF NextTag, Released, TagsOf
<1>4. ASSUME NEW r \in ReleaseRuns
      PROVE  RunInv(runs[r])'
  <2>1. BumpsAreNext(runs[r])'
    BY <1>1, <1>3 DEF ReleaseInv, RunInv, BumpsAreNext
  <2>2. ToldSoFar(runs[r])' /\ OutcomeOf(runs[r])'
    BY <1>1 DEF ReleaseInv, RunInv, ToldSoFar, OutcomeOf
  <2>. QED  BY <2>1, <2>2 DEF RunInv
<1>. QED  BY <1>2, <1>4 DEF ReleaseInv

LEMMA ReleaseInvInit == ReleaseInit => ReleaseInv
<1>. SUFFICES ASSUME ReleaseInit PROVE ReleaseInv
  OBVIOUS
<1>1. Waiting \in RunType /\ Waiting.at = "waiting" /\ Waiting.listed = {}
  BY DEF Waiting, RunType, Modes
<1>2. ReleaseTypeOK /\ LastVersions /\ EachChangeIsReleasedOnce
  BY <1>1 DEF ReleaseInit, ReleaseTypeOK, LastVersions, TagsOf, EachChangeIsReleasedOnce
<1>3. \A r \in ReleaseRuns : runs[r] = Waiting
  BY DEF ReleaseInit
<1>. QED  BY <1>1, <1>2, <1>3 DEF ReleaseInv, RunInv, BumpsAreNext, ToldSoFar, OutcomeOf

LEMMA ReleaseInvStep ==
  ASSUME ReleaseInv, [ReleaseNext]_releaseVars
  PROVE  ReleaseInv'
<1>1. CASE UNCHANGED releaseVars
  <2>1. UNCHANGED <<commits, changes, tags, releases, runs>>
    BY <1>1 DEF releaseVars
  <2>. QED  BY <2>1 DEF ReleaseInv, ReleaseTypeOK, LastVersions, EachChangeIsReleasedOnce, RunInv,
                        BumpsAreNext, ToldSoFar, OutcomeOf, NextTag, Released, TagsOf
<1>2. ASSUME NEW r \in ReleaseRuns,
             BumpFails(r) \/ ResolveFails(r) \/ CancelRun(r)
      PROVE  ReleaseInv'
  BY <1>2, StopStep DEF BumpFails, ResolveFails, CancelRun
<1>. QED
  BY <1>1, <1>2, MergeStep, ByHandStep, BumpStep, PushStep, CreateStep, PostStep, ExistingStep, EndStep
     DEF ReleaseNext

\* However the runs of the workflow overlap and are cancelled, each change is in one
\* version of its project, pushed once, and a run that went through the releases told the
\* truth about each.
THEOREM ReleasesTrue == ReleaseSpec => []ReleasesAreTrue
<1>1. ReleaseInit => ReleaseInv
  BY ReleaseInvInit
<1>2. ReleaseInv /\ [ReleaseNext]_releaseVars => ReleaseInv'
  BY ReleaseInvStep
<1>3. ReleaseInv => ReleasesAreTrue
  BY DEF ReleaseInv, ReleasesAreTrue, OutcomeIsTrue, RunInv
<1>. QED  BY <1>1, <1>2, <1>3, PTL DEF ReleaseSpec

-----------------------------------------------------------------------------
(* Notifications: what a step does to the call of an app or a worker. *)

Requests == {NoJob} \cup TriggerRequests \cup AppRequests

\* The call of c goes on, or ends with one of the answers.
Settles(c, call, answers) ==
  /\ calls' = [calls EXCEPT ![c] = call]
  /\ call.request = calls[c].request
  /\ \/ call.at = calls[c].at /\ call.answer = calls[c].answer
     \/ call.at = "answered" /\ call.answer \in answers

LEMMA AnswerSettles ==
  ASSUME calls \in [Callers -> CallType(Requests)], NEW c \in Callers, NEW answer \in Answers,
         calls' = Answer(c, answer)
  PROVE  \E call \in CallType(Requests) :
           Settles(c, call, {answer}) /\ call.at = "answered" /\ call.answer = answer
<1> DEFINE old == calls[c]
           call == [old EXCEPT !.at = "answered", !.answer = answer]
<1>1. old \in CallType(Requests)
  OBVIOUS
<1>2. calls' = [calls EXCEPT ![c] = call]
  BY DEF Answer
<1> HIDE DEF old
<1>3. /\ call \in CallType(Requests) /\ call.request = old.request
      /\ call.at = "answered" /\ call.answer = answer
  BY <1>1 DEF CallType
<1> HIDE DEF call
<1>4. Settles(c, call, {answer})
  BY <1>2, <1>3 DEF Settles, old
<1>. QED  BY <1>3, <1>4

LEMMA RetrySettles ==
  ASSUME calls \in [Callers -> CallType(Requests)], NEW c \in Callers, MaxRetries \in Nat,
         calls[c].tries < MaxRetries, calls' = [calls EXCEPT ![c].tries = @ + 1]
  PROVE  \E call \in CallType(Requests) :
           Settles(c, call, {}) /\ call.at = calls[c].at /\ call.answer = calls[c].answer
<1> DEFINE old == calls[c]
           tries == old.tries + 1
           call == [old EXCEPT !.tries = tries]
<1>1. old \in CallType(Requests)
  OBVIOUS
<1>2. calls' = [calls EXCEPT ![c] = call]
  OBVIOUS
<1>3. tries \in 0 .. MaxRetries
  BY <1>1 DEF CallType
<1> HIDE DEF old, tries
<1>4. call \in CallType(Requests) /\ call.request = old.request
      /\ call.at = old.at /\ call.answer = old.answer
  BY <1>1, <1>3 DEF CallType
<1> HIDE DEF call
<1>5. Settles(c, call, {})
  BY <1>2, <1>4 DEF Settles, old
<1>. QED  BY <1>4, <1>5 DEF old

LEMMA ErrorSettles ==
  ASSUME calls \in [Callers -> CallType(Requests)], NEW c \in Callers, MaxRetries \in Nat,
         NEW status \in Statuses, calls' = AfterError(c, status)
  PROVE  \E call \in CallType(Requests) : Settles(c, call, {status})
<1>1. CASE calls' = Answer(c, status)
  <2>1. status \in Answers
    BY DEF Statuses, Answers
  <2>. QED  BY <1>1, <2>1, AnswerSettles
<1>2. CASE calls[c].tries < MaxRetries /\ calls' = [calls EXCEPT ![c].tries = @ + 1]
  <2>1. PICK call \in CallType(Requests) :
             Settles(c, call, {}) /\ call.at = calls[c].at /\ call.answer = calls[c].answer
    BY <1>2, RetrySettles
  <2>2. Settles(c, call, {status})
    BY <2>1 DEF Settles
  <2>. QED  BY <2>2
<1>. QED  BY <1>1, <1>2 DEF AfterError

LEMMA WriteAsks ==
  ASSUME CallsInv, MaxRetries \in Nat, NEW a \in Apps, calls[a].at = "reading",
         NEW existing \in SUBSET AllTokens, calls' = Write(a, existing)
  PROVE  \E call \in CallType(Requests) :
           /\ calls' = [calls EXCEPT ![a] = call]
           /\ call.at = "asking" /\ call.answer = calls[a].answer
           /\ call.request \in AppRequests /\ call.request.op = "append"
           /\ call.request.data = existing \cup {TokenOf[a]}
<1> DEFINE old == calls[a]
           data == existing \cup {TokenOf[a]}
           asked == old.request
           request == [asked EXCEPT !.data = data]
           call == [old EXCEPT !.at = "asking", !.tries = 0, !.request = request]
<1>0. a \in Callers
  BY DEF Callers
<1>1. old \in CallType(Requests) /\ asked \in AppRequests /\ asked.op = "append"
  BY <1>0 DEF CallsInv, Requests
<1>2. data \in SUBSET AllTokens
  BY DEF AllTokens
<1>3. calls' = [calls EXCEPT ![a] = call]
  BY <1>0, <1>1 DEF Write, CallsInv, CallType, AppRequests
<1> HIDE DEF old, data, asked
<1>4. request \in AppRequests /\ request.op = "append" /\ request.data = data
  BY <1>1, <1>2 DEF AppRequests
<1> HIDE DEF request
<1>5. request \in Requests /\ 0 \in 0 .. MaxRetries
  BY <1>4 DEF Requests
<1>6. /\ call \in CallType(Requests) /\ call.at = "asking" /\ call.answer = old.answer
      /\ call.request = request
  BY <1>1, <1>5 DEF CallType
<1> HIDE DEF call
<1>. QED  BY <1>3, <1>4, <1>6 DEF old, data

\* Enqueueing adds to what may be asked, and nothing else changes it.
LEMMA RequestsGrow ==
  ASSUME \A e \in Events : lists[e] \subseteq lists'[e]
  PROVE  /\ Enqueued \subseteq Enqueued' /\ TriggerRequests \subseteq TriggerRequests'
         /\ Requests \subseteq Requests' /\ AppRequests' = AppRequests
         /\ CallType(Requests) \subseteq CallType(Requests')
<1>1. Enqueued \subseteq Enqueued'
  BY DEF Enqueued
<1>2. TriggerRequests \subseteq TriggerRequests'
  BY <1>1 DEF TriggerRequests
<1>3. AppRequests' = AppRequests
  BY DEF AppRequests, AllTokens
<1>4. Requests \subseteq Requests'
  BY <1>2, <1>3 DEF Requests
<1>. QED  BY <1>1, <1>2, <1>3, <1>4 DEF CallType

LEMMA RequestsStay ==
  ASSUME UNCHANGED lists
  PROVE  /\ Enqueued' = Enqueued /\ TriggerRequests' = TriggerRequests
         /\ Requests' = Requests /\ AppRequests' = AppRequests
<1>1. Enqueued' = Enqueued
  BY DEF Enqueued
<1>2. TriggerRequests' = TriggerRequests
  BY <1>1 DEF TriggerRequests
<1>3. AppRequests' = AppRequests
  BY DEF AppRequests, AllTokens
<1>. QED  BY <1>1, <1>2, <1>3 DEF Requests

\* What a call may be.
Fits(c, call) ==
  /\ c \in Workers /\ call.at # "idle" => call.at # "reading" /\ call.request \in TriggerRequests
  /\ c \in Apps /\ call.at # "idle" =>
       call.request \in AppRequests /\ (call.at = "reading" => call.request.op = "append")

LEMMA CallMoves ==
  ASSUME CallsInv, NEW c \in Callers, NEW call \in CallType(Requests), Fits(c, call),
         calls' = [calls EXCEPT ![c] = call], UNCHANGED lists,
         flying' \subseteq TriggerRequests \cup AppRequests, tokens' \subseteq AllTokens
  PROVE  CallsInv'
<1>1. TriggerRequests' = TriggerRequests /\ AppRequests' = AppRequests
  BY RequestsStay
<1>2. calls \in [Callers -> CallType(Requests)]
  BY DEF CallsInv, Requests
<1>3. calls' \in [Callers -> CallType(Requests)] /\ calls'[c] = call
      /\ \A d \in Callers : d # c => calls'[d] = calls[d]
  BY <1>2
<1>4. calls' \in [Callers -> CallType({NoJob} \cup TriggerRequests' \cup AppRequests')]
  BY <1>1, <1>3 DEF Requests
<1>5. \A w \in Workers : calls'[w].at # "idle" =>
         calls'[w].at # "reading" /\ calls'[w].request \in TriggerRequests
  BY <1>3 DEF CallsInv, Fits, Callers
<1>6. \A a \in Apps : calls'[a].at # "idle" =>
         calls'[a].request \in AppRequests /\ (calls'[a].at = "reading" => calls'[a].request.op = "append")
  BY <1>3 DEF CallsInv, Fits, Callers
<1>7. (CallType({NoJob} \cup TriggerRequests \cup AppRequests))'
        = CallType({NoJob} \cup TriggerRequests' \cup AppRequests')
  BY DEF CallType, Answers
<1>8. tokens' \subseteq AllTokens'
  BY DEF AllTokens
<1>. QED  BY <1>1, <1>4, <1>5, <1>6, <1>7, <1>8 DEF CallsInv

\* A call that goes on or ends still fits.
LEMMA SettledFits ==
  ASSUME CallsInv, NEW c \in Callers, calls[c].at \in {"reading", "asking"},
         NEW answers, NEW call \in CallType(Requests), Settles(c, call, answers)
  PROVE  Fits(c, call)
BY DEF Settles, Fits, CallsInv

\* What is asked may come late.
LEMMA LateIsAsked ==
  ASSUME CallsInv, NEW c \in Callers, calls[c].at = "asking"
  PROVE  /\ calls[c].request \in TriggerRequests \cup AppRequests
         /\ Late(calls[c].request) \subseteq flying \cup {calls[c].request}
BY DEF CallsInv, Callers, Late

LEMMA TriggersTrigger ==
  ASSUME NEW request \in TriggerRequests
  PROVE  request.op = "trigger"
<1>1. PICK job \in Enqueued, data \in Variables : request = TriggerRequest(job, data)
  BY DEF TriggerRequests
<1>. QED  BY <1>1 DEF TriggerRequest

\* What the provider receives is written if a token is appended.
LEMMA ReceiveWrites ==
  ASSUME CallsInv, NEW request \in TriggerRequests \cup AppRequests, Receive(request)
  PROVE  /\ request.op = "append" => tokens' = request.data
         /\ request.op # "append" => tokens' = tokens
         /\ tokens' \subseteq AllTokens
<1>1. request \in TriggerRequests => request.op = "trigger"
  BY TriggersTrigger
<1>2. request \in AppRequests => request.data \subseteq AllTokens /\ request.op # "trigger"
  BY DEF AppRequests
<1>3. request.op = "append" => tokens' = request.data
  BY DEF Receive
<1>4. request.op # "append" => tokens' = tokens
  BY DEF Receive, provider
<1>. QED  BY <1>1, <1>2, <1>3, <1>4 DEF CallsInv

-----------------------------------------------------------------------------
(* Push tokens. *)

LEMMA PendingTypes ==
  ASSUME CallsInv, NEW f \in Pending
  PROVE  f \in AppRequests /\ f.op = "append" /\ f.data \subseteq AllTokens
<1>1. CASE f \in flying /\ f.op = "append"
  <2>1. f \in AppRequests
    BY <1>1, TriggersTrigger DEF CallsInv
  <2>. QED  BY <1>1, <2>1 DEF AppRequests
<1>2. ASSUME NEW a \in Apps, calls[a].at = "asking", IsAppending(a), f = calls[a].request
      PROVE  f \in AppRequests /\ f.op = "append" /\ f.data \subseteq AllTokens
  <2>1. f \in AppRequests /\ f.op = "append"
    BY <1>2 DEF CallsInv, IsAppending
  <2>. QED  BY <2>1 DEF AppRequests
<1>. QED  BY <1>1, <1>2 DEF Pending

\* A step that adds nothing to what may be written, and writes that at most.
LEMMA TokensQuiet ==
  ASSUME TokensInv, Pending' \subseteq Pending,
         tokens' \in {tokens} \cup {f.data : f \in Pending}, Added' \subseteq Added,
         \A a \in Apps : IsAppending(a)' =>
           /\ IsAppending(a) /\ calls'[a].at = calls[a].at /\ calls'[a].request = calls[a].request
           /\ a \in contended => a \in contended'
  PROVE  TokensInv'
<1>1. \A data \in {tokens'} \cup {f.data : f \in Pending'} :
         data \in {tokens} \cup {f.data : f \in Pending}
  OBVIOUS
<1>2. \A data \in {tokens'} \cup {f.data : f \in Pending'} : OldTokens \cup Added' \subseteq data
  BY <1>1 DEF TokensInv
<1>3. \A a \in Apps : calls'[a].at = "asking" /\ IsAppending(a)' =>
         TokenOf[a] \in calls'[a].request.data
  BY DEF TokensInv
<1>4. ASSUME NEW a \in Apps \ contended', IsAppending(a)'
      PROVE  /\ \A b \in Apps : IsAppending(b)' => b = a
             /\ \A f \in Pending' : calls'[a].at = "asking" /\ f = calls'[a].request
  <2>1. a \in Apps \ contended /\ IsAppending(a)
    BY <1>4
  <2>2. /\ \A b \in Apps : IsAppending(b) => b = a
        /\ \A f \in Pending : calls[a].at = "asking" /\ f = calls[a].request
    BY <2>1 DEF TokensInv
  <2>. QED  BY <1>4, <2>2
<1>. QED  BY <1>2, <1>3, <1>4 DEF TokensInv

\* The same of a step of one call.
LEMMA CallIsQuiet ==
  ASSUME CallsInv, TokensInv, NEW c \in Callers,
         NEW call \in CallType(Requests), Fits(c, call), calls' = [calls EXCEPT ![c] = call],
         contended' = contended \/ (contended' = contended \ {c} /\ call.at = "idle"),
         \A f \in flying' : f.op = "append" => f \in Pending,
         tokens' \in {tokens} \cup {f.data : f \in Pending}, appended' \subseteq Added,
         c \in Apps /\ call.at \in {"reading", "asking"} /\ call.request.op = "append" =>
           calls[c].at = call.at /\ calls[c].request = call.request,
         c \in Apps /\ call.at = "answered" /\ call.request.op = "append" /\ call.answer = "ok" =>
           TokenOf[c] \in Added
  PROVE  TokensInv'
<1>1. calls'[c] = call /\ \A d \in Callers : d # c => calls'[d] = calls[d]
  BY DEF CallsInv
<1>2. \A a \in Apps : calls'[a].at \in {"reading", "asking"} /\ calls'[a].request.op = "append" =>
         calls[a].at = calls'[a].at /\ calls[a].request = calls'[a].request
  BY <1>1 DEF Callers
<1>3. \A a \in Apps : IsAppending(a)' =>
         IsAppending(a) /\ calls'[a].at = calls[a].at /\ calls'[a].request = calls[a].request
  BY <1>2 DEF IsAppending
<1>4. \A a \in Apps : a \in contended /\ a \notin contended' => a = c /\ calls'[a].at = "idle"
  BY <1>1
<1>5. \A a \in Apps : IsAppending(a)' => (a \in contended => a \in contended')
  BY <1>4 DEF IsAppending
<1>6. Pending' \subseteq Pending
  <2>1. \A a \in Apps : calls'[a].at = "asking" /\ IsAppending(a)' => calls'[a].request \in Pending
    BY <1>2, <1>3 DEF IsAppending, Pending
  <2>2. \A f \in Pending' : \/ f \in flying' /\ f.op = "append"
                            \/ \E a \in Apps : /\ calls'[a].at = "asking" /\ IsAppending(a)'
                                               /\ f = calls'[a].request
    BY DEF Pending
  <2>. QED  BY <2>1, <2>2
<1>7. Added' \subseteq Added
  <2>1. \A a \in Apps \ contended : calls'[a].at = "answered" /\ calls'[a].request.op = "append"
                          /\ calls'[a].answer = "ok" => TokenOf[a] \in Added
    BY <1>1 DEF Callers, Added
  <2>2. \A t \in Added' : t \in appended' \/ \E a \in Apps \ contended' :
           /\ calls'[a].at = "answered" /\ calls'[a].request.op = "append"
           /\ calls'[a].answer = "ok" /\ t = TokenOf[a]
    BY DEF Added
  <2>. QED  BY <1>4, <2>1, <2>2
<1>. QED  BY <1>3, <1>5, <1>6, <1>7, TokensQuiet

\* Steps that leave the calls and the tokens alone.
LEMMA CallsQuiet ==
  ASSUME CallsInv, TokensInv, UNCHANGED <<calls, flying, pushTokens>>,
         \A e \in Events : lists[e] \subseteq lists'[e]
  PROVE  CallsInv' /\ TokensInv'
<1>1. /\ TriggerRequests \subseteq TriggerRequests' /\ AppRequests' = AppRequests
      /\ CallType(Requests) \subseteq CallType(Requests')
  BY RequestsGrow
<1>2. UNCHANGED <<tokens, contended, appended>>
  BY DEF pushTokens
<1>3. CallsInv'
  <2>1. calls' \in [Callers -> CallType(Requests')]
    BY <1>1 DEF CallsInv, Requests
  <2>2. (CallType({NoJob} \cup TriggerRequests \cup AppRequests))' = CallType(Requests')
    BY <1>1 DEF CallType, Answers, Requests
  <2>. QED  BY <1>1, <1>2, <2>1, <2>2 DEF CallsInv, AllTokens
<1>4. Pending' = Pending /\ Added' = Added
  BY <1>2 DEF Pending, Added, IsAppending
<1>5. TokensInv'
  BY <1>2, <1>4 DEF TokensInv, IsAppending
<1>. QED  BY <1>3, <1>5

LEMMA QueueKeepsTokens ==
  ASSUME CallsInv, TokensInv, JobsInv,
         \/ \E e \in Events : Expire(e) \/ \E list \in Lists[e] : EnqueueOneOrMore(e, list)
         \/ \E job \in landing : JobLands(job) \/ JobFailsToLand(job)
  PROVE  CallsInv' /\ TokensInv'
<1>1. lists \in [Events -> SUBSET UNION {Lists[e] : e \in Events}]
  BY DEF JobsInv
<1>2. ASSUME NEW e \in Events, Expire(e)
      PROVE  CallsInv' /\ TokensInv'
  BY <1>2, CallsQuiet DEF Expire, jobs
<1>3. ASSUME NEW e \in Events, NEW list \in Lists[e], EnqueueOneOrMore(e, list)
      PROVE  CallsInv' /\ TokensInv'
  <2>1. \A d \in Events : lists[d] \subseteq lists'[d]
    BY <1>1, <1>3 DEF EnqueueOneOrMore
  <2>. QED  BY <1>3, <2>1, CallsQuiet DEF EnqueueOneOrMore
<1>4. ASSUME NEW job \in landing, JobLands(job) \/ JobFailsToLand(job)
      PROVE  CallsInv' /\ TokensInv'
  BY <1>4, CallsQuiet DEF JobLands, JobFailsToLand, Arrives
<1>. QED  BY <1>2, <1>3, <1>4

LEMMA IdleCall ==
  /\ Idle \in CallType(Requests) /\ Idle.at = "idle" /\ Idle.request = NoJob
  /\ \A c : Fits(c, Idle)
<1>1. 0 \in 0 .. MaxRetries
  BY ClientAssumption
<1>. QED  BY <1>1 DEF Idle, CallType, Requests, Answers, Fits

\* A worker starts to ask for a job, or has an answer at once.
LEMMA TriggerStarts ==
  ASSUME NEW w \in Workers, JobsInv, NEW job \in queue, NEW data \in Variables,
         NEW dryRun \in BOOLEAN, Trigger(w, job, data, dryRun)
  PROVE  \E call \in CallType(Requests) :
           /\ Fits(w, call) /\ calls' = [calls EXCEPT ![w] = call]
           /\ call.at = "asking" \/ call.at = "answered"
           /\ call.request = TriggerRequest(job, data)
           /\ call.at = "asking" => Len(job.recipients) # 0
           /\ call.at = "answered" =>
                \/ call.answer = "recipientCountBelowMinimum" /\ Len(job.recipients) = 0
                \/ /\ call.answer = "recipientCountAboveMaximum"
                   /\ Len(job.recipients) > MaxRecipientsCount
                \/ call.answer \in {"expired", "dryRun"}
<1> DEFINE verdict == ValidateTriggerRequest(job)
           answer == IF verdict # "ok" THEN verdict ELSE IF dryRun THEN "dryRun" ELSE "none"
           request == TriggerRequest(job, data)
           call == [at |-> IF answer = "none" THEN "asking" ELSE "answered",
                    request |-> request, tries |-> 0, answer |-> answer]
<1>1. calls' = [calls EXCEPT ![w] = call]
  BY DEF Trigger
<1>2. request \in TriggerRequests /\ w \notin Apps
  BY ClientAssumption DEF JobsInv, TriggerRequests
<1>3. /\ verdict \in {"ok", "expired", "recipientCountBelowMinimum", "recipientCountAboveMaximum"}
      /\ verdict = "recipientCountBelowMinimum" <=> Len(job.recipients) = 0
      /\ verdict = "recipientCountAboveMaximum" => Len(job.recipients) > MaxRecipientsCount
  BY DEF ValidateTriggerRequest
<1>4. 0 \in 0 .. MaxRetries
  BY ClientAssumption
<1>5. \/ answer = "none" /\ Len(job.recipients) # 0
      \/ answer = "recipientCountBelowMinimum" /\ Len(job.recipients) = 0
      \/ answer = "recipientCountAboveMaximum" /\ Len(job.recipients) > MaxRecipientsCount
      \/ answer \in {"expired", "dryRun"}
  BY <1>3
<1> HIDE DEF verdict, answer, request
<1>6. /\ call \in CallType(Requests) /\ Fits(w, call)
      /\ call.at = "asking" \/ call.at = "answered"
      /\ call.at = "asking" => answer = "none"
      /\ call.at = "answered" => answer # "none"
      /\ call.request = request /\ call.answer = answer
  BY <1>2, <1>4, <1>5 DEF CallType, Requests, Answers, Fits
<1> HIDE DEF call
<1>. QED  BY <1>1, <1>5, <1>6 DEF request

\* A worker asks for no token.
LEMMA WorkersKeepTokens ==
  ASSUME CallsInv, TokensInv, JobsInv, NEW w \in Workers,
         \/ WorkerDone(w) \/ WorkerDies(w)
         \/ \E job \in queue, data \in Variables, dryRun \in BOOLEAN : Trigger(w, job, data, dryRun)
  PROVE  CallsInv' /\ TokensInv'
<1>0. w \in Callers /\ w \notin Apps
  BY ClientAssumption DEF Callers
<1>1. UNCHANGED <<tokens, contended, appended, lists>>
  BY DEF WorkerDone, WorkerDies, Trigger, pushTokens, jobs
<1>2. \E call \in CallType(Requests) : Fits(w, call) /\ calls' = [calls EXCEPT ![w] = call]
  <2>1. CASE WorkerDone(w) \/ WorkerDies(w)
    BY <2>1, IdleCall DEF WorkerDone, WorkerDies
  <2>2. ASSUME NEW job \in queue, NEW data \in Variables, NEW dryRun \in BOOLEAN,
               Trigger(w, job, data, dryRun)
        PROVE  \E call \in CallType(Requests) : Fits(w, call) /\ calls' = [calls EXCEPT ![w] = call]
    <3>1. PICK call \in CallType(Requests) :
             Fits(w, call) /\ calls' = [calls EXCEPT ![w] = call]
      BY <2>2, TriggerStarts
    <3>. QED  BY <3>1
  <2>. QED  BY <2>1, <2>2
<1>3. \A f \in flying' : f \in flying \/ f \in TriggerRequests
  <2>1. CASE WorkerDies(w) /\ calls[w].at = "asking"
    <3>1. calls[w].request \in TriggerRequests
      BY <2>1 DEF CallsInv
    <3>. QED  BY <1>0, <2>1, <3>1, LateIsAsked DEF WorkerDies
  <2>2. CASE ~(WorkerDies(w) /\ calls[w].at = "asking")
    BY <2>2 DEF WorkerDone, WorkerDies, Trigger
  <2>. QED  BY <2>1, <2>2
<1>4. /\ flying' \subseteq TriggerRequests \cup AppRequests
      /\ \A f \in flying' : f.op = "append" => f \in Pending
  BY <1>3, TriggersTrigger DEF CallsInv, Pending
<1>5. tokens' \subseteq AllTokens /\ appended' \subseteq Added
  BY <1>1 DEF CallsInv, Added
<1>6. CallsInv'
  BY <1>0, <1>1, <1>2, <1>4, <1>5, CallMoves
<1>7. TokensInv'
  BY <1>0, <1>1, <1>2, <1>4, <1>5, CallIsQuiet
<1>. QED  BY <1>6, <1>7

\* An app starts to ask for something.
LEMMA AppCallStarts ==
  ASSUME NEW a \in Apps, CallsInv,
         NEW operation \in {"append", "cancel", "workplace", "preferences", "sign"},
         NEW at \in {"reading", "asking", "answered"}, NEW verdict \in Answers,
         at = "reading" => operation = "append", AppCalls(a, operation, at, verdict)
  PROVE  \E call \in CallType(Requests) :
           /\ Fits(a, call) /\ calls' = [calls EXCEPT ![a] = call]
           /\ call.at = at /\ call.request.op = operation /\ call.answer = verdict
<1> DEFINE idle == Idle
           request == [op |-> operation, data |-> {}]
           call == [idle EXCEPT !.at = at, !.request = request, !.answer = verdict]
<1>1. idle \in CallType(Requests) /\ a \notin Workers
  BY IdleCall, ClientAssumption
<1>2. calls' = [calls EXCEPT ![a] = call]
  BY DEF AppCalls
<1>3. request \in AppRequests /\ request.op = operation
  BY DEF AppRequests
<1> HIDE DEF idle, request
<1>4. request \in Requests
  BY <1>3 DEF Requests
<1>5. /\ call \in CallType(Requests) /\ call.at = at /\ call.request = request
      /\ call.answer = verdict
  BY <1>1, <1>4 DEF CallType
<1> HIDE DEF call
<1>6. Fits(a, call)
  BY <1>1, <1>3, <1>5 DEF Fits
<1>. QED  BY <1>2, <1>3, <1>5, <1>6

LEMMA OtherCallsKeepTokens ==
  ASSUME CallsInv, TokensInv, NEW a \in Apps,
         \/ UpsertWorkplace(a) \/ UpsertUserPreferences(a) \/ SignUserToken(a)
         \/ \E dryRun \in BOOLEAN : Cancel(a, dryRun)
  PROVE  CallsInv' /\ TokensInv'
<1>0. a \in Callers
  BY DEF Callers
<1>1. \E operation \in {"cancel", "workplace", "preferences", "sign"},
         at \in {"asking", "answered"}, verdict \in Answers :
         AppCalls(a, operation, at, verdict)
  <2>1. CASE UpsertWorkplace(a)
    BY <2>1 DEF UpsertWorkplace, Answers
  <2>2. CASE UpsertUserPreferences(a)
    BY <2>2 DEF UpsertUserPreferences, Answers
  <2>3. CASE SignUserToken(a)
    BY <2>3 DEF SignUserToken, Answers
  <2>4. ASSUME NEW dryRun \in BOOLEAN, Cancel(a, dryRun)
        PROVE  \/ AppCalls(a, "cancel", "answered", "ok") \/ AppCalls(a, "cancel", "asking", "none")
    BY <2>4 DEF Cancel
  <2>. QED  BY <2>1, <2>2, <2>3, <2>4 DEF Answers
<1>2. UNCHANGED contended
  BY DEF UpsertWorkplace, UpsertUserPreferences, SignUserToken, Cancel
<1>3. PICK operation \in {"cancel", "workplace", "preferences", "sign"},
           at \in {"asking", "answered"}, verdict \in Answers :
           AppCalls(a, operation, at, verdict)
  BY <1>1
<1>4. UNCHANGED <<flying, tokens, appended, lists>>
  BY <1>3 DEF AppCalls, jobs
<1>5. PICK call \in CallType(Requests) :
         /\ Fits(a, call) /\ calls' = [calls EXCEPT ![a] = call]
         /\ call.at = at /\ call.request.op = operation /\ call.answer = verdict
  BY <1>3, AppCallStarts
<1>6. /\ flying' \subseteq TriggerRequests \cup AppRequests /\ tokens' \subseteq AllTokens
      /\ \A f \in flying' : f.op = "append" => f \in Pending
      /\ appended' \subseteq Added
  BY <1>4 DEF CallsInv, Pending, Added
<1>7. CallsInv'
  BY <1>0, <1>4, <1>5, <1>6, CallMoves
<1>8. TokensInv'
  <2>1. call.request.op # "append"
    BY <1>5
  <2>. QED  BY <1>0, <1>2, <1>4, <1>5, <1>6, <2>1, CallIsQuiet
<1>. QED  BY <1>7, <1>8

LEMMA DoneKeepsTokens ==
  ASSUME CallsInv, TokensInv, NEW a \in Apps, AppDone(a)
  PROVE  CallsInv' /\ TokensInv'
<1>0. a \in Callers
  BY DEF Callers
<1>1. UNCHANGED <<flying, tokens, lists>> /\ contended' = contended \ {a}
  BY DEF AppDone, jobs
<1>2. calls' = [calls EXCEPT ![a] = Idle]
  BY DEF AppDone
<1>3. appended' \subseteq Added
  BY DEF AppDone, Added
<1>4. /\ flying' \subseteq TriggerRequests \cup AppRequests /\ tokens' \subseteq AllTokens
      /\ \A f \in flying' : f.op = "append" => f \in Pending
  BY <1>1 DEF CallsInv, Pending
<1>5. CallsInv'
  BY <1>0, <1>1, <1>2, <1>4, IdleCall, CallMoves
<1>6. TokensInv'
  BY <1>0, <1>1, <1>2, <1>3, <1>4, IdleCall, CallIsQuiet
<1>. QED  BY <1>5, <1>6

\* Who starts to append while nobody appends reads what is.
LEMMA AppendStarts ==
  ASSUME CallsInv, TokensInv, NEW a \in Apps, AppendPushToken(a)
  PROVE  CallsInv' /\ TokensInv'
<1>0. a \in Callers
  BY DEF Callers
<1>1. AppCalls(a, "append", "reading", "none") /\ "none" \in Answers
  BY DEF AppendPushToken, Answers
<1>2. UNCHANGED <<flying, tokens, appended, lists>> /\ calls[a].at = "idle"
  BY <1>1 DEF AppCalls, jobs
<1>3. PICK call \in CallType(Requests) :
         /\ Fits(a, call) /\ calls' = [calls EXCEPT ![a] = call]
         /\ call.at = "reading" /\ call.request.op = "append"
  BY <1>1, AppCallStarts
<1>4. CallsInv'
  BY <1>0, <1>2, <1>3, CallMoves DEF CallsInv
<1>5. calls'[a] = call /\ \A c \in Callers : c # a => calls'[c] = calls[c]
  BY <1>0, <1>3 DEF CallsInv
<1>6. \A b \in Apps : b # a => (IsAppending(b)' <=> IsAppending(b)) /\ calls'[b] = calls[b]
  BY <1>5 DEF IsAppending, Callers
<1>7. Pending' = Pending
  BY <1>2, <1>3, <1>5, <1>6 DEF Pending
<1>8. /\ contended \subseteq contended'
      /\ \A b \in Apps : IsAppending(b) => b \in contended'
      /\ a \notin contended' => Pending = {} /\ \A b \in Apps : ~IsAppending(b)
  BY DEF AppendPushToken, Pending
<1>9. Added' \subseteq Added
  BY <1>2, <1>3, <1>5, <1>6, <1>8 DEF Added
<1>10. \A b \in Apps : calls'[b].at = "asking" /\ IsAppending(b)' =>
        TokenOf[b] \in calls'[b].request.data
  BY <1>3, <1>5, <1>6 DEF TokensInv
<1>11. \A b \in Apps : IsAppending(b)' /\ b # a => IsAppending(b)
  BY <1>6
<1>12. \A data \in {tokens'} \cup {f.data : f \in Pending'} : OldTokens \cup Added' \subseteq data
  BY <1>2, <1>7, <1>9 DEF TokensInv
<1>13. \A b \in Apps \ contended' : IsAppending(b)' =>
         /\ \A d \in Apps : IsAppending(d)' => d = b
         /\ \A f \in Pending' : calls'[b].at = "asking" /\ f = calls'[b].request
  BY <1>7, <1>8, <1>11
<1>. QED  BY <1>4, <1>10, <1>12, <1>13 DEF TokensInv

\* Who was answered what the tokens are, or that there are none, asks to write them with
\* its own.
LEMMA WriteStarts ==
  ASSUME CallsInv, TokensInv, NEW a \in Apps, calls[a].at = "reading", calls' = Write(a, tokens),
         UNCHANGED <<flying, pushTokens, lists>>
  PROVE  CallsInv' /\ TokensInv'
<1>0. a \in Callers /\ a \notin Workers
  BY ClientAssumption DEF Callers
<1>1. UNCHANGED <<tokens, contended, appended>>
  BY DEF pushTokens
<1>2. tokens \in SUBSET AllTokens
  BY DEF CallsInv
<1>3. PICK call \in CallType(Requests) :
        /\ calls' = [calls EXCEPT ![a] = call]
        /\ call.at = "asking" /\ call.answer = calls[a].answer
        /\ call.request \in AppRequests /\ call.request.op = "append"
        /\ call.request.data = tokens \cup {TokenOf[a]}
  BY <1>2, WriteAsks, ClientAssumption
<1>4. Fits(a, call)
  BY <1>0, <1>3 DEF Fits
<1>5. CallsInv'
  BY <1>0, <1>1, <1>3, <1>4, CallMoves DEF CallsInv
<1>6. calls'[a] = call /\ \A c \in Callers : c # a => calls'[c] = calls[c]
  BY <1>0, <1>3 DEF CallsInv
<1>7. IsAppending(a) /\ IsAppending(a)'
  BY <1>3, <1>6 DEF IsAppending, CallsInv
<1>8. \A b \in Apps : b # a => (IsAppending(b)' <=> IsAppending(b)) /\ calls'[b] = calls[b]
  BY <1>6 DEF IsAppending, Callers
<1>9. \A f \in Pending' : f \in Pending \/ f = call.request
  <2>1. \A f \in Pending' : \/ f \in flying /\ f.op = "append"
                            \/ \E b \in Apps : /\ calls'[b].at = "asking" /\ IsAppending(b)'
                                               /\ f = calls'[b].request
    BY DEF Pending
  <2>. QED  BY <1>6, <1>8, <2>1 DEF Pending
<1>10. Added' = Added
  BY <1>1, <1>3, <1>6, <1>8 DEF Added
<1>11. OldTokens \cup Added \subseteq tokens
  BY DEF TokensInv
<1>12. \A data \in {tokens'} \cup {f.data : f \in Pending'} : OldTokens \cup Added' \subseteq data
  <2>1. \A f \in Pending : OldTokens \cup Added \subseteq f.data
    BY DEF TokensInv
  <2>. QED  BY <1>1, <1>3, <1>9, <1>10, <1>11, <2>1
<1>13. \A b \in Apps : calls'[b].at = "asking" /\ IsAppending(b)' =>
         TokenOf[b] \in calls'[b].request.data
  BY <1>3, <1>6, <1>8 DEF TokensInv
<1>14. ASSUME NEW b \in Apps \ contended', IsAppending(b)'
       PROVE  /\ \A d \in Apps : IsAppending(d)' => d = b
              /\ \A f \in Pending' : calls'[b].at = "asking" /\ f = calls'[b].request
  <2>1. b \in Apps \ contended /\ IsAppending(b)
    BY <1>1, <1>7, <1>8, <1>14
  <2>2. /\ \A d \in Apps : IsAppending(d) => d = b
        /\ \A f \in Pending : calls[b].at = "asking"
    BY <2>1 DEF TokensInv
  <2>3. b = a /\ Pending = {}
    BY <1>7, <2>2
  <2>. QED  BY <1>3, <1>6, <1>8, <1>9, <2>2, <2>3
<1>. QED  BY <1>5, <1>12, <1>13, <1>14 DEF TokensInv

\* A call of an app goes on, or ends with a failure.
LEMMA FailureKeepsTokens ==
  ASSUME CallsInv, TokensInv, NEW c \in Callers, calls[c].at \in {"reading", "asking"},
         NEW answers, "ok" \notin answers, NEW call \in CallType(Requests), Settles(c, call, answers),
         UNCHANGED <<contended, appended, lists>>,
         flying' \subseteq TriggerRequests \cup AppRequests,
         \A f \in flying' : f.op = "append" => f \in Pending,
         tokens' \in {tokens} \cup {f.data : f \in Pending}
  PROVE  CallsInv' /\ TokensInv'
<1>1. Fits(c, call) /\ calls' = [calls EXCEPT ![c] = call]
  BY SettledFits DEF Settles
<1>2. tokens' \subseteq AllTokens /\ appended' \subseteq Added
  BY PendingTypes DEF CallsInv, Added
<1>3. CallsInv'
  BY <1>1, <1>2, CallMoves
<1>4. call.at \in {"reading", "asking"} =>
        calls[c].at = call.at /\ calls[c].request = call.request
  BY DEF Settles
<1>5. call.at = "answered" /\ call.answer = "ok" => FALSE
  BY DEF Settles
<1>. QED  BY <1>1, <1>2, <1>3, <1>4, <1>5, CallIsQuiet

LEMMA ReadingKeepsTokens ==
  ASSUME CallsInv, TokensInv, NEW a \in Apps,
         ReadAnswers(a) \/ \E status \in Statuses \cup {"notFound"} : ReadFails(a, status)
  PROVE  CallsInv' /\ TokensInv'
<1>0. a \in Callers /\ calls[a].at = "reading" /\ UNCHANGED <<flying, pushTokens, lists>>
  BY DEF Callers, ReadAnswers, ReadFails, jobs
<1>1. CASE calls' = Write(a, tokens)
  BY <1>0, <1>1, WriteStarts
<1>2. ASSUME NEW status \in Statuses, ReadFails(a, status)
      PROVE  CallsInv' /\ TokensInv'
  <2>1. calls' = AfterError(a, status)
    BY <1>2 DEF ReadFails, AfterError, AfterReadError, Statuses
  <2>2. calls \in [Callers -> CallType(Requests)]
    BY DEF CallsInv, Requests
  <2>3. PICK call \in CallType(Requests) : Settles(a, call, {status})
    BY <1>0, <2>1, <2>2, ErrorSettles, ClientAssumption
  <2>4. "ok" \notin {status}
    BY DEF Statuses
  <2>5. /\ flying' \subseteq TriggerRequests \cup AppRequests
        /\ \A f \in flying' : f.op = "append" => f \in Pending
        /\ UNCHANGED <<tokens, contended, appended, lists>>
    BY <1>0 DEF CallsInv, Pending, pushTokens
  <2>. QED  BY <1>0, <2>3, <2>4, <2>5, FailureKeepsTokens
<1>3. CASE ReadFails(a, "notFound")
  BY <1>1, <1>3 DEF ReadFails, AfterReadError
<1>. QED  BY <1>1, <1>2, <1>3 DEF ReadAnswers

\* What an asking app wants written may be written.
LEMMA AskedIsPending ==
  ASSUME CallsInv, NEW c \in Callers, calls[c].at = "asking", calls[c].request.op = "append"
  PROVE  c \in Apps /\ IsAppending(c) /\ calls[c].request \in Pending
<1>1. c \in Apps
  BY TriggersTrigger DEF CallsInv, Callers
<1>. QED  BY <1>1 DEF IsAppending, Pending

LEMMA FailedAskingKeepsTokens ==
  ASSUME CallsInv, TokensInv, NEW c \in Callers,
         Loses(c) \/ TimesOut(c) \/ \E status \in Statuses : Refuse(c, status)
  PROVE  CallsInv' /\ TokensInv'
<1>0. calls[c].at = "asking" /\ UNCHANGED <<contended, appended, lists>>
  BY DEF Loses, TimesOut, Refuse, jobs
<1>1. \E status \in Statuses : calls' = AfterError(c, status)
  BY DEF Loses, TimesOut, Refuse, Statuses
<1>2. PICK status \in Statuses : calls' = AfterError(c, status)
  BY <1>1
<1>3. calls \in [Callers -> CallType(Requests)] /\ "ok" \notin {status}
  BY DEF CallsInv, Requests, Statuses
<1>4. PICK call \in CallType(Requests) : Settles(c, call, {status})
  BY <1>2, <1>3, ErrorSettles, ClientAssumption
<1>5. calls[c].request \in TriggerRequests \cup AppRequests
  BY <1>0, LateIsAsked
<1>6. flying' \subseteq flying \cup {calls[c].request}
  BY <1>0, LateIsAsked DEF Loses, TimesOut, Refuse
<1>7. \A f \in flying' : f.op = "append" => f \in Pending
  BY <1>0, <1>6, AskedIsPending DEF Pending
<1>8. tokens' \in {tokens} \cup {f.data : f \in Pending}
  <2>1. CASE Loses(c)
    <3>1. Receive(calls[c].request)
      BY <2>1 DEF Loses
    <3>. QED  BY <1>0, <1>5, <3>1, ReceiveWrites, AskedIsPending
  <2>2. CASE ~Loses(c)
    BY <2>2 DEF TimesOut, Refuse, provider
  <2>. QED  BY <2>1, <2>2
<1>9. flying' \subseteq TriggerRequests \cup AppRequests
  BY <1>5, <1>6 DEF CallsInv
<1>. QED  BY <1>0, <1>3, <1>4, <1>7, <1>8, <1>9, FailureKeepsTokens

LEMMA AcceptKeepsTokens ==
  ASSUME CallsInv, TokensInv, NEW c \in Callers, Accept(c)
  PROVE  CallsInv' /\ TokensInv'
<1>0. /\ calls[c].at = "asking" /\ UNCHANGED <<flying, contended, appended, lists>>
      /\ Receive(calls[c].request) /\ calls' = Answer(c, "ok")
  BY DEF Accept, jobs
<1>1. calls \in [Callers -> CallType(Requests)] /\ "ok" \in Answers
  BY DEF CallsInv, Requests, Answers
<1>2. PICK call \in CallType(Requests) :
        Settles(c, call, {"ok"}) /\ call.at = "answered" /\ call.answer = "ok"
  BY <1>0, <1>1, AnswerSettles
<1>3. /\ Fits(c, call) /\ calls' = [calls EXCEPT ![c] = call]
      /\ call.request = calls[c].request
  BY <1>0, <1>2, SettledFits DEF Settles
<1>4. calls[c].request \in TriggerRequests \cup AppRequests
  BY <1>0, LateIsAsked
<1>5. /\ tokens' \subseteq AllTokens
      /\ calls[c].request.op = "append" => tokens' = calls[c].request.data
      /\ calls[c].request.op # "append" => tokens' = tokens
  BY <1>0, <1>4, ReceiveWrites
<1>6. CallsInv'
  BY <1>0, <1>3, <1>5, CallMoves DEF CallsInv
<1>7. /\ \A f \in flying' : f.op = "append" => f \in Pending
      /\ appended' \subseteq Added
  BY <1>0 DEF Pending, Added
<1>8. CASE calls[c].request.op # "append"
  <2>1. tokens' \in {tokens} \cup {f.data : f \in Pending} /\ call.request.op # "append"
    BY <1>3, <1>5, <1>8
  <2>2. call.at \notin {"reading", "asking"}
    BY <1>2
  <2>3. TokensInv'
    BY <1>0, <1>3, <1>7, <2>1, <2>2, CallIsQuiet
  <2>. QED  BY <1>6, <2>3
<1>9. CASE calls[c].request.op = "append"
  <2>1. c \in Apps /\ IsAppending(c) /\ calls[c].request \in Pending
    BY <1>0, <1>9, AskedIsPending
  <2>2. OldTokens \cup Added \subseteq tokens' /\ TokenOf[c] \in tokens'
    BY <1>0, <1>5, <1>9, <2>1 DEF TokensInv
  <2>3. calls'[c] = call /\ \A d \in Callers : d # c => calls'[d] = calls[d]
    BY <1>1, <1>3
  <2>4. \A a \in Apps : a # c => (IsAppending(a)' <=> IsAppending(a)) /\ calls'[a] = calls[a]
    BY <2>3 DEF IsAppending, Callers
  <2>5. ~IsAppending(c)'
    BY <1>2, <2>3 DEF IsAppending
  <2>6. Pending' \subseteq Pending
    <3>1. \A f \in Pending' : \/ f \in flying /\ f.op = "append"
                              \/ \E b \in Apps : /\ calls'[b].at = "asking" /\ IsAppending(b)'
                                                 /\ f = calls'[b].request
      BY <1>0 DEF Pending
    <3>. QED  BY <2>4, <2>5, <3>1 DEF Pending
  <2>7. Added' \subseteq Added \cup (IF c \in contended THEN {} ELSE {TokenOf[c]})
    <3>1. \A t \in Added' : t \in appended \/ \E a \in Apps \ contended :
             /\ calls'[a].at = "answered" /\ calls'[a].request.op = "append"
             /\ calls'[a].answer = "ok" /\ t = TokenOf[a]
      BY <1>0 DEF Added
    <3>. QED  BY <2>4, <3>1 DEF Added
  <2>8. \A data \in {tokens'} \cup {f.data : f \in Pending'} : OldTokens \cup Added' \subseteq data
    <3>1. c \notin contended => \A f \in Pending : f = calls[c].request
      BY <2>1 DEF TokensInv
    <3>2. \A f \in Pending : OldTokens \cup Added \subseteq f.data
      BY DEF TokensInv
    <3>3. CASE c \in contended
      BY <2>2, <2>6, <2>7, <3>2, <3>3
    <3>4. CASE c \notin contended
      BY <1>5, <1>9, <2>2, <2>6, <2>7, <3>1, <3>4
    <3>. QED  BY <3>3, <3>4
  <2>9. \A a \in Apps : calls'[a].at = "asking" /\ IsAppending(a)' =>
          TokenOf[a] \in calls'[a].request.data
    BY <2>4, <2>5 DEF TokensInv
  <2>10. ASSUME NEW a \in Apps \ contended', IsAppending(a)'
         PROVE  FALSE
    <3>1. a \in Apps \ contended /\ a # c /\ IsAppending(a)
      BY <1>0, <2>4, <2>5, <2>10
    <3>. QED  BY <2>1, <3>1 DEF TokensInv
  <2>11. TokensInv'
    BY <2>8, <2>9, <2>10 DEF TokensInv
  <2>. QED  BY <1>6, <2>11
<1>. QED  BY <1>8, <1>9

LEMMA LateKeepsTokens ==
  ASSUME CallsInv, TokensInv, NEW request \in flying, ArrivesLate(request)
  PROVE  CallsInv' /\ TokensInv'
<1>0. UNCHANGED <<calls, contended, appended, lists>> /\ flying' \subseteq flying
  BY DEF ArrivesLate, jobs
<1>1. request \in TriggerRequests \cup AppRequests
  BY DEF CallsInv
<1>2. \/ UNCHANGED tokens
      \/ request.op = "append" /\ tokens' = request.data
  BY <1>1, ReceiveWrites DEF ArrivesLate, provider
<1>3. tokens' \subseteq AllTokens
  BY <1>1, <1>2, ReceiveWrites DEF ArrivesLate, CallsInv, provider
<1>4. request.op = "append" => request \in Pending
  BY DEF Pending
<1>5. tokens' \in {tokens} \cup {f.data : f \in Pending}
  BY <1>2, <1>4
<1>6. Pending' \subseteq Pending /\ Added' = Added
  BY <1>0 DEF Pending, Added, IsAppending
<1>7. TokensInv'
  <2>1. \A a \in Apps : IsAppending(a)' <=> IsAppending(a)
    BY <1>0 DEF IsAppending
  <2>. QED  BY <1>0, <1>5, <1>6, <2>1, TokensQuiet
<1>8. CallsInv'
  <2>1. Requests' = Requests /\ TriggerRequests' = TriggerRequests /\ AppRequests' = AppRequests
    BY <1>0, RequestsStay
  <2>2. (CallType({NoJob} \cup TriggerRequests \cup AppRequests))'
          = CallType({NoJob} \cup TriggerRequests \cup AppRequests)
    BY <2>1 DEF CallType, Answers
  <2>3. AllTokens' = AllTokens
    BY DEF AllTokens
  <2>. QED  BY <1>0, <1>3, <2>1, <2>2, <2>3 DEF CallsInv
<1>. QED  BY <1>7, <1>8

LEMMA TokensStep ==
  ASSUME CallsInv, TokensInv, JobsInv, [Next]_vars
  PROVE  CallsInv' /\ TokensInv'
<1>1. CASE UNCHANGED vars
  <2>1. UNCHANGED <<calls, flying, pushTokens, lists>>
    BY <1>1 DEF vars, jobs
  <2>. QED  BY <2>1, CallsQuiet
<1>2. CASE Next
  BY <1>2, QueueKeepsTokens, WorkersKeepTokens, OtherCallsKeepTokens, DoneKeepsTokens, AppendStarts,
     ReadingKeepsTokens, FailedAskingKeepsTokens, AcceptKeepsTokens, LateKeepsTokens DEF Next
<1>. QED  BY <1>1, <1>2

-----------------------------------------------------------------------------
(* The chunks of a list. *)

ChunkStart(n) == (n - 1) * MaxRecipientsCount
ChunkEnd(l, n) ==
  IF n * MaxRecipientsCount < Len(l) THEN n * MaxRecipientsCount ELSE Len(l)

LEMMA Products ==
  ASSUME NEW n \in Nat
  PROVE  n * MaxRecipientsCount \in Nat
BY ClientAssumption

\* A chunk ends before the next one starts.
LEMMA ProductsAreOrdered ==
  ASSUME NEW a \in Nat, NEW b \in Nat, a < b
  PROVE  /\ a * MaxRecipientsCount + MaxRecipientsCount <= b * MaxRecipientsCount
         /\ a * MaxRecipientsCount < b * MaxRecipientsCount
<1> DEFINE M == MaxRecipientsCount
<1>0. M \in Nat \ {0}
  BY ClientAssumption
<1>1. PICK n \in Nat : b = a + 1 + n
  <2>1. b - a - 1 \in Nat /\ b = a + 1 + (b - a - 1)
    OBVIOUS
  <2>. QED  BY <2>1
<1>2. (a + 1 + n) * M = a * M + M + n * M
  BY <1>0
<1>3. n * M \in Nat /\ a * M \in Nat
  BY <1>0, Products
<1>. QED  BY <1>0, <1>1, <1>2, <1>3

LEMMA Quotients ==
  ASSUME NEW a \in Nat
  PROVE  /\ a \div MaxRecipientsCount \in Nat
         /\ (a \div MaxRecipientsCount) * MaxRecipientsCount <= a
         /\ a < (a \div MaxRecipientsCount) * MaxRecipientsCount + MaxRecipientsCount
<1>1. MaxRecipientsCount \in Nat \ {0}
  BY ClientAssumption
<1>. QED  BY <1>1

\* A chunk holds what its place in the list says, and no more than a request may hold.
LEMMA ChunkHolds ==
  ASSUME NEW l, l \in Seq(ToSet(l)), NEW chunk \in ChunkRecipients(l)
  PROVE  /\ chunk.number \in Nat \ {0} /\ chunk.recipients \in Seq(ToSet(l))
         /\ Len(chunk.recipients) <= MaxRecipientsCount
         /\ \A r \in ToSet(chunk.recipients) :
              \E i \in ChunkStart(chunk.number) + 1 .. ChunkEnd(l, chunk.number) :
                i \in 1 .. Len(l) /\ r = l[i]
<1> DEFINE M == MaxRecipientsCount
           last == IF l = <<>> THEN 1 ELSE (Len(l) + M - 1) \div M
<1>0. M \in Nat \ {0} /\ Len(l) \in Nat
  BY ClientAssumption
<1>1. last \in Nat
  <2>1. l # <<>> => Len(l) + M - 1 \in Nat
    BY <1>0
  <2>. QED  BY <2>1, Quotients
<1>2. PICK n \in 1 .. last :
        chunk = [number |-> n, recipients |->
                   SubSeq(l, (n - 1) * M + 1, IF n * M < Len(l) THEN n * M ELSE Len(l))]
  BY DEF ChunkRecipients
<1>3. n \in Nat \ {0} /\ n - 1 \in Nat /\ n - 1 < n
  BY <1>1, <1>2
<1> DEFINE from == ChunkStart(n)
           to == ChunkEnd(l, n)
<1>4. chunk.number = n /\ chunk.recipients = SubSeq(l, from + 1, to)
  BY <1>2 DEF ChunkStart, ChunkEnd
<1>5. from \in Nat /\ to \in Nat /\ to <= Len(l) /\ to <= from + M
  <2>1. (n - 1) * M \in Nat /\ n * M \in Nat
    BY <1>3, Products
  <2>2. n * M = (n - 1) * M + M
    BY <1>0, <1>3
  <2>. QED  BY <1>0, <2>1, <2>2 DEF ChunkStart, ChunkEnd
<1> HIDE DEF from, to
<1>6. \A i \in from + 1 .. to : i \in 1 .. Len(l) /\ l[i] \in ToSet(l)
  BY <1>0, <1>5 DEF ToSet
<1>7. /\ SubSeq(l, from + 1, to) \in Seq(ToSet(l))
      /\ Len(SubSeq(l, from + 1, to)) = IF from + 1 <= to THEN to - from ELSE 0
      /\ \A i \in 1 .. Len(SubSeq(l, from + 1, to)) : SubSeq(l, from + 1, to)[i] = l[from + i]
  <2>1. CASE from + 1 <= to
    BY <1>0, <1>5, <1>6, <2>1
  <2>2. CASE ~(from + 1 <= to)
    BY <1>0, <1>5, <1>6, <2>2
  <2>. QED  BY <2>1, <2>2
<1>8. Len(chunk.recipients) <= M
  BY <1>0, <1>4, <1>5, <1>7
<1>9. \A r \in ToSet(chunk.recipients) :
         \E i \in from + 1 .. to : i \in 1 .. Len(l) /\ r = l[i]
  <2> SUFFICES ASSUME NEW r \in ToSet(chunk.recipients)
               PROVE  \E i \in from + 1 .. to : i \in 1 .. Len(l) /\ r = l[i]
    OBVIOUS
  <2>1. PICK k \in 1 .. Len(chunk.recipients) : r = chunk.recipients[k]
    BY <1>4, <1>7 DEF ToSet
  <2>2. from + k \in from + 1 .. to /\ r = l[from + k]
    BY <1>4, <1>5, <1>7, <2>1
  <2>. QED  BY <1>6, <2>2
<1>. QED  BY <1>3, <1>4, <1>7, <1>8, <1>9 DEF from, to

\* Everyone on a list is in a chunk of it.
LEMMA ChunksHoldAll ==
  ASSUME NEW l, l \in Seq(ToSet(l)), NEW r \in ToSet(l)
  PROVE  \E chunk \in ChunkRecipients(l) : r \in ToSet(chunk.recipients)
<1> DEFINE M == MaxRecipientsCount
           last == (Len(l) + M - 1) \div M
<1>0. M \in Nat \ {0} /\ Len(l) \in Nat
  BY ClientAssumption
<1>1. PICK i \in 1 .. Len(l) : r = l[i]
  BY DEF ToSet
<1> DEFINE q == (i - 1) \div M
           n == q + 1
<1>2. q \in Nat /\ q * M <= i - 1 /\ i - 1 < q * M + M /\ q * M \in Nat
  <2>1. i - 1 \in Nat
    BY <1>0
  <2>2. q \in Nat /\ q * M <= i - 1 /\ i - 1 < q * M + M
    BY <2>1, Quotients
  <2>. QED  BY <2>2, Products
<1>3. last \in Nat /\ Len(l) + M - 1 < last * M + M
  <2>1. Len(l) + M - 1 \in Nat
    BY <1>0
  <2>. QED  BY <2>1, Quotients
<1> HIDE DEF q, last
<1>4. n \in 1 .. last
  <2>1. CASE last < n
    <3>1. last * M <= q * M
      <4>1. CASE last = q
        BY <4>1, <1>0, <1>2
      <4>2. CASE last < q
        BY <4>2, <1>2, <1>3, ProductsAreOrdered, Products
      <4>. QED  BY <2>1, <1>2, <1>3, <4>1, <4>2
    <3>2. last * M \in Nat
      BY <1>3, Products
    <3>. QED  BY <1>0, <1>1, <1>2, <1>3, <3>1, <3>2
  <2>. QED  BY <1>2, <1>3, <2>1
<1>5. n * M = q * M + M /\ (n - 1) * M = q * M
  BY <1>0, <1>2
<1> DEFINE to == IF n * M < Len(l) THEN n * M ELSE Len(l)
           chunk == [number |-> n, recipients |-> SubSeq(l, (n - 1) * M + 1, to)]
<1>6. chunk \in ChunkRecipients(l)
  <2>1. l # <<>>
    BY <1>1
  <2> HIDE DEF n
  <2>. QED  BY <1>4, <2>1 DEF ChunkRecipients, last
<1>7. to \in Nat /\ to <= Len(l) /\ q * M + 1 <= i /\ i <= to
  BY <1>0, <1>1, <1>2, <1>5
<1>8. r \in ToSet(SubSeq(l, q * M + 1, to))
  <2> DEFINE start == q * M
             part == SubSeq(l, start + 1, to)
  <2>1. start \in Nat /\ start + 1 <= i
    BY <1>2, <1>7
  <2> HIDE DEF start, to
  <2>2. Len(part) = to - start /\ \A k \in 1 .. Len(part) : part[k] = l[start + k]
    BY <1>0, <1>1, <1>7, <2>1
  <2>3. i - start \in 1 .. Len(part) /\ DOMAIN part = 1 .. Len(part)
    BY <1>0, <1>1, <1>7, <2>1, <2>2
  <2>4. part[i - start] = l[i]
    <3>1. part[i - start] = l[start + (i - start)]
      BY <2>2, <2>3
    <3>2. start + (i - start) = i
      BY <1>1, <2>1
    <3>. QED  BY <3>1, <3>2
  <2>. QED  BY <1>1, <2>3, <2>4 DEF ToSet, start
<1>. QED  BY <1>5, <1>6, <1>8

\* A list names a recipient twice.
NamesTwice(l, r) == \E i, j \in DOMAIN l : i # j /\ l[i] = r /\ l[j] = r

\* No recipient is in two chunks of a list, unless the list names it twice.
LEMMA ChunksShareNobody ==
  ASSUME NEW l, l \in Seq(ToSet(l)),
         NEW c \in ChunkRecipients(l), NEW d \in ChunkRecipients(l),
         NEW r \in ToSet(c.recipients), r \in ToSet(d.recipients), ~NamesTwice(l, r)
  PROVE  c = d
<1> DEFINE M == MaxRecipientsCount
<1>0. M \in Nat \ {0} /\ Len(l) \in Nat
  BY ClientAssumption
<1>1. c.number \in Nat \ {0} /\ d.number \in Nat \ {0}
  BY ChunkHolds
<1>2. PICK i \in ChunkStart(c.number) + 1 .. ChunkEnd(l, c.number) : i \in 1 .. Len(l) /\ r = l[i]
  BY ChunkHolds
<1>3. PICK j \in ChunkStart(d.number) + 1 .. ChunkEnd(l, d.number) : j \in 1 .. Len(l) /\ r = l[j]
  BY ChunkHolds
<1>4. i = j
  <2>1. DOMAIN l = 1 .. Len(l)
    OBVIOUS
  <2>. QED  BY <1>2, <1>3, <2>1 DEF NamesTwice
<1>5. ASSUME NEW a \in Nat \ {0}, NEW b \in Nat \ {0}, a < b
      PROVE  ChunkEnd(l, a) <= ChunkStart(b)
  <2>1. CASE a = b - 1
    BY <1>0, <1>5, <2>1, Products DEF ChunkEnd, ChunkStart
  <2>2. CASE a < b - 1
    <3>1. PICK k : k = b - 1 /\ k \in Nat /\ a \in Nat /\ a < k
      BY <2>2
    <3>2. a * M < k * M
      BY <3>1, ProductsAreOrdered
    <3>3. a * M \in Nat /\ k * M \in Nat
      BY <3>1, Products
    <3>4. ChunkStart(b) = k * M
      BY <3>1 DEF ChunkStart
    <3>. QED  BY <1>0, <3>2, <3>3, <3>4 DEF ChunkEnd
  <2>. QED  BY <1>5, <2>1, <2>2
<1>6. \A a \in Nat \ {0} : ChunkEnd(l, a) \in Nat /\ ChunkStart(a) \in Nat
  <2> SUFFICES ASSUME NEW a \in Nat \ {0}
               PROVE  ChunkEnd(l, a) \in Nat /\ ChunkStart(a) \in Nat
    OBVIOUS
  <2>1. PICK k \in Nat : k = a - 1
    OBVIOUS
  <2>2. a * M \in Nat /\ k * M \in Nat
    BY Products
  <2>. QED  BY <1>0, <2>1, <2>2 DEF ChunkEnd, ChunkStart
<1> DEFINE cEnd == ChunkEnd(l, c.number)
           dEnd == ChunkEnd(l, d.number)
           cStart == ChunkStart(c.number)
           dStart == ChunkStart(d.number)
<1>7. cEnd \in Nat /\ dEnd \in Nat /\ cStart \in Nat /\ dStart \in Nat
  BY <1>1, <1>6
<1>8. i \in cStart + 1 .. cEnd /\ i \in dStart + 1 .. dEnd
  BY <1>2, <1>3, <1>4
<1>9. c.number = d.number
  <2>1. ~(c.number < d.number)
    <3> SUFFICES ASSUME c.number < d.number
                 PROVE  FALSE
      OBVIOUS
    <3>1. cEnd <= dStart
      BY <1>1, <1>5
    <3> HIDE DEF cEnd, dEnd, cStart, dStart
    <3>. QED  BY <1>7, <1>8, <3>1
  <2>2. ~(d.number < c.number)
    <3> SUFFICES ASSUME d.number < c.number
                 PROVE  FALSE
      OBVIOUS
    <3>1. dEnd <= cStart
      BY <1>1, <1>5
    <3> HIDE DEF cEnd, dEnd, cStart, dStart
    <3>. QED  BY <1>7, <1>8, <3>1
  <2>. QED  BY <1>1, <2>1, <2>2
<1> DEFINE part(n) == SubSeq(l, (n - 1) * M + 1, IF n * M < Len(l) THEN n * M ELSE Len(l))
<1>10. \A x \in ChunkRecipients(l) : x = [number |-> x.number, recipients |-> part(x.number)]
  BY DEF ChunkRecipients
<1>. QED  BY <1>9, <1>10

\* A list that fits in a request has one chunk.
LEMMA ShortListIsOneChunk ==
  ASSUME NEW l, l \in Seq(ToSet(l)), Len(l) <= MaxRecipientsCount, NEW chunk \in ChunkRecipients(l)
  PROVE  chunk.number = 1 /\ chunk.recipients = l
<1> DEFINE M == MaxRecipientsCount
           last == IF l = <<>> THEN 1 ELSE (Len(l) + M - 1) \div M
<1>0. M \in Nat \ {0} /\ Len(l) \in Nat
  BY ClientAssumption
<1>1. PICK n \in 1 .. last :
        chunk = [number |-> n, recipients |->
                   SubSeq(l, (n - 1) * M + 1, IF n * M < Len(l) THEN n * M ELSE Len(l))]
  BY DEF ChunkRecipients
<1>2. last \in Nat /\ last * M <= M + M - 1
  <2>1. CASE l = <<>>
    BY <1>0, <2>1
  <2>2. CASE l # <<>>
    <3> DEFINE q == (Len(l) + M - 1) \div M
    <3>1. Len(l) + M - 1 \in Nat
      BY <1>0
    <3>2. q \in Nat /\ q * M <= Len(l) + M - 1 /\ q * M \in Nat
      BY <3>1, Quotients, Products
    <3>3. last = q
      BY <2>2
    <3> HIDE DEF q
    <3>. QED  BY <1>0, <3>2, <3>3
  <2>. QED  BY <2>1, <2>2
<1> HIDE DEF last
<1>3. last <= 1
  <2> SUFFICES ASSUME 1 < last
               PROVE  FALSE
    BY <1>2
  <2>1. 1 * M + M <= last * M /\ last * M \in Nat
    BY <1>2, ProductsAreOrdered, Products
  <2>. QED  BY <1>0, <1>2, <2>1
<1>4. n = 1
  BY <1>1, <1>2, <1>3
<1>5. chunk.number = 1 /\ chunk.recipients = SubSeq(l, 1, Len(l))
  <2> DEFINE first == (n - 1) * M + 1
             to == IF n * M < Len(l) THEN n * M ELSE Len(l)
  <2>1. chunk = [number |-> n, recipients |-> SubSeq(l, first, to)]
    BY <1>1
  <2>2. first = 1 /\ to = Len(l)
    <3>1. n * M = M /\ (n - 1) * M + 1 = 1
      BY <1>0, <1>4
    <3>. QED  BY <1>0, <3>1
  <2> HIDE DEF first, to
  <2>. QED  BY <1>4, <2>1, <2>2
<1>6. SubSeq(l, 1, Len(l)) = l
  BY <1>0
<1>. QED  BY <1>5, <1>6

-----------------------------------------------------------------------------
(* The jobs. *)

\* Lists that are the same when they are sorted are of the same recipients.
LEMMA SortedAreSame ==
  ASSUME NEW l, NEW k, ToSorted(l) = ToSorted(k)
  PROVE  ToSet(l) = ToSet(k)
<1>1. DOMAIN ToSorted(l) = ToSet(l) /\ DOMAIN ToSorted(k) = ToSet(k)
  BY DEF ToSorted
<1>. QED  BY <1>1

LEMMA JobFields ==
  ASSUME NEW e, NEW chunk, NEW data
  PROVE  LET job == Job(e, chunk)
             request == TriggerRequest(job, data) IN
         /\ job.event = e /\ job.chunk = chunk.number /\ job.recipients = chunk.recipients
         /\ UniqueKey(job).event = e /\ UniqueKey(job).recipients = ToSorted(chunk.recipients)
         /\ request.op = "trigger" /\ request.job = job
         /\ request.body.recipients = chunk.recipients
         /\ request.key = [event |-> e, chunk |-> chunk.number, recipients |-> ToSorted(chunk.recipients),
                           workplaceId |-> Workplace[e]]
<1> DEFINE recipients == ToSorted(chunk.recipients)
           job == Job(e, chunk)
           atWork == [job EXCEPT !.workplaceId = Workplace[e]]
<1>1. job = [event |-> e, chunk |-> chunk.number, recipients |-> chunk.recipients,
             workplaceId |-> "none"]
  BY DEF Job, KeyParams
<1>2. UniqueKey(job) = [job EXCEPT !.recipients = recipients]
  BY <1>1 DEF UniqueKey, TriggerIdempotencyKeyParamsToHash
<1>3. atWork = [event |-> e, chunk |-> chunk.number, recipients |-> chunk.recipients,
                workplaceId |-> Workplace[e]]
  BY <1>1
<1>4. TriggerRequest(job, data).key = [atWork EXCEPT !.recipients = recipients]
  BY <1>1, <1>3 DEF TriggerRequest, TriggerIdempotencyKeyParamsToHash
<1>5. TriggerRequest(job, data).op = "trigger" /\ TriggerRequest(job, data).job = job
      /\ TriggerRequest(job, data).body.recipients = chunk.recipients
  BY <1>1 DEF TriggerRequest, ToTriggerBody
<1> HIDE DEF recipients, atWork
<1>6. UniqueKey(job).event = e /\ UniqueKey(job).recipients = recipients
  BY <1>1, <1>2
<1>7. TriggerRequest(job, data).key = [event |-> e, chunk |-> chunk.number, recipients |-> recipients,
                                 workplaceId |-> Workplace[e]]
  BY <1>3, <1>4
<1>. QED  BY <1>1, <1>5, <1>6, <1>7 DEF recipients

LEMMA JobTells ==
  ASSUME NEW e, NEW chunk
  PROVE  Job(e, chunk).event = e /\ Job(e, chunk).recipients = chunk.recipients
BY DEF Job, KeyParams

\* A job tells those of a chunk of a list that was enqueued.
LEMMA JobsOfLists ==
  ASSUME JobsInv, NEW job \in Enqueued
  PROVE  /\ job.event \in Events
         /\ \E l \in lists[job.event] : \E chunk \in ChunkRecipients(l) : job = Job(job.event, chunk)
         /\ job.recipients \in Seq(ToSet(job.recipients))
         /\ ToSet(job.recipients) \subseteq Recipients(job.event)
         /\ Len(job.recipients) <= MaxRecipientsCount
         /\ UniqueKey(job).event = job.event /\ UniqueKey(job).recipients = ToSorted(job.recipients)
         /\ \A data :
              /\ TriggerRequest(job, data).op = "trigger" /\ TriggerRequest(job, data).job = job
              /\ TriggerRequest(job, data).body.recipients = job.recipients
              /\ TriggerRequest(job, data).key = [event |-> job.event, chunk |-> job.chunk,
                   recipients |-> ToSorted(job.recipients), workplaceId |-> Workplace[job.event]]
<1>1. PICK e \in Events : \E chunk \in UNION {ChunkRecipients(l) : l \in lists[e]} : job = Job(e, chunk)
  BY DEF Enqueued
<1>2. PICK l \in lists[e] : \E chunk \in ChunkRecipients(l) : job = Job(e, chunk)
  BY <1>1
<1>3. PICK chunk \in ChunkRecipients(l) : job = Job(e, chunk)
  BY <1>2
<1>4. l \in Lists[e] /\ l \in Seq(ToSet(l))
  BY ClientAssumption DEF JobsInv
<1>5. /\ chunk.recipients \in Seq(ToSet(l)) /\ Len(chunk.recipients) <= MaxRecipientsCount
  BY <1>4, ChunkHolds
<1>6. ToSet(chunk.recipients) \subseteq ToSet(l)
  <2>1. \A i \in DOMAIN chunk.recipients : chunk.recipients[i] \in ToSet(l)
    BY <1>5
  <2>. QED  BY <2>1 DEF ToSet
<1>7. chunk.recipients \in Seq(ToSet(chunk.recipients))
  <2>1. chunk.recipients \in [1 .. Len(chunk.recipients) -> ToSet(chunk.recipients)]
        /\ Len(chunk.recipients) \in Nat
    BY <1>5 DEF ToSet
  <2>. QED  BY <2>1
<1>8. ToSet(l) \subseteq Recipients(e)
  BY <1>4 DEF Recipients
<1> DEFINE same == Job(e, chunk)
<1>9. /\ same.event = e /\ same.chunk = chunk.number /\ same.recipients = chunk.recipients
      /\ UniqueKey(same).event = e /\ UniqueKey(same).recipients = ToSorted(chunk.recipients)
      /\ \A data :
           /\ TriggerRequest(same, data).op = "trigger" /\ TriggerRequest(same, data).job = same
           /\ TriggerRequest(same, data).body.recipients = chunk.recipients
           /\ TriggerRequest(same, data).key = [event |-> e, chunk |-> chunk.number,
                recipients |-> ToSorted(chunk.recipients), workplaceId |-> Workplace[e]]
  BY JobFields
<1>10. job = same
  BY <1>3
<1>. QED
  BY <1>3, <1>5, <1>6, <1>7, <1>8, <1>9, <1>10

-----------------------------------------------------------------------------
(* What the provider remembers. *)

LEMMA RequestsAreOfJobs ==
  ASSUME JobsInv, NEW request \in TriggerRequests
  PROVE  /\ request.job \in Enqueued /\ request.op = "trigger"
         /\ request.body.recipients = request.job.recipients
         /\ request.key.event = request.job.event
         /\ request.key.recipients = ToSorted(request.job.recipients)
<1>1. PICK job \in Enqueued, data \in Variables : request = TriggerRequest(job, data)
  BY DEF TriggerRequests
<1>2. /\ TriggerRequest(job, data).op = "trigger" /\ TriggerRequest(job, data).job = job
      /\ TriggerRequest(job, data).body.recipients = job.recipients
      /\ TriggerRequest(job, data).key = [event |-> job.event, chunk |-> job.chunk,
           recipients |-> ToSorted(job.recipients), workplaceId |-> Workplace[job.event]]
  BY JobsOfLists
<1>. QED  BY <1>1, <1>2

LEMMA MemoryIsOfJobs ==
  ASSUME JobsInv, MemoryInv, NEW m \in memory
  PROVE  m.key.recipients = ToSorted(m.body.recipients)
<1>1. PICK job \in Enqueued, data \in Variables :
        m.key = TriggerRequest(job, data).key /\ m.body = TriggerRequest(job, data).body
  BY DEF MemoryInv, TriggerRequests
<1>2. /\ TriggerRequest(job, data).body.recipients = job.recipients
      /\ TriggerRequest(job, data).key = [event |-> job.event, chunk |-> job.chunk,
           recipients |-> ToSorted(job.recipients), workplaceId |-> Workplace[job.event]]
  BY JobsOfLists
<1>. QED  BY <1>1, <1>2

\* Whom a known key names was told, whether the body is the same or not.
LEMMA KnownIsTold ==
  ASSUME JobsInv, MemoryInv, NEW request \in TriggerRequests, Known(request) # {},
         NEW r \in ToSet(request.job.recipients)
  PROVE  notified[request.job.event][r] > 0
<1> DEFINE e == request.job.event
<1>1. PICK m \in memory : m.key = request.key
  BY DEF Known
<1>2. request.job \in Enqueued /\ request.key.event = e
      /\ request.key.recipients = ToSorted(request.job.recipients)
  BY RequestsAreOfJobs
<1>3. e \in Events /\ r \in Recipients(e)
  BY <1>2, JobsOfLists
<1>4. Tells(m, e, r)
  BY <1>1, <1>2, MemoryIsOfJobs, SortedAreSame DEF Tells
<1>. QED  BY <1>3, <1>4 DEF MemoryInv

\* Nobody is forgotten.
Remembers == \A e \in Events : \A r \in Recipients(e) : notified[e][r] > 0 => notified'[e][r] > 0

LEMMA MemoryStays ==
  ASSUME MemoryInv, UNCHANGED <<memory, notified>>, TriggerRequests \subseteq TriggerRequests'
  PROVE  MemoryInv' /\ Remembers
<1>. \A e : Recipients(e)' = Recipients(e)
  BY DEF Recipients
<1>. QED  BY DEF MemoryInv, Remembers, Tells

LEMMA NewKeyIsTold ==
  ASSUME JobsInv, MemoryInv, NEW request \in TriggerRequests, UNCHANGED lists,
         Known(request) = {}, Receive(request)
  PROVE  /\ MemoryInv' /\ Remembers
         /\ \A r \in ToSet(request.job.recipients) : notified'[request.job.event][r] > 0
<1> DEFINE e == request.job.event
           told == ToSet(request.job.recipients)
           new == [key |-> request.key, body |-> request.body]
           counts == [r \in Recipients(e) |-> IF r \in told THEN notified[e][r] + 1 ELSE notified[e][r]]
<1>1. /\ request.job \in Enqueued /\ request.op = "trigger"
      /\ request.body.recipients = request.job.recipients
      /\ request.key.event = request.job.event
      /\ request.key.recipients = ToSorted(request.job.recipients)
  BY RequestsAreOfJobs
<1>2. e \in Events /\ told \subseteq Recipients(e)
  BY <1>1, JobsOfLists
<1>3. \A d \in Events : notified[d] \in [Recipients(d) -> Nat]
  BY DEF MemoryInv
<1>4. /\ memory' = memory \cup {new}
      /\ notified' = [notified EXCEPT ![e] = [r \in DOMAIN notified[e] |->
                        IF r \in told THEN notified[e][r] + 1 ELSE notified[e][r]]]
  BY <1>1 DEF Receive
<1>5. DOMAIN notified = Events /\ DOMAIN notified[e] = Recipients(e)
  BY <1>2, <1>3 DEF MemoryInv
<1>6. /\ DOMAIN notified' = Events /\ notified'[e] = counts
      /\ \A d \in Events : d # e => notified'[d] = notified[d]
  BY <1>2, <1>4, <1>5
<1>7. notified' = [d \in Events |-> notified'[d]]
  BY <1>4, <1>6
<1>8. \A d \in Events : \A r \in Recipients(d) :
        Tells(new, d, r) <=> d = e /\ r \in told
  BY <1>1 DEF Tells
<1> HIDE DEF new
<1>9. new.key = request.key /\ new.body = request.body
  BY DEF new
<1>10. \A m \in memory : m.key # new.key /\ m # new
  BY <1>9 DEF Known
<1> HIDE DEF e, told
<1>11. \A d \in Events : \A r \in Recipients(d) :
         notified'[d][r] = IF d = e /\ r \in told THEN notified[d][r] + 1 ELSE notified[d][r]
  BY <1>2, <1>6
<1>12. \A d \in Events : notified'[d] \in [Recipients(d) -> Nat]
  BY <1>2, <1>3, <1>6
<1>13. ASSUME NEW d \in Events, NEW r \in Recipients(d)
       PROVE  /\ notified'[d][r] > 0 <=> \E m \in memory' : Tells(m, d, r)
              /\ notified'[d][r] > 1 => \E m, n \in memory' : Tells(m, d, r) /\ Tells(n, d, r) /\ m # n
              /\ notified[d][r] > 0 => notified'[d][r] > 0
  <2>1. /\ notified[d][r] \in Nat
        /\ notified[d][r] > 0 <=> \E m \in memory : Tells(m, d, r)
        /\ notified[d][r] > 1 => \E m, n \in memory : Tells(m, d, r) /\ Tells(n, d, r) /\ m # n
    BY <1>3 DEF MemoryInv
  <2>2. CASE d = e /\ r \in told
    <3>1. notified'[d][r] = notified[d][r] + 1 /\ Tells(new, d, r)
      BY <1>8, <1>11, <2>2
    <3>2. new \in memory' /\ \A m \in memory : m \in memory' /\ m # new
      BY <1>4, <1>10
    <3>3. notified'[d][r] > 0 /\ (notified'[d][r] > 1 => notified[d][r] > 0)
      BY <2>1, <3>1
    <3>. QED  BY <2>1, <3>1, <3>2, <3>3
  <2>3. CASE ~(d = e /\ r \in told)
    <3>1. notified'[d][r] = notified[d][r] /\ ~Tells(new, d, r)
      BY <1>8, <1>11, <2>3
    <3>2. \A m : m \in memory' <=> m \in memory \/ m = new
      BY <1>4
    <3>. QED  BY <2>1, <3>1, <3>2
  <2>. QED  BY <2>2, <2>3
<1>14. \A m \in memory' : \E asked \in TriggerRequests : m.key = asked.key /\ m.body = asked.body
  BY <1>4, <1>9 DEF MemoryInv
<1>15. \A m, n \in memory' : m.key = n.key => m = n
  BY <1>4, <1>10 DEF MemoryInv
<1>16. MemoryInv'
  <2>1. TriggerRequests' = TriggerRequests
    BY RequestsStay
  <2>2. \A d : Recipients(d)' = Recipients(d)
    BY DEF Recipients
  <2>3. \A m, d, r : Tells(m, d, r)' = Tells(m, d, r)
    BY DEF Tells
  <2>. QED  BY <1>7, <1>12, <1>13, <1>14, <1>15, <2>1, <2>2, <2>3 DEF MemoryInv
<1>17. \A r \in told : notified'[e][r] > 0
  <2> SUFFICES ASSUME NEW r \in told
               PROVE  notified'[e][r] > 0
    OBVIOUS
  <2>1. notified'[e][r] = notified[e][r] + 1 /\ notified[e][r] \in Nat
    BY <1>2, <1>3, <1>11
  <2>. QED  BY <2>1
<1>. QED  BY <1>13, <1>16, <1>17 DEF Remembers, e, told

\* Whatever the provider receives and does not refuse, its recipients were told.
LEMMA ReceiveTells ==
  ASSUME JobsInv, MemoryInv, NEW request \in TriggerRequests \cup AppRequests, UNCHANGED lists,
         Receive(request)
  PROVE  /\ MemoryInv' /\ Remembers
         /\ request \in TriggerRequests =>
              \A r \in ToSet(request.job.recipients) : notified'[request.job.event][r] > 0
<1>1. CASE request \in TriggerRequests /\ Known(request) = {}
  BY <1>1, NewKeyIsTold
<1>2. CASE ~(request \in TriggerRequests /\ Known(request) = {})
  <2>1. request \in AppRequests => request.op # "trigger"
    BY DEF AppRequests
  <2>2. UNCHANGED <<memory, notified>>
    BY <1>2, <2>1, TriggersTrigger DEF Receive, provider
  <2>3. MemoryInv' /\ Remembers
    BY <2>2, RequestsStay, MemoryStays
  <2>4. request \in TriggerRequests =>
          \A r \in ToSet(request.job.recipients) : notified[request.job.event][r] > 0
    BY <1>2, KnownIsTold
  <2>. QED  BY <2>2, <2>3, <2>4
<1>. QED  BY <1>1, <1>2

\* What an answer says of the recipients of a job.
AnswerTrue(call) ==
  LET job == call.request.job IN
  /\ call.answer \in {"ok", "clientError"} =>
       \A r \in ToSet(job.recipients) : notified[job.event][r] > 0
  /\ call.answer = "recipientCountBelowMinimum" => ToSet(job.recipients) = {}
  /\ call.answer \notin {"none", "recipientCountAboveMaximum", "missingSigningKey"}

LEMMA AnswersMove ==
  ASSUME CallsInv, JobsInv, AnswersInv, Remembers, NEW c \in Callers,
         NEW call \in CallType(Requests), calls' = [calls EXCEPT ![c] = call],
         c \in Workers /\ call.at = "answered" => AnswerTrue(call)'
  PROVE  AnswersInv'
<1>1. calls'[c] = call /\ \A d \in Callers : d # c => calls'[d] = calls[d]
  BY DEF CallsInv
<1>2. ASSUME NEW w \in Workers, calls'[w].at = "answered"
      PROVE  AnswerTrue(calls[w])'
  <2>1. CASE w = c
    BY <1>1, <1>2, <2>1 DEF AnswerTrue
  <2>2. CASE w # c
    <3> DEFINE job == calls[w].request.job
    <3>1. calls'[w] = calls[w]
      BY <1>1, <2>2 DEF Callers
    <3>2. calls[w].request \in TriggerRequests
      BY <1>2, <3>1 DEF CallsInv
    <3>3. job.event \in Events /\ ToSet(job.recipients) \subseteq Recipients(job.event)
      BY <3>2, RequestsAreOfJobs, JobsOfLists
    <3>4. AnswerTrue(calls[w])
      BY <1>2, <3>1 DEF AnswersInv, AnswerTrue
    <3>. QED  BY <3>1, <3>3, <3>4 DEF AnswerTrue, Remembers
  <2>. QED  BY <2>1, <2>2
<1>. QED  BY <1>2 DEF AnswersInv, AnswerTrue

LEMMA AnswersStay ==
  ASSUME CallsInv, JobsInv, AnswersInv, Remembers, UNCHANGED calls
  PROVE  AnswersInv'
<1>1. ASSUME NEW w \in Workers, calls[w].at = "answered"
      PROVE  AnswerTrue(calls[w])'
  <2> DEFINE job == calls[w].request.job
  <2>1. calls[w].request \in TriggerRequests
    BY <1>1 DEF CallsInv
  <2>2. job.event \in Events /\ ToSet(job.recipients) \subseteq Recipients(job.event)
    BY <2>1, RequestsAreOfJobs, JobsOfLists
  <2>3. AnswerTrue(calls[w])
    BY <1>1 DEF AnswersInv, AnswerTrue
  <2>. QED  BY <2>2, <2>3 DEF AnswerTrue, Remembers
<1>. QED  BY <1>1 DEF AnswersInv, AnswerTrue

\* The queue is left alone.
LEMMA JobsStay ==
  ASSUME JobsInv, Remembers, UNCHANGED jobs, excused \subseteq excused'
  PROVE  JobsInv'
<1>1. UNCHANGED <<landing, queue, enqueued, lists>>
  BY DEF jobs
<1>2. Enqueued' = Enqueued
  BY <1>1, RequestsStay
<1>3. \A e \in Events : \A l \in lists[e] : ToSet(l) \subseteq Recipients(e)
  BY DEF JobsInv, Recipients
<1>4. ASSUME NEW e \in Events, enqueued[e].list \in lists[e], NEW r \in ToSet(enqueued[e].list),
             CaredFor(e, r, queue \cup landing)
      PROVE  CaredFor(e, r, queue \cup landing)'
  BY <1>1, <1>3, <1>4 DEF CaredFor, Remembers
<1>5. ASSUME NEW e \in Events
      PROVE  /\ enqueued'[e].outcome \in {"waiting", "ok"} =>
                  /\ enqueued'[e].list \in lists'[e]
                  /\ \A r \in ToSet(enqueued'[e].list) : CaredFor(e, r, queue \cup landing)'
             /\ enqueued'[e].outcome = "ok" => \A job \in landing' : job.event # e
  BY <1>1, <1>4 DEF JobsInv
<1>6. /\ lists' \in [Events -> SUBSET UNION {Lists[e] : e \in Events}]
      /\ \A e \in Events : lists'[e] \subseteq Lists[e]
      /\ landing' \cup queue' \subseteq Enqueued'
      /\ enqueued' \in [Events -> [list : {NoJob} \cup UNION {lists'[e] : e \in Events},
                                   outcome : {"none", "waiting", "ok", "failed"}]]
  BY <1>1, <1>2 DEF JobsInv
<1>. QED  BY <1>5, <1>6 DEF JobsInv

NotifyInv == MemoryInv /\ AnswersInv /\ JobsInv

LEMMA NothingNotified ==
  ASSUME MemoryInv, UNCHANGED <<memory, notified>>, \A e \in Events : lists[e] \subseteq lists'[e]
  PROVE  MemoryInv' /\ Remembers
BY RequestsGrow, MemoryStays

\* Steps of apps, and expiry.
LEMMA AppsKeepNotified ==
  ASSUME CallsInv, NotifyInv, UNCHANGED <<memory, notified, excused, jobs>>,
         \/ UNCHANGED calls
         \/ \E a \in Apps, call \in CallType(Requests) : calls' = [calls EXCEPT ![a] = call]
  PROVE  NotifyInv'
<1>1. UNCHANGED lists /\ MemoryInv /\ AnswersInv /\ JobsInv
  BY DEF jobs, NotifyInv
<1>2. MemoryInv' /\ Remembers
  BY <1>1, NothingNotified
<1>3. JobsInv'
  BY <1>1, <1>2, JobsStay
<1>4. CASE UNCHANGED calls
  BY <1>1, <1>2, <1>3, <1>4, AnswersStay DEF NotifyInv
<1>5. ASSUME NEW a \in Apps, NEW call \in CallType(Requests), calls' = [calls EXCEPT ![a] = call]
      PROVE  NotifyInv'
  <2>1. a \in Callers /\ a \notin Workers
    BY ClientAssumption DEF Callers
  <2>2. AnswersInv'
    BY <1>1, <1>2, <1>5, <2>1, AnswersMove
  <2>. QED  BY <1>2, <1>3, <2>2 DEF NotifyInv
<1>. QED  BY <1>4, <1>5

LEMMA AppCallsKeepNotified ==
  ASSUME CallsInv, NotifyInv, NEW a \in Apps,
         \/ AppendPushToken(a) \/ UpsertWorkplace(a) \/ UpsertUserPreferences(a) \/ SignUserToken(a)
         \/ \E dryRun \in BOOLEAN : Cancel(a, dryRun)
  PROVE  NotifyInv'
<1>1. \E operation \in {"append", "cancel", "workplace", "preferences", "sign"},
         at \in {"reading", "asking", "answered"}, verdict \in Answers :
         (at = "reading" => operation = "append") /\ AppCalls(a, operation, at, verdict)
  <2>1. CASE AppendPushToken(a)
    BY <2>1 DEF AppendPushToken, Answers
  <2>2. CASE UpsertWorkplace(a) \/ UpsertUserPreferences(a)
    BY <2>2 DEF UpsertWorkplace, UpsertUserPreferences, Answers
  <2>3. CASE SignUserToken(a)
    BY <2>3 DEF SignUserToken, Answers
  <2>4. ASSUME NEW dryRun \in BOOLEAN, Cancel(a, dryRun)
        PROVE  \/ AppCalls(a, "cancel", "answered", "ok") \/ AppCalls(a, "cancel", "asking", "none")
    BY <2>4 DEF Cancel
  <2>. QED  BY <2>1, <2>2, <2>3, <2>4 DEF Answers
<1>2. PICK operation \in {"append", "cancel", "workplace", "preferences", "sign"},
           at \in {"reading", "asking", "answered"}, verdict \in Answers :
           (at = "reading" => operation = "append") /\ AppCalls(a, operation, at, verdict)
  BY <1>1
<1>3. \E call \in CallType(Requests) : calls' = [calls EXCEPT ![a] = call]
  BY <1>2, AppCallStarts
<1>. QED  BY <1>2, <1>3, AppsKeepNotified DEF AppCalls

LEMMA AppStepsKeepNotified ==
  ASSUME CallsInv, NotifyInv, NEW a \in Apps,
         \/ AppDone(a) \/ ReadAnswers(a)
         \/ \E status \in Statuses \cup {"notFound"} : ReadFails(a, status)
  PROVE  NotifyInv'
<1>0. a \in Callers /\ calls \in [Callers -> CallType(Requests)]
  BY DEF Callers, CallsInv, Requests
<1>1. CASE AppDone(a)
  BY <1>1, IdleCall, AppsKeepNotified DEF AppDone
<1>2. CASE calls[a].at = "reading" /\ calls' = Write(a, tokens)
           /\ UNCHANGED <<memory, notified, excused, jobs>>
  <2>1. tokens \in SUBSET AllTokens
    BY DEF CallsInv
  <2>2. \E call \in CallType(Requests) : calls' = [calls EXCEPT ![a] = call]
    BY <1>2, <2>1, WriteAsks, ClientAssumption
  <2>. QED  BY <1>2, <2>2, AppsKeepNotified
<1>3. ASSUME NEW status \in Statuses, ReadFails(a, status)
      PROVE  NotifyInv'
  <2>1. calls' = AfterError(a, status)
    BY <1>3 DEF ReadFails, AfterError, AfterReadError, Statuses
  <2>2. \E call \in CallType(Requests) : calls' = [calls EXCEPT ![a] = call]
    BY <1>0, <2>1, ErrorSettles, ClientAssumption DEF Settles
  <2>. QED  BY <1>3, <2>2, AppsKeepNotified DEF ReadFails
<1>4. CASE ReadFails(a, "notFound")
  BY <1>2, <1>4 DEF ReadFails, AfterReadError
<1>. QED  BY <1>1, <1>2, <1>3, <1>4 DEF ReadAnswers

\* Workers start and die.
LEMMA TriggerKeepsNotified ==
  ASSUME CallsInv, NotifyInv, NEW w \in Workers, NEW job \in queue, NEW data \in Variables,
         NEW dryRun \in BOOLEAN, Trigger(w, job, data, dryRun)
  PROVE  NotifyInv'
<1>1. /\ UNCHANGED <<memory, notified, excused, jobs, lists>>
      /\ MemoryInv /\ AnswersInv /\ JobsInv /\ w \in Callers
  BY DEF Trigger, jobs, NotifyInv, Callers
<1>2. MemoryInv' /\ Remembers
  BY <1>1, NothingNotified
<1>3. JobsInv'
  BY <1>1, <1>2, JobsStay
<1>4. /\ TriggerRequest(job, data).job = job /\ job.recipients \in Seq(ToSet(job.recipients))
      /\ Len(job.recipients) <= MaxRecipientsCount
  <2>1. job \in Enqueued
    BY <1>1 DEF JobsInv
  <2>. QED  BY <1>1, <2>1, JobsOfLists
<1>5. /\ ~(Len(job.recipients) > MaxRecipientsCount)
      /\ Len(job.recipients) = 0 => ToSet(job.recipients) = {}
  <2>1. Len(job.recipients) \in Nat /\ MaxRecipientsCount \in Nat
    BY <1>4, ClientAssumption
  <2>2. Len(job.recipients) = 0 => ToSet(job.recipients) = {}
    BY <1>4 DEF ToSet
  <2>. QED  BY <1>4, <2>1, <2>2
<1>6. PICK call \in CallType(Requests) :
         /\ calls' = [calls EXCEPT ![w] = call] /\ call.request = TriggerRequest(job, data)
         /\ call.at = "answered" =>
              \/ call.answer = "recipientCountBelowMinimum" /\ Len(job.recipients) = 0
              \/ call.answer \in {"expired", "dryRun"}
  BY <1>1, <1>5, TriggerStarts
<1>7. call.at = "answered" => AnswerTrue(call)'
  BY <1>4, <1>5, <1>6 DEF AnswerTrue
<1>8. AnswersInv'
  BY <1>1, <1>2, <1>6, <1>7, AnswersMove
<1>. QED  BY <1>2, <1>3, <1>8 DEF NotifyInv

LEMMA DiesKeepsNotified ==
  ASSUME CallsInv, NotifyInv, NEW w \in Workers, WorkerDies(w)
  PROVE  NotifyInv'
<1>1. /\ UNCHANGED <<memory, notified, excused, jobs, lists>> /\ w \in Callers
      /\ MemoryInv /\ AnswersInv /\ JobsInv /\ calls' = [calls EXCEPT ![w] = Idle]
  BY DEF WorkerDies, jobs, NotifyInv, Callers
<1>2. MemoryInv' /\ Remembers
  BY <1>1, NothingNotified
<1>3. JobsInv'
  BY <1>1, <1>2, JobsStay
<1>4. AnswersInv'
  BY <1>1, <1>2, IdleCall, AnswersMove
<1>. QED  BY <1>2, <1>3, <1>4 DEF NotifyInv

\* A job ends only when whom it tells was told, or it expired or was a dry run.
LEMMA DoneKeepsNotified ==
  ASSUME CallsInv, NotifyInv, NEW w \in Workers, WorkerDone(w)
  PROVE  NotifyInv'
<1> DEFINE job == calls[w].request.job
           answer == calls[w].answer
<1>1. /\ UNCHANGED <<memory, notified, landing, enqueued, lists>> /\ w \in Callers
      /\ MemoryInv /\ AnswersInv /\ JobsInv /\ calls' = [calls EXCEPT ![w] = Idle]
      /\ calls[w].at = "answered"
  BY DEF WorkerDone, NotifyInv, Callers
<1>2. MemoryInv' /\ Remembers
  BY <1>1, NothingNotified
<1>3. AnswersInv'
  BY <1>1, <1>2, IdleCall, AnswersMove
<1>4. answer \in Answers
  BY <1>1 DEF CallsInv, CallType
<1>5. /\ answer \in {"ok", "clientError"} =>
           \A r \in ToSet(job.recipients) : notified[job.event][r] > 0
      /\ answer = "recipientCountBelowMinimum" => ToSet(job.recipients) = {}
      /\ answer \notin {"none", "recipientCountAboveMaximum", "missingSigningKey"}
  BY <1>1 DEF AnswersInv
<1>6. /\ queue' = IF answer \notin {"rateLimited", "unknown"} THEN queue \ {job} ELSE queue
      /\ excused' = IF answer \in {"expired", "dryRun"}
                    THEN excused \cup ({job.event} \X ToSet(job.recipients)) ELSE excused
  BY DEF WorkerDone
<1> HIDE DEF job, answer
<1>7. queue' \subseteq queue /\ excused \subseteq excused'
  BY <1>6
<1>8. ASSUME NEW e, NEW r, CaredFor(e, r, queue \cup landing)
      PROVE  CaredFor(e, r, queue \cup landing)'
  <2>1. CASE notified[e][r] > 0 \/ <<e, r>> \in excused
    BY <1>1, <1>7, <2>1 DEF CaredFor
  <2>2. ASSUME NEW j \in queue \cup landing, j.event = e, r \in ToSet(j.recipients)
        PROVE  CaredFor(e, r, queue \cup landing)'
    <3>1. CASE j \in queue' \cup landing'
      BY <2>2, <3>1 DEF CaredFor
    <3>2. CASE j \notin queue' \cup landing'
      <4>1. j = job /\ answer \notin {"rateLimited", "unknown"}
        BY <1>1, <1>6, <2>2, <3>2
      <4>2. answer \in {"ok", "clientError", "expired", "dryRun"}
        BY <1>4, <1>5, <2>2, <4>1 DEF Answers
      <4>3. CASE answer \in {"expired", "dryRun"}
        BY <1>6, <2>2, <4>1, <4>3 DEF CaredFor
      <4>4. CASE answer \notin {"expired", "dryRun"}
        BY <1>1, <1>5, <2>2, <4>1, <4>2, <4>4 DEF CaredFor
      <4>. QED  BY <4>3, <4>4
    <3>. QED  BY <3>1, <3>2
  <2>. QED  BY <1>8, <2>1, <2>2 DEF CaredFor
<1>9. JobsInv'
  <2>1. Enqueued' = Enqueued
    BY <1>1, RequestsStay
  <2>2. ASSUME NEW e \in Events
        PROVE  /\ enqueued'[e].outcome \in {"waiting", "ok"} =>
                    /\ enqueued'[e].list \in lists'[e]
                    /\ \A r \in ToSet(enqueued'[e].list) : CaredFor(e, r, queue \cup landing)'
               /\ enqueued'[e].outcome = "ok" => \A j \in landing' : j.event # e
    BY <1>1, <1>8 DEF JobsInv
  <2>3. /\ lists' \in [Events -> SUBSET UNION {Lists[e] : e \in Events}]
        /\ \A e \in Events : lists'[e] \subseteq Lists[e]
        /\ landing' \cup queue' \subseteq Enqueued'
        /\ enqueued' \in [Events -> [list : {NoJob} \cup UNION {lists'[e] : e \in Events},
                                     outcome : {"none", "waiting", "ok", "failed"}]]
    BY <1>1, <1>7, <2>1 DEF JobsInv
  <2>. QED  BY <2>2, <2>3 DEF JobsInv
<1>. QED  BY <1>2, <1>3, <1>9 DEF NotifyInv

\* The provider receives, or not.
LEMMA AskedKeepsNotified ==
  ASSUME CallsInv, NotifyInv, NEW c \in Callers,
         Accept(c) \/ Loses(c) \/ TimesOut(c) \/ \E status \in Statuses : Refuse(c, status)
  PROVE  NotifyInv'
<1> DEFINE request == calls[c].request
<1>1. /\ UNCHANGED <<excused, jobs, lists>> /\ calls[c].at = "asking"
      /\ MemoryInv /\ AnswersInv /\ JobsInv
  BY DEF Accept, Loses, TimesOut, Refuse, jobs, NotifyInv
<1>2. /\ request \in TriggerRequests \cup AppRequests
      /\ c \in Workers => request \in TriggerRequests
      /\ calls \in [Callers -> CallType(Requests)]
  BY <1>1, LateIsAsked DEF CallsInv, Requests
<1>3. CASE Accept(c)
  <2>1. /\ MemoryInv' /\ Remembers
        /\ request \in TriggerRequests =>
              \A r \in ToSet(request.job.recipients) : notified'[request.job.event][r] > 0
    BY <1>1, <1>2, <1>3, ReceiveTells DEF Accept
  <2>2. "ok" \in Answers /\ calls' = Answer(c, "ok")
    BY <1>3 DEF Accept, Answers
  <2>3. PICK call \in CallType(Requests) :
          Settles(c, call, {"ok"}) /\ call.at = "answered" /\ call.answer = "ok"
    BY <1>2, <2>2, AnswerSettles
  <2>4. calls' = [calls EXCEPT ![c] = call] /\ call.request = request
    BY <2>3 DEF Settles
  <2>5. c \in Workers => AnswerTrue(call)'
    <3>1. c \in Workers => \A r \in ToSet(call.request.job.recipients) :
                              notified'[call.request.job.event][r] > 0
      BY <1>2, <2>1, <2>4
    <3>. QED  BY <2>3, <3>1 DEF AnswerTrue
  <2>6. AnswersInv'
    BY <1>1, <2>1, <2>4, <2>5, AnswersMove
  <2>7. JobsInv'
    BY <1>1, <2>1, JobsStay
  <2>. QED  BY <2>1, <2>6, <2>7 DEF NotifyInv
<1>4. ASSUME NEW status \in Statuses, calls' = AfterError(c, status), MemoryInv', Remembers,
             c \in Workers /\ status = "clientError" =>
               \A r \in ToSet(request.job.recipients) : notified'[request.job.event][r] > 0
      PROVE  NotifyInv'
  <2>1. PICK call \in CallType(Requests) : Settles(c, call, {status})
    BY <1>2, <1>4, ErrorSettles, ClientAssumption
  <2>2. /\ calls' = [calls EXCEPT ![c] = call] /\ call.request = request
        /\ call.at = "answered" => call.answer = status
    BY <1>1, <2>1 DEF Settles
  <2>3. c \in Workers /\ status = "clientError" =>
          \A r \in ToSet(call.request.job.recipients) : notified'[call.request.job.event][r] > 0
    BY <1>4, <2>2
  <2>4. c \in Workers /\ call.at = "answered" => AnswerTrue(call)'
    BY <2>2, <2>3 DEF AnswerTrue, Statuses
  <2>5. AnswersInv'
    BY <1>1, <1>4, <2>2, <2>4, AnswersMove
  <2>6. JobsInv'
    BY <1>1, <1>4, JobsStay
  <2>. QED  BY <1>4, <2>5, <2>6 DEF NotifyInv
<1>5. CASE Loses(c)
  <2>1. MemoryInv' /\ Remembers
    BY <1>1, <1>2, <1>5, ReceiveTells DEF Loses
  <2>2. "unknown" \in Statuses /\ calls' = AfterError(c, "unknown")
    BY <1>5 DEF Loses, Statuses
  <2>. QED  BY <1>4, <2>1, <2>2
<1>6. CASE TimesOut(c)
  <2>1. MemoryInv' /\ Remembers
    BY <1>1, <1>6, NothingNotified DEF TimesOut, provider
  <2>2. "unknown" \in Statuses /\ calls' = AfterError(c, "unknown")
    BY <1>6 DEF TimesOut, Statuses
  <2>. QED  BY <1>4, <2>1, <2>2
<1>7. ASSUME NEW status \in Statuses, Refuse(c, status)
      PROVE  NotifyInv'
  <2>1. UNCHANGED <<memory, notified>> /\ calls' = AfterError(c, status)
    BY <1>7 DEF Refuse, provider
  <2>2. MemoryInv' /\ Remembers
    BY <1>1, <2>1, NothingNotified
  <2>3. c \in Workers /\ status = "clientError" =>
          \A r \in ToSet(request.job.recipients) : notified[request.job.event][r] > 0
    <3> SUFFICES ASSUME c \in Workers, status = "clientError",
                        NEW r \in ToSet(request.job.recipients)
                 PROVE  notified[request.job.event][r] > 0
      OBVIOUS
    <3>1. request \in TriggerRequests /\ request.op = "trigger"
      BY <1>2, TriggersTrigger
    <3>2. Known(request) # {}
      BY <1>7, <3>1 DEF Refuse, Conflicts
    <3>. QED  BY <1>1, <3>1, <3>2, KnownIsTold
  <2>. QED  BY <1>4, <2>1, <2>2, <2>3
<1>. QED  BY <1>3, <1>5, <1>6, <1>7

LEMMA LateKeepsNotified ==
  ASSUME CallsInv, NotifyInv, NEW request \in flying, ArrivesLate(request)
  PROVE  NotifyInv'
<1>1. /\ UNCHANGED <<calls, excused, jobs, lists>> /\ MemoryInv /\ AnswersInv /\ JobsInv
      /\ request \in TriggerRequests \cup AppRequests
  BY DEF ArrivesLate, jobs, NotifyInv, CallsInv
<1>2. MemoryInv' /\ Remembers
  <2>1. CASE Receive(request)
    BY <1>1, <2>1, ReceiveTells
  <2>2. CASE UNCHANGED provider
    BY <1>1, <2>2, NothingNotified DEF provider
  <2>. QED  BY <2>1, <2>2 DEF ArrivesLate
<1>3. AnswersInv' /\ JobsInv'
  BY <1>1, <1>2, AnswersStay, JobsStay
<1>. QED  BY <1>2, <1>3 DEF NotifyInv

\* Enqueueing adds a job for everyone on the list.
LEMMA EnqueueKeepsNotified ==
  ASSUME CallsInv, NotifyInv, NEW e \in Events, NEW list \in Lists[e], EnqueueOneOrMore(e, list)
  PROVE  NotifyInv'
<1> DEFINE added == {Job(e, chunk) : chunk \in ChunkRecipients(list)}
<1>1. /\ UNCHANGED <<calls, memory, notified, queue, excused>>
      /\ landing' = landing \cup added
      /\ enqueued' = [enqueued EXCEPT ![e] = [list |-> list, outcome |-> "waiting"]]
      /\ lists' = [lists EXCEPT ![e] = @ \cup {list}]
      /\ MemoryInv /\ AnswersInv /\ JobsInv
  BY DEF EnqueueOneOrMore, NotifyInv
<1>2. /\ lists \in [Events -> SUBSET UNION {Lists[d] : d \in Events}]
      /\ \A d \in Events : lists[d] \subseteq Lists[d]
      /\ landing \cup queue \subseteq Enqueued
      /\ enqueued \in [Events -> [list : {NoJob} \cup UNION {lists[d] : d \in Events},
                                  outcome : {"none", "waiting", "ok", "failed"}]]
  BY <1>1 DEF JobsInv
<1>3. /\ lists'[e] = lists[e] \cup {list} /\ \A d \in Events : d # e => lists'[d] = lists[d]
      /\ enqueued'[e] = [list |-> list, outcome |-> "waiting"]
      /\ \A d \in Events : d # e => enqueued'[d] = enqueued[d]
  BY <1>1, <1>2
<1>4. \A d \in Events : lists[d] \subseteq lists'[d]
  BY <1>3
<1>5. MemoryInv' /\ Remembers
  BY <1>1, <1>4, NothingNotified
<1>6. AnswersInv'
  BY <1>1, <1>5, AnswersStay
<1>7. list \in Seq(ToSet(list))
  BY ClientAssumption
<1>8. \A job \in added : job.event = e
  BY JobTells
<1>9. \A r \in ToSet(list) : CaredFor(e, r, queue \cup landing)'
  <2> SUFFICES ASSUME NEW r \in ToSet(list)
               PROVE  CaredFor(e, r, queue \cup landing)'
    OBVIOUS
  <2>1. PICK chunk \in ChunkRecipients(list) : r \in ToSet(chunk.recipients)
    BY <1>7, ChunksHoldAll
  <2>2. Job(e, chunk).event = e /\ Job(e, chunk).recipients = chunk.recipients
    BY JobTells
  <2>3. Job(e, chunk) \in landing'
    BY <1>1
  <2>. QED  BY <2>1, <2>2, <2>3 DEF CaredFor
<1>10. added \subseteq Enqueued'
  BY <1>3 DEF Enqueued
<1> HIDE DEF added
<1>11. \A d, r : CaredFor(d, r, queue \cup landing) => CaredFor(d, r, queue \cup landing)'
  BY <1>1 DEF CaredFor
<1>12. JobsInv'
  <2>1. Enqueued \subseteq Enqueued'
    BY <1>4, RequestsGrow
  <2>2. ASSUME NEW d \in Events
        PROVE  /\ enqueued'[d].outcome \in {"waiting", "ok"} =>
                    /\ enqueued'[d].list \in lists'[d]
                    /\ \A r \in ToSet(enqueued'[d].list) : CaredFor(d, r, queue \cup landing)'
               /\ enqueued'[d].outcome = "ok" => \A job \in landing' : job.event # d
    <3>1. CASE d = e
      BY <1>3, <1>9, <3>1
    <3>2. CASE d # e
      <4>1. \A job \in landing' : job.event = d => job \in landing
        BY <1>1, <1>8, <3>2
      <4>. QED  BY <1>1, <1>3, <1>11, <3>2, <4>1 DEF JobsInv
    <3>. QED  BY <3>1, <3>2
  <2>3. /\ lists' \in [Events -> SUBSET UNION {Lists[d] : d \in Events}]
        /\ \A d \in Events : lists'[d] \subseteq Lists[d]
    BY <1>1, <1>2, <1>3
  <2>4. landing' \cup queue' \subseteq Enqueued'
    BY <1>1, <1>2, <1>10, <2>1
  <2>5. enqueued' \in [Events -> [list : {NoJob} \cup UNION {lists'[d] : d \in Events},
                                  outcome : {"none", "waiting", "ok", "failed"}]]
    <3> DEFINE named == {NoJob} \cup UNION {lists'[d] : d \in Events}
               types == [list : named, outcome : {"none", "waiting", "ok", "failed"}]
    <3>1. {NoJob} \cup UNION {lists[d] : d \in Events} \subseteq named /\ list \in named
      BY <1>3, <1>4
    <3>2. enqueued \in [Events -> types] /\ [list |-> list, outcome |-> "waiting"] \in types
      BY <1>2, <3>1
    <3> HIDE DEF types
    <3>3. enqueued' \in [Events -> types]
      BY <1>1, <3>2
    <3>. QED  BY <3>3 DEF types
  <2>. QED  BY <2>2, <2>3, <2>4, <2>5 DEF JobsInv
<1>. QED  BY <1>5, <1>6, <1>12 DEF NotifyInv

\* A job that lands is in the queue, or another for the same recipients is.
LEMMA ArrivalKeepsNotified ==
  ASSUME CallsInv, NotifyInv, NEW job \in landing, JobLands(job) \/ JobFailsToLand(job)
  PROVE  NotifyInv'
<1> DEFINE e == job.event
<1>1. /\ UNCHANGED <<calls, memory, notified, lists, excused>>
      /\ landing' = landing \ {job}
      /\ MemoryInv /\ AnswersInv /\ JobsInv
  BY DEF JobLands, JobFailsToLand, Arrives, NotifyInv
<1>2. /\ lists \in [Events -> SUBSET UNION {Lists[d] : d \in Events}]
      /\ landing \cup queue \subseteq Enqueued
      /\ enqueued \in [Events -> [list : {NoJob} \cup UNION {lists[d] : d \in Events},
                                  outcome : {"none", "waiting", "ok", "failed"}]]
  BY <1>1 DEF JobsInv
<1>3. e \in Events
  BY <1>1, <1>2, JobsOfLists
<1>4. PICK outcome \in {"none", "waiting", "ok", "failed"} :
        /\ enqueued' = [enqueued EXCEPT ![e].outcome = outcome]
        /\ enqueued[e].outcome # "waiting" => outcome = enqueued[e].outcome
        /\ enqueued[e].outcome = "waiting" /\ outcome # "failed" => JobLands(job)
        /\ outcome = "ok" /\ enqueued[e].outcome = "waiting" => \A j \in landing' : j.event # e
  <2>1. PICK fails \in BOOLEAN : Arrives(job, fails) /\ (~fails => JobLands(job))
    BY DEF JobLands, JobFailsToLand
  <2> DEFINE old == enqueued[e].outcome
             new == IF old # "waiting" THEN old
                    ELSE IF fails THEN "failed"
                    ELSE IF \E j \in landing' : j.event = e THEN old ELSE "ok"
  <2>2. enqueued' = [enqueued EXCEPT ![e].outcome = new]
    BY <2>1 DEF Arrives
  <2>3. old \in {"none", "waiting", "ok", "failed"}
    BY <1>2, <1>3
  <2> HIDE DEF e
  <2>4. /\ new \in {"none", "waiting", "ok", "failed"} /\ (old # "waiting" => new = old)
        /\ old = "waiting" /\ new # "failed" => JobLands(job)
        /\ new = "ok" /\ old = "waiting" => \A j \in landing' : j.event # e
    BY <2>1, <2>3
  <2> HIDE DEF new
  <2>. QED  BY <2>2, <2>4
<1>5. /\ enqueued'[e].outcome = outcome /\ enqueued'[e].list = enqueued[e].list
      /\ \A d \in Events : d # e => enqueued'[d] = enqueued[d]
      /\ enqueued' \in [Events -> [list : {NoJob} \cup UNION {lists[d] : d \in Events},
                                   outcome : {"none", "waiting", "ok", "failed"}]]
  <2> DEFINE new == [enqueued[e] EXCEPT !.outcome = outcome]
             types == [list : {NoJob} \cup UNION {lists[d] : d \in Events},
                       outcome : {"none", "waiting", "ok", "failed"}]
  <2>1. enqueued' = [enqueued EXCEPT ![e] = new]
    BY <1>4
  <2>2. new \in types /\ new.outcome = outcome /\ new.list = enqueued[e].list
    BY <1>2, <1>3
  <2> HIDE DEF new, types, e
  <2>3. enqueued \in [Events -> types]
    BY <1>2 DEF types
  <2>. QED  BY <1>3, <2>1, <2>2, <2>3 DEF types
<1>6. MemoryInv' /\ Remembers
  BY <1>1, NothingNotified
<1>7. AnswersInv'
  BY <1>1, <1>6, AnswersStay
<1>8. queue \subseteq queue' /\ queue' \subseteq queue \cup {job}
  BY DEF JobLands, JobFailsToLand
<1>9. ASSUME NEW d, NEW r, CaredFor(d, r, queue \cup landing), d # e \/ JobLands(job)
      PROVE  CaredFor(d, r, queue \cup landing)'
  <2>1. CASE notified[d][r] > 0 \/ <<d, r>> \in excused
    BY <1>1, <2>1 DEF CaredFor
  <2>2. ASSUME NEW j \in queue \cup landing, j.event = d, r \in ToSet(j.recipients)
        PROVE  CaredFor(d, r, queue \cup landing)'
    <3>1. CASE j # job
      BY <1>1, <1>8, <2>2, <3>1 DEF CaredFor
    <3>2. CASE j = job
      <4>1. JobLands(job)
        BY <1>9, <2>2, <3>2
      <4>2. \E k \in queue' : UniqueKey(k) = UniqueKey(job)
        BY <4>1 DEF JobLands
      <4>3. PICK k \in queue' : UniqueKey(k) = UniqueKey(job)
        BY <4>2
      <4>4. k \in Enqueued /\ job \in Enqueued
        BY <1>2, <1>8
      <4>5. /\ UniqueKey(k).event = k.event /\ UniqueKey(k).recipients = ToSorted(k.recipients)
            /\ UniqueKey(job).event = job.event
            /\ UniqueKey(job).recipients = ToSorted(job.recipients)
        BY <1>1, <4>4, JobsOfLists
      <4>6. k.event = d /\ r \in ToSet(k.recipients)
        BY <2>2, <3>2, <4>3, <4>5, SortedAreSame
      <4>. QED  BY <4>6 DEF CaredFor
    <3>. QED  BY <3>1, <3>2
  <2>. QED  BY <1>9, <2>1, <2>2 DEF CaredFor
<1>10. JobsInv'
  <2>1. Enqueued' = Enqueued
    BY <1>1, RequestsStay
  <2>2. ASSUME NEW d \in Events
        PROVE  /\ enqueued'[d].outcome \in {"waiting", "ok"} =>
                    /\ enqueued'[d].list \in lists'[d]
                    /\ \A r \in ToSet(enqueued'[d].list) : CaredFor(d, r, queue \cup landing)'
               /\ enqueued'[d].outcome = "ok" => \A j \in landing' : j.event # d
    <3>0. /\ enqueued[d].outcome \in {"waiting", "ok"} =>
               /\ enqueued[d].list \in lists[d]
               /\ \A r \in ToSet(enqueued[d].list) : CaredFor(d, r, queue \cup landing)
          /\ enqueued[d].outcome = "ok" => \A j \in landing : j.event # d
      BY <1>1 DEF JobsInv
    <3>1. CASE d = e
      <4>1. enqueued[e].outcome # "ok"
        BY <3>0, <3>1
      <4>2. outcome \in {"waiting", "ok"} => enqueued[e].outcome = "waiting" /\ JobLands(job)
        BY <1>4, <4>1
      <4>. QED  BY <1>1, <1>4, <1>5, <1>9, <3>0, <3>1, <4>2
    <3>2. CASE d # e
      BY <1>1, <1>5, <1>9, <3>0, <3>2
    <3>. QED  BY <3>1, <3>2
  <2>3. /\ lists' \in [Events -> SUBSET UNION {Lists[d] : d \in Events}]
        /\ \A d \in Events : lists'[d] \subseteq Lists[d]
    BY <1>1 DEF JobsInv
  <2>4. landing' \cup queue' \subseteq Enqueued'
    BY <1>1, <1>2, <1>8, <2>1
  <2>5. enqueued' \in [Events -> [list : {NoJob} \cup UNION {lists'[d] : d \in Events},
                                  outcome : {"none", "waiting", "ok", "failed"}]]
    BY <1>1, <1>5
  <2>. QED  BY <2>2, <2>3, <2>4, <2>5 DEF JobsInv
<1>. QED  BY <1>6, <1>7, <1>10 DEF NotifyInv

LEMMA NotifiedStep ==
  ASSUME CallsInv, NotifyInv, [Next]_vars
  PROVE  NotifyInv'
<1>1. CASE UNCHANGED vars
  <2>1. UNCHANGED <<memory, notified, excused, jobs, calls>>
    BY <1>1 DEF vars
  <2>. QED  BY <2>1, AppsKeepNotified
<1>2. ASSUME NEW e \in Events, Expire(e)
      PROVE  NotifyInv'
  BY <1>2, AppsKeepNotified DEF Expire
<1>3. CASE Next
  BY <1>2, <1>3, EnqueueKeepsNotified, ArrivalKeepsNotified, DoneKeepsNotified, DiesKeepsNotified,
     TriggerKeepsNotified, AppCallsKeepNotified, AppStepsKeepNotified, AskedKeepsNotified,
     LateKeepsNotified DEF Next
<1>. QED  BY <1>1, <1>3

LEMMA ClientInvInit == Init => ClientInv
<1> SUFFICES ASSUME Init
             PROVE  ClientInv
  OBVIOUS
<1>1. \A c \in Callers : calls[c] = Idle
  BY DEF Init
<1>2. \A c \in Callers : calls[c].at = "idle"
  BY <1>1, IdleCall
<1>3. CallsInv
  <2>1. calls \in [Callers -> CallType(Requests)]
    BY <1>1, IdleCall DEF Init
  <2>. QED  BY <1>2, <2>1 DEF Init, CallsInv, Requests, AllTokens, Callers
<1>4. TokensInv
  <2>1. Pending = {} /\ Added = {} /\ tokens = OldTokens
    BY <1>2 DEF Init, Pending, Added, Callers
  <2>2. \A a \in Apps : ~IsAppending(a) /\ calls[a].at = "idle"
    BY <1>2 DEF IsAppending, Callers
  <2>. QED  BY <2>1, <2>2 DEF TokensInv
<1>5. MemoryInv
  BY DEF Init, MemoryInv
<1>6. AnswersInv
  BY <1>2 DEF AnswersInv, Callers
<1>7. JobsInv
  BY DEF Init, JobsInv
<1>. QED  BY <1>3, <1>4, <1>5, <1>6, <1>7 DEF ClientInv

LEMMA ClientInvStep == ClientInv /\ [Next]_vars => ClientInv'
BY TokensStep, NotifiedStep DEF ClientInv, NotifyInv

\* Whatever the provider and the queue lose, repeat and delay, and however often workers die:
\* the calls, the memory of the provider and the queue stay in step.
THEOREM ClientInvariant == Spec => []ClientInv
BY ClientInvInit, ClientInvStep, PTL DEF Spec

\* appendPushToken reads the tokens and writes them back with one more: of any number of apps
\* and failures, none loses a token from before, nor one whose appending overlapped no other.
THEOREM TokensAreKept == Spec => []TokensSurvive
<1>1. ClientInv => TokensSurvive
  BY DEF ClientInv, TokensInv, TokensSurvive, Added
<1>. QED  BY <1>1, ClientInvariant, PTL

\* Lists of the same recipients that fit in one chunk have one idempotency key, and two
\* chunks of one list have nobody in common whom it names once, so whoever else is told twice
\* was on two lists that differ.
THEOREM NobodyNotifiedTwice == Spec => []ReenqueuedNotifiedOnce
<1>1. ClientInv => ReenqueuedNotifiedOnce
  <2> SUFFICES ASSUME ClientInv, NEW e \in Events, NEW r \in DOMAIN notified[e], notified[e][r] > 1
               PROVE  \E l, k \in lists[e] :
                        \/ l # k /\ (Len(l) > MaxRecipientsCount \/ ToSorted(l) # ToSorted(k))
                        \/ /\ l = k /\ Len(l) > MaxRecipientsCount
                           /\ \E i, j \in DOMAIN l : i # j /\ l[i] = r /\ l[j] = r
    BY DEF ReenqueuedNotifiedOnce
  <2>0. JobsInv /\ MemoryInv
    BY DEF ClientInv
  <2>1. r \in Recipients(e)
    BY <2>0 DEF MemoryInv
  <2>2. PICK m \in memory, n \in memory : Tells(m, e, r) /\ Tells(n, e, r) /\ m # n
    BY <2>0, <2>1 DEF MemoryInv
  <2>3. ASSUME NEW x \in memory, Tells(x, e, r)
        PROVE  \E l \in lists[e] : \E chunk \in ChunkRecipients(l) :
                 /\ r \in ToSet(chunk.recipients)
                 /\ x.key = [event |-> e, chunk |-> chunk.number,
                             recipients |-> ToSorted(chunk.recipients), workplaceId |-> Workplace[e]]
    <3>1. PICK job \in Enqueued, data \in Variables :
            x.key = TriggerRequest(job, data).key /\ x.body = TriggerRequest(job, data).body
      BY <2>0 DEF MemoryInv, TriggerRequests
    <3>2. /\ \E l \in lists[job.event] : \E chunk \in ChunkRecipients(l) : job = Job(job.event, chunk)
          /\ TriggerRequest(job, data).body.recipients = job.recipients
          /\ TriggerRequest(job, data).key = [event |-> job.event, chunk |-> job.chunk,
               recipients |-> ToSorted(job.recipients), workplaceId |-> Workplace[job.event]]
      BY <2>0, JobsOfLists
    <3>3. job.event = e /\ r \in ToSet(job.recipients)
      BY <2>3, <3>1, <3>2 DEF Tells
    <3>4. PICK l \in lists[e] : \E chunk \in ChunkRecipients(l) : job = Job(e, chunk)
      BY <3>2, <3>3
    <3>5. PICK chunk \in ChunkRecipients(l) : job = Job(e, chunk)
      BY <3>4
    <3>6. job.recipients = chunk.recipients /\ job.chunk = chunk.number
      BY <3>5 DEF Job, KeyParams
    <3>. QED  BY <3>1, <3>2, <3>3, <3>6
  <2>4. PICK l \in lists[e] : \E chunk \in ChunkRecipients(l) :
          /\ r \in ToSet(chunk.recipients)
          /\ m.key = [event |-> e, chunk |-> chunk.number,
                      recipients |-> ToSorted(chunk.recipients), workplaceId |-> Workplace[e]]
    BY <2>2, <2>3
  <2>5. PICK c \in ChunkRecipients(l) :
          /\ r \in ToSet(c.recipients)
          /\ m.key = [event |-> e, chunk |-> c.number,
                      recipients |-> ToSorted(c.recipients), workplaceId |-> Workplace[e]]
    BY <2>4
  <2>6. PICK k \in lists[e] : \E chunk \in ChunkRecipients(k) :
          /\ r \in ToSet(chunk.recipients)
          /\ n.key = [event |-> e, chunk |-> chunk.number,
                      recipients |-> ToSorted(chunk.recipients), workplaceId |-> Workplace[e]]
    BY <2>2, <2>3
  <2>7. PICK d \in ChunkRecipients(k) :
          /\ r \in ToSet(d.recipients)
          /\ n.key = [event |-> e, chunk |-> d.number,
                      recipients |-> ToSorted(d.recipients), workplaceId |-> Workplace[e]]
    BY <2>6
  <2>8. m.key # n.key
    BY <2>0, <2>2 DEF MemoryInv
  <2>9. \A x \in lists[e] : x \in Seq(ToSet(x)) /\ Len(x) \in Nat
    BY <2>0, ClientAssumption DEF JobsInv
  <2>10. CASE Len(l) <= MaxRecipientsCount /\ Len(k) <= MaxRecipientsCount
    <3>1. c.number = 1 /\ c.recipients = l /\ d.number = 1 /\ d.recipients = k
      BY <2>9, <2>10, ShortListIsOneChunk
    <3>2. ToSorted(l) # ToSorted(k)
      BY <2>5, <2>7, <2>8, <3>1
    <3>. QED  BY <3>2
  <2>11. CASE l = k /\ Len(l) > MaxRecipientsCount
    <3>1. c # d
      BY <2>5, <2>7, <2>8
    <3>2. NamesTwice(l, r)
      BY <2>5, <2>7, <2>9, <2>11, <3>1, ChunksShareNobody
    <3>. QED  BY <2>11, <3>2 DEF NamesTwice
  <2>12. CASE l # k /\ (Len(l) > MaxRecipientsCount \/ Len(k) > MaxRecipientsCount)
    BY <2>12
  <2>13. Len(l) \in Nat /\ Len(k) \in Nat /\ MaxRecipientsCount \in Nat
    BY <2>9, ClientAssumption
  <2>. QED  BY <2>10, <2>11, <2>12, <2>13
<1>. QED  BY <1>1, ClientInvariant, PTL

\* When enqueueOneOrMore has resolved, everyone on the list was told, or the event expired
\* or the job was a dry run, or a job for them is in the queue: no duplicate was taken for the only request.
THEOREM NobodyIsMissed == Spec => []NobodyMissed
<1>1. ClientInv => NobodyMissed
  BY DEF ClientInv, JobsInv, NobodyMissed, CaredFor
<1>. QED  BY <1>1, ClientInvariant, PTL
=============================================================================

--------------------------- MODULE NetworkBuilder ---------------------------
(***************************************************************************)
(* NetworkBuilder of packages/playwright-reporter-llm: the requests of one *)
(* attempt of a test, as its traces show them, under limits on groups (of  *)
(* requests of one shape), instances and bodies.  What is worth more to a  *)
(* reader evicts what is worth less, and finalize throws, which loses the  *)
(* network of the whole attempt, unless everything is accounted for.       *)
(*                                                                         *)
(* A shape stands for its fingerprint, hashShape being injective, and a    *)
(* body for its own.  Groups and instances are numbered as they come.      *)
(***************************************************************************)
EXTENDS Integers, FiniteSets, FiniteSetsExt, SequencesExt

CONSTANTS
  Shapes,        \* [url, status, resourceType, failure, wasAborted]
  Contexts,      \* what else is told of a request: its timings and identifiers
  Offered,       \* the observations that traces may hold
  Bodies,        \* contents of requests and responses
  NoBody,
  Offsets,       \* times of requests, in their attempt
  NoOffset,      \* an unknown time; it sorts after all others
  Urls,          \* where a request may be redirected
  NoUrl,
  GroupsCap, InstancesCap, BodiesCap,
  Threshold,     \* DUPLICATE_SAMPLE_THRESHOLD
  Stride,        \* DUPLICATE_SAMPLE_STRIDE
  MaxObserved    \* bound: requests of an attempt

VARIABLES
  groups,     \* per retained shape its group
  instances,  \* the retained instances
  bodies,     \* per retained body how many instances refer to it
  summary,    \* NetworkSummary
  redirects,  \* <<from, to>>: redirectToId and redirectFromId, once finalized
  finalized

builderVars == <<groups, instances, bodies, summary, redirects, finalized>>

Observation ==
  [shape : Shapes, context : Contexts, offset : Offsets \cup {NoOffset},
   requestBody : Bodies \cup {NoBody}, responseBody : Bodies \cup {NoBody},
   redirectTo : Urls \cup {NoUrl}]

ASSUME BuilderAssumption ==
  /\ Offered \subseteq Observation
  /\ NoBody \notin Bodies
  /\ Offsets \subseteq Nat /\ NoOffset \in Nat
  /\ GroupsCap \in Nat \ {0} /\ InstancesCap \in Nat \ {0} /\ BodiesCap \in Nat
  /\ Threshold \in Nat /\ Stride \in Nat \ {0}
  /\ MaxObserved \in Nat
  /\ NoUrl \notin Urls

EmptySummary ==
  [observed |-> 0, droppedByFilter |-> 0, droppedByGroupCap |-> 0, droppedByInstanceCap |-> 0,
   suppressed |-> 0, evicted |-> 0, bodiesOmitted |-> 0]

BuilderInit ==
  /\ groups = [s \in {} |-> {}] /\ instances = {} /\ bodies = [b \in {} |-> 0]
  /\ summary = EmptySummary
  /\ redirects = {} /\ finalized = FALSE

-----------------------------------------------------------------------------
LowSignalTypes == {"script", "stylesheet", "image", "font", "media"}

IsLowSignalStaticAsset(shape) ==
  /\ shape.resourceType \in LowSignalTypes
  /\ shape.status < 400
  /\ shape.failure = "none"
  /\ ~shape.wasAborted

PriorityScore(shape) ==
  CASE shape.status >= 500 -> 10
    [] shape.status < 500 /\ shape.failure = "error" -> 9
    [] shape.status \in 400 .. 499 /\ shape.failure # "error" -> 8
    [] shape.status < 400 /\ shape.failure # "error"
         /\ shape.resourceType \in {"xhr", "fetch"} -> 6
    [] OTHER -> IF shape.failure = "abort" \/ shape.status = -1 \/ shape.wasAborted THEN 4
                ELSE IF shape.resourceType = "none" THEN 3
                ELSE IF shape.resourceType \in LowSignalTypes THEN 1 ELSE 2

Earlier(a, b) == IF a < b THEN a ELSE b
Later(a, b) == IF a = NoOffset THEN b ELSE IF b = NoOffset \/ a > b THEN a ELSE b

-----------------------------------------------------------------------------
(* A builder as a value, and the class's private methods as functions of it. *)

Builder == [groups |-> groups, instances |-> instances, bodies |-> bodies, summary |-> summary]

Become(b) ==
  /\ groups' = b.groups /\ instances' = b.instances
  /\ bodies' = b.bodies /\ summary' = b.summary
  /\ UNCHANGED <<redirects, finalized>>

Count(b, bucket) == [b EXCEPT !.summary[bucket] = @ + 1]

InstancesOf(b, shape) == {i \in b.instances : i.shape = shape}

\* What is evicted first: the least worth, then the oldest, then the first.
LowestInstance(b, i) ==
  /\ i \in b.instances
  /\ \A j \in b.instances :
       \/ PriorityScore(i.shape) < PriorityScore(j.shape)
       \/ /\ PriorityScore(i.shape) = PriorityScore(j.shape)
          /\ i.offset < j.offset \/ (i.offset = j.offset /\ i.number <= j.number)

LowestGroup(b, s) ==
  /\ s \in DOMAIN b.groups
  /\ \A t \in DOMAIN b.groups :
       LET g == b.groups[s]
           h == b.groups[t]
       IN  \/ PriorityScore(s) < PriorityScore(t)
           \/ /\ PriorityScore(s) = PriorityScore(t)
              /\ g.first < h.first \/ (g.first = h.first /\ g.number <= h.number)

\* How often instances refer to a body: one does so twice when request and response are alike.
References(set, body) ==
  Cardinality({i \in set : i.requestBody = body}) +
  Cardinality({i \in set : i.responseBody = body})

\* Mutant: a body shared by request and response is counted down once.
DecrementOnce(refs, removed) ==
  LET left == [body \in DOMAIN refs |->
                 refs[body] -
                   Cardinality({i \in removed : body \in {i.requestBody, i.responseBody}})]
  IN  [body \in {y \in DOMAIN refs : left[y] > 0} |-> left[body]]

\* decrementBodyRef for the bodies of removed instances: a body goes with its last one.
DecrementBodyRefs(refs, removed) ==
  LET left == [body \in DOMAIN refs |-> refs[body] - References(removed, body)]
  IN  [body \in {y \in DOMAIN refs : left[y] > 0} |-> left[body]]

\* Instances are removed from their group; removeInstance, but for a group left empty.
RemoveInstances(b, removed, shape) ==
  [b EXCEPT !.instances = @ \ removed,
            !.bodies = DecrementBodyRefs(@, removed),
            !.groups[shape].evicted = @ + Cardinality(removed),
            !.summary.evicted = @ + Cardinality(removed)]

WithoutGroup(b, shape) == [b EXCEPT !.groups = [s \in DOMAIN @ \ {shape} |-> @[s]]]

\* Mutant: the instances of a group that is removed are not counted as evicted.
RemoveGroupUncounted(b, shape) ==
  WithoutGroup([b EXCEPT !.instances = @ \ InstancesOf(b, shape)], shape)

RemoveGroup(b, shape) == WithoutGroup(RemoveInstances(b, InstancesOf(b, shape), shape), shape)

RemoveInstance(b, i) ==
  LET c == RemoveInstances(b, {i}, i.shape)
  IN  IF InstancesOf(c, i.shape) = {} THEN WithoutGroup(c, i.shape) ELSE c

\* resolveOrAdmitBody: the reference one gets to a body.
Resolve(refs, body) ==
  IF body \in DOMAIN refs \/ Cardinality(DOMAIN refs) < BodiesCap THEN body ELSE NoBody

AddReference(refs, body) ==
  IF body = NoBody THEN refs
  ELSE [y \in DOMAIN refs \cup {body} |->
          (IF y \in DOMAIN refs THEN refs[y] ELSE 0) + (IF y = body THEN 1 ELSE 0)]

NewGroup(o, number) ==
  [number |-> number, first |-> o.offset, last |-> o.offset, seen |-> 1,
   occurrences |-> 0, suppressed |-> 0, evicted |-> 0]

\* commitGroup for a new shape, commitInstance and commitBodies.
Commit(b, o) ==
  LET number   == b.summary.observed
      shape    == o.shape
      group    == IF shape \in DOMAIN b.groups THEN b.groups[shape] ELSE NewGroup(o, number)
      request  == Resolve(b.bodies, o.requestBody)
      refs     == AddReference(b.bodies, request)
      response == Resolve(refs, o.responseBody)
      omitted  == (IF request = o.requestBody THEN 0 ELSE 1) +
                  (IF response = o.responseBody THEN 0 ELSE 1)
  IN  [b EXCEPT
         !.groups = [s \in DOMAIN @ \cup {shape} |->
           IF s = shape THEN [group EXCEPT !.occurrences = @ + 1] ELSE b.groups[s]],
         !.instances = @ \cup {[number |-> number, shape |-> shape, context |-> o.context,
                                offset |-> o.offset, redirectTo |-> o.redirectTo,
                                requestBody |-> request, responseBody |-> response]},
         !.bodies = AddReference(refs, response),
         !.summary.bodiesOmitted = @ + omitted]

-----------------------------------------------------------------------------
(* admit. *)

Observed == Count(Builder, "observed")

IsKnown(o) == o.shape \in DOMAIN groups

\* A repeated shape: from the fourth on only every tenth instance is kept.
IsSuppressed(o) ==
  LET k == groups[o.shape].seen + 1
  IN  k > Threshold /\ (k - Threshold) % Stride # 0

\* The group takes note of one more, whether it is kept or not.
SeenGroup(g, o) ==
  [g EXCEPT !.seen = @ + 1, !.first = Earlier(@, o.offset), !.last = Later(@, o.offset)]

Seen(b, o) == [b EXCEPT !.groups[o.shape] = SeenGroup(@, o)]

\* It does so too of one that is not kept.
SuppressedGroup(g) == [g EXCEPT !.suppressed = @ + 1, !.occurrences = @ + 1]

MayAdmit == ~finalized /\ summary.observed < MaxObserved

DropStaticAsset(o) ==
  /\ MayAdmit /\ IsLowSignalStaticAsset(o.shape)
  /\ Become(Count(Observed, "droppedByFilter"))

SuppressDuplicate(o) ==
  /\ MayAdmit /\ ~IsLowSignalStaticAsset(o.shape)
  /\ IsKnown(o) /\ IsSuppressed(o)
  /\ LET b == Count(Seen(Observed, o), "suppressed") IN
     Become([b EXCEPT !.groups[o.shape] = SuppressedGroup(@)])

\* Mutant: the instance is evicted for one that is worth as much.
WorthLessOrEqual(lowest, shape) == PriorityScore(lowest) <= PriorityScore(shape)

WorthLess(lowest, shape) == PriorityScore(lowest) < PriorityScore(shape)

\* There is room for an instance, or the lowest one makes room, or it is dropped.
ToInstances(b, o) ==
  \/ Cardinality(b.instances) < InstancesCap /\ Become(Commit(b, o))
  \/ /\ Cardinality(b.instances) >= InstancesCap
     /\ \E i \in b.instances :
          /\ LowestInstance(b, i)
          /\ \/ WorthLess(i.shape, o.shape) /\ Become(Commit(RemoveInstance(b, i), o))
             \/ ~WorthLess(i.shape, o.shape) /\ Become(Count(b, "droppedByInstanceCap"))

AdmitKnown(o) ==
  /\ MayAdmit /\ ~IsLowSignalStaticAsset(o.shape)
  /\ IsKnown(o) /\ ~IsSuppressed(o)
  /\ ToInstances(Seen(Observed, o), o)

AdmitNew(o) ==
  /\ MayAdmit /\ ~IsLowSignalStaticAsset(o.shape)
  /\ ~IsKnown(o)
  /\ \/ Cardinality(DOMAIN groups) < GroupsCap /\ ToInstances(Observed, o)
     \/ /\ Cardinality(DOMAIN groups) >= GroupsCap
        /\ \E s \in DOMAIN groups :
             /\ LowestGroup(Builder, s)
             /\ \/ WorthLess(s, o.shape) /\ ToInstances(RemoveGroup(Observed, s), o)
                \/ ~WorthLess(s, o.shape) /\ Become(Count(Observed, "droppedByGroupCap"))

-----------------------------------------------------------------------------
(* finalize. *)

\* sortInstances: in the order of time, then as they came.
Before(i, j) == i.offset < j.offset \/ (i.offset = j.offset /\ i.number < j.number)

\* A redirect goes to the next instance with its URL that none goes to.
Follow(all, links, i) ==
  LET free == {j \in all : /\ Before(i, j) /\ j.shape.url = i.redirectTo
                           /\ \A l \in links : l[2] # j}
      next == {j \in free : \A k \in free : ~Before(k, j)}
  IN  links \cup ({i} \X next)

Latest(set) == CHOOSE i \in set : \A j \in set \ {i} : Before(j, i)

\* annotateRedirects: the instances one after the other, the latest of some after the rest.
AnnotateRedirects(all) ==
  LET links[set \in SUBSET all] ==
        IF set = {} THEN {} ELSE Follow(all, links[set \ {Latest(set)}], Latest(set))
  IN  links[all]

\* assertInvariants, which throws otherwise: each observation is in one bucket, and each
\* occurrence of a shape is retained, suppressed or evicted.
AssertInvariants ==
  /\ summary.observed =
       Cardinality(instances) + summary.droppedByFilter + summary.droppedByGroupCap +
       summary.droppedByInstanceCap + summary.suppressed + summary.evicted
  /\ \A s \in DOMAIN groups :
       groups[s].occurrences =
         Cardinality(InstancesOf(Builder, s)) + groups[s].suppressed + groups[s].evicted

Finalize ==
  /\ ~finalized
  /\ finalized' = TRUE
  /\ redirects' = IF AssertInvariants THEN AnnotateRedirects(instances) ELSE {}
  /\ UNCHANGED <<groups, instances, bodies, summary>>

BuilderNext ==
  \/ \E o \in Offered : DropStaticAsset(o) \/ SuppressDuplicate(o) \/ AdmitKnown(o) \/ AdmitNew(o)
  \/ Finalize

BuilderSpec == BuilderInit /\ [][BuilderNext]_builderVars

-----------------------------------------------------------------------------
\* The groups are those of the instances, and the references of instances to bodies lead
\* somewhere and are counted: nothing that is gone is pointed at, nothing stays for nobody.
NothingDangles ==
  /\ DOMAIN groups = {i.shape : i \in instances}
  /\ \A i \in instances : {i.requestBody, i.responseBody} \subseteq DOMAIN bodies \cup {NoBody}
  /\ \A y \in DOMAIN bodies :
       bodies[y] > 0 /\ bodies[y] = References(instances, y)

WithinCaps ==
  /\ Cardinality(instances) <= InstancesCap
  /\ Cardinality(DOMAIN groups) <= GroupsCap
  /\ Cardinality(DOMAIN bodies) <= BodiesCap

\* A redirect leads to a later request of its URL, and no request is led to twice, or
\* from twice, even when the requests of several traces came out of order.
RedirectsGoForward ==
  \A l \in redirects :
    /\ Before(l[1], l[2]) /\ l[2].shape.url = l[1].redirectTo
    /\ \A m \in redirects : (m[1] = l[1] <=> m[2] = l[2])

\* finalize would not throw at any time.
Accounted == AssertInvariants

\* What an instance tells is all of one request: a body may be omitted, but the time, the
\* identifiers and the bodies are never those of another request of its shape.
TellsOf(i, o) ==
  /\ o.shape = i.shape /\ o.context = i.context
  /\ o.offset = i.offset /\ o.redirectTo = i.redirectTo
  /\ i.requestBody \in {o.requestBody, NoBody} /\ i.responseBody \in {o.responseBody, NoBody}

EachTellsOfItself == \A i \in instances : \E o \in Offered : TellsOf(i, o)

NetworkReportIsConsistent ==
  Accounted /\ NothingDangles /\ WithinCaps /\ RedirectsGoForward /\ EachTellsOfItself

\* The limits never cost a request that is worth more than one that stays: what is
\* evicted is worth no more than all that is left, and less than the newcomer.
KeepsTheWorst ==
  [][\A i \in instances \ instances' :
       /\ \A j \in instances' : PriorityScore(i.shape) <= PriorityScore(j.shape)
       /\ \E j \in instances' \ instances : PriorityScore(i.shape) < PriorityScore(j.shape)
    ]_builderVars
=============================================================================

-------------------------- MODULE Reporter_proofs --------------------------
(***************************************************************************)
(* Theorems about the reporter of packages/playwright-reporter-llm.        *)
(*                                                                         *)
(* NetworkBuilder, for any requests and any limits: it always accounts for *)
(* what it was told, so that finalize does not throw; what it evicts is    *)
(* never worth more than what it keeps; and what it says is consistent.    *)
(*                                                                         *)
(* LlmReporter, for any tests and any runs, those that die included: the   *)
(* report that a run leaves is of what happened in it.                     *)
(*                                                                         *)
(* ClientLifecycle, for any attachments: the records of the browser are    *)
(* joined to the requests they belong to, and those that are lost on the   *)
(* way are admitted, the least telling ones first.                         *)
(*                                                                         *)
(* TraceDiagnostics, for any traces, damaged ones included: what the       *)
(* report tells of them is the first warnings and errors in their order, a *)
(* failure if there was one, and a timeline that lacks nothing.            *)
(***************************************************************************)
EXTENDS TraceDiagnostics, LlmReporter, Lists_proofs

USE BuilderAssumption

GroupRecords ==
  [number : Nat, first : Nat, last : Nat, seen : Nat,
   occurrences : Nat, suppressed : Nat, evicted : Nat]

SummaryRecords ==
  [observed : Nat, droppedByFilter : Nat, droppedByGroupCap : Nat, droppedByInstanceCap : Nat,
   suppressed : Nat, evicted : Nat, bodiesOmitted : Nat]

Typed(b) ==
  /\ DOMAIN b = {"groups", "instances", "bodies", "summary"}
  /\ b.groups \in [DOMAIN b.groups -> GroupRecords]
  /\ b.summary \in SummaryRecords
  /\ IsFiniteSet(b.instances)

\* The groups are those of the instances.
Housed(b) ==
  /\ \A i \in b.instances : i.shape \in DOMAIN b.groups
  /\ \A s \in DOMAIN b.groups : \E i \in b.instances : i.shape = s

OccurrencesAddUp(b) ==
  \A s \in DOMAIN b.groups :
    b.groups[s].occurrences =
      Cardinality(InstancesOf(b, s)) + b.groups[s].suppressed + b.groups[s].evicted

\* The requests that are in one of the buckets.
Terminal(b) ==
  Cardinality(b.instances) + b.summary.droppedByFilter + b.summary.droppedByGroupCap +
  b.summary.droppedByInstanceCap + b.summary.suppressed + b.summary.evicted

NumbersBelow(b, n) == \A i \in b.instances : i.number \in Nat /\ i.number < n

Sound(b) ==
  /\ Typed(b) /\ Housed(b) /\ OccurrencesAddUp(b)
  /\ Cardinality(b.instances) <= InstancesCap

\* A builder that has seen a request which is in no bucket yet.
Pending(b) ==
  Sound(b) /\ b.summary.observed = Terminal(b) + 1 /\ NumbersBelow(b, b.summary.observed)

\* The inductive invariant.
BuilderInv ==
  /\ Sound(Builder)
  /\ summary.observed = Terminal(Builder)
  /\ NumbersBelow(Builder, summary.observed + 1)

-----------------------------------------------------------------------------
(* What the private methods do to a sound builder. *)

\* The instances of a shape are finite in number.
LEMMA InstancesOfFinite ==
  ASSUME NEW b, IsFiniteSet(b.instances), NEW s
  PROVE  /\ InstancesOf(b, s) \subseteq b.instances
         /\ IsFiniteSet(InstancesOf(b, s)) /\ Cardinality(InstancesOf(b, s)) \in Nat
<1>1. InstancesOf(b, s) \subseteq b.instances
  BY DEF InstancesOf
<1>2. QED
  BY <1>1, FS_Subset, FS_CardinalityType

\* removeInstance moves instances of one group to the bucket of evicted ones.
LEMMA RemoveInstancesSound ==
  ASSUME NEW b, Typed(b), OccurrencesAddUp(b), NEW s \in DOMAIN b.groups,
         NEW removed \in SUBSET InstancesOf(b, s)
  PROVE  LET c == RemoveInstances(b, removed, s) IN
         /\ Typed(c) /\ OccurrencesAddUp(c)
         /\ c.instances = b.instances \ removed
         /\ DOMAIN c.groups = DOMAIN b.groups
         /\ Terminal(c) = Terminal(b) /\ c.summary.observed = b.summary.observed
<1> DEFINE c == RemoveInstances(b, removed, s)
           n == Cardinality(removed)
<1>1. /\ IsFiniteSet(removed) /\ n \in Nat /\ removed \subseteq b.instances
  BY InstancesOfFinite, FS_Subset, FS_CardinalityType DEF Typed
<1>2. /\ IsFiniteSet(b.instances \ removed)
      /\ Cardinality(b.instances \ removed) = Cardinality(b.instances) - n
      /\ Cardinality(b.instances) \in Nat /\ Cardinality(b.instances \ removed) \in Nat
  <2>1. b.instances \cap removed = removed
    BY <1>1
  <2>2. QED
    BY <2>1, <1>1, FS_Difference, FS_CardinalityType DEF Typed
<1>3. /\ c.instances = b.instances \ removed
      /\ c.groups = [b.groups EXCEPT ![s].evicted = @ + n]
      /\ c.summary = [b.summary EXCEPT !.evicted = @ + n]
      /\ DOMAIN c = {"groups", "instances", "bodies", "summary"}
  BY DEF RemoveInstances, Typed
<1> HIDE DEF c, n
<1>4. /\ DOMAIN c.groups = DOMAIN b.groups
      /\ c.groups \in [DOMAIN c.groups -> GroupRecords]
      /\ c.summary \in SummaryRecords
      /\ c.summary.observed = b.summary.observed
  BY <1>1, <1>3 DEF Typed, GroupRecords, SummaryRecords
<1>5. Typed(c)
  BY <1>2, <1>3, <1>4 DEF Typed
<1>6. ASSUME NEW t \in DOMAIN c.groups
      PROVE  c.groups[t].occurrences =
               Cardinality(InstancesOf(c, t)) + c.groups[t].suppressed + c.groups[t].evicted
  <2>1. CASE t # s
    <3>1. InstancesOf(c, t) = InstancesOf(b, t)
      BY <1>3, <2>1 DEF InstancesOf
    <3>2. c.groups[t] = b.groups[t]
      BY <1>3, <1>4, <2>1
    <3>3. QED
      BY <3>1, <3>2, <1>4 DEF OccurrencesAddUp
  <2>2. CASE t = s
    <3>1. InstancesOf(c, s) = InstancesOf(b, s) \ removed
      BY <1>3 DEF InstancesOf
    <3>2. /\ Cardinality(InstancesOf(c, s)) = Cardinality(InstancesOf(b, s)) - n
          /\ Cardinality(InstancesOf(b, s)) \in Nat
      <4>1. InstancesOf(b, s) \cap removed = removed
        OBVIOUS
      <4>2. QED
        BY <3>1, <4>1, InstancesOfFinite, FS_Difference DEF Typed, n
    <3>3. /\ c.groups[s].occurrences = b.groups[s].occurrences
          /\ c.groups[s].suppressed = b.groups[s].suppressed
          /\ c.groups[s].evicted = b.groups[s].evicted + n
          /\ b.groups[s] \in GroupRecords
      BY <1>3 DEF Typed, GroupRecords
    <3>4. QED
      BY <2>2, <3>2, <3>3, <1>1 DEF OccurrencesAddUp, GroupRecords
  <2>3. QED
    BY <2>1, <2>2
<1>7. Terminal(c) = Terminal(b)
  BY <1>1, <1>2, <1>3 DEF Terminal, Typed, SummaryRecords
<1>8. QED
  BY <1>3, <1>4, <1>5, <1>6, <1>7 DEF OccurrencesAddUp, c

\* A group without instances can be taken away, and then the others are those of them.
LEMMA WithoutGroupSound ==
  ASSUME NEW b, Typed(b), OccurrencesAddUp(b), NEW s
  PROVE  LET c == WithoutGroup(b, s) IN
         /\ Typed(c) /\ OccurrencesAddUp(c)
         /\ c.instances = b.instances /\ DOMAIN c.groups = DOMAIN b.groups \ {s}
         /\ Terminal(c) = Terminal(b) /\ c.summary.observed = b.summary.observed
<1> DEFINE c == WithoutGroup(b, s)
<1>1. /\ c.instances = b.instances /\ c.summary = b.summary
      /\ c.groups = [t \in DOMAIN b.groups \ {s} |-> b.groups[t]]
      /\ DOMAIN c = {"groups", "instances", "bodies", "summary"}
  BY DEF WithoutGroup, Typed
<1> HIDE DEF c
<1>2. Typed(c)
  BY <1>1 DEF Typed
<1>3. OccurrencesAddUp(c)
  BY <1>1 DEF OccurrencesAddUp, InstancesOf
<1>4. QED
  BY <1>1, <1>2, <1>3 DEF Terminal, c

\* removeGroup: its instances go with it, and it had one at least.
LEMMA RemoveGroupSound ==
  ASSUME NEW b, Pending(b), NEW s \in DOMAIN b.groups
  PROVE  LET c == RemoveGroup(b, s) IN
         /\ Pending(c) /\ Cardinality(c.instances) < InstancesCap
         /\ c.instances = b.instances \ InstancesOf(b, s)
         /\ c.summary.observed = b.summary.observed
<1> DEFINE removed == InstancesOf(b, s)
           a == RemoveInstances(b, removed, s)
           c == RemoveGroup(b, s)
<1>1. /\ Typed(a) /\ OccurrencesAddUp(a) /\ a.instances = b.instances \ removed
      /\ DOMAIN a.groups = DOMAIN b.groups
      /\ Terminal(a) = Terminal(b) /\ a.summary.observed = b.summary.observed
  BY RemoveInstancesSound DEF Pending, Sound
<1>2. c = WithoutGroup(a, s)
  BY DEF RemoveGroup
<1> HIDE DEF a, c
<1>3. /\ Typed(c) /\ OccurrencesAddUp(c) /\ c.instances = b.instances \ removed
      /\ DOMAIN c.groups = DOMAIN b.groups \ {s}
      /\ Terminal(c) = Terminal(b) /\ c.summary.observed = b.summary.observed
  BY <1>1, <1>2, WithoutGroupSound
<1>4. Housed(c)
  BY <1>3 DEF Pending, Sound, Housed, InstancesOf
<1>5. Cardinality(c.instances) < Cardinality(b.instances) /\ Cardinality(b.instances) \in Nat
  <2>1. PICK i \in b.instances : i \in removed
    BY DEF Pending, Sound, Housed, InstancesOf
  <2>2. c.instances \in SUBSET b.instances /\ c.instances # b.instances
    BY <1>3, <2>1
  <2>3. QED
    BY <2>2, FS_Subset, FS_CardinalityType DEF Pending, Sound, Typed
<1>6. NumbersBelow(c, c.summary.observed)
  BY <1>3 DEF Pending, NumbersBelow
<1>7. Cardinality(c.instances) \in Nat /\ Cardinality(c.instances) < InstancesCap
  BY <1>3, <1>5, FS_CardinalityType DEF Pending, Sound, Typed
<1>8. QED
  BY <1>3, <1>4, <1>6, <1>7 DEF Pending, Sound, c

\* removeInstance: its group goes with the last instance.
LEMMA RemoveInstanceSound ==
  ASSUME NEW b, Pending(b), NEW i \in b.instances
  PROVE  LET c == RemoveInstance(b, i) IN
         /\ Pending(c) /\ Cardinality(c.instances) < InstancesCap
         /\ c.instances = b.instances \ {i}
         /\ c.summary.observed = b.summary.observed
<1> DEFINE a == RemoveInstances(b, {i}, i.shape)
           c == RemoveInstance(b, i)
<1>1. i.shape \in DOMAIN b.groups /\ {i} \in SUBSET InstancesOf(b, i.shape)
  BY DEF Pending, Sound, Housed, InstancesOf
<1>2. /\ Typed(a) /\ OccurrencesAddUp(a) /\ a.instances = b.instances \ {i}
      /\ DOMAIN a.groups = DOMAIN b.groups
      /\ Terminal(a) = Terminal(b) /\ a.summary.observed = b.summary.observed
  BY <1>1, RemoveInstancesSound DEF Pending, Sound
<1>3. c = IF InstancesOf(a, i.shape) = {} THEN WithoutGroup(a, i.shape) ELSE a
  BY DEF RemoveInstance
<1> HIDE DEF a, c
<1>4. /\ Typed(c) /\ OccurrencesAddUp(c) /\ c.instances = b.instances \ {i}
      /\ DOMAIN c.groups = IF InstancesOf(a, i.shape) = {} THEN DOMAIN b.groups \ {i.shape}
                                                          ELSE DOMAIN b.groups
      /\ Terminal(c) = Terminal(b) /\ c.summary.observed = b.summary.observed
  <2>1. CASE InstancesOf(a, i.shape) = {}
    BY <1>2, <1>3, <2>1, WithoutGroupSound
  <2>2. CASE InstancesOf(a, i.shape) # {}
    BY <1>2, <1>3, <2>2
  <2>3. QED
    BY <2>1, <2>2
<1>5. Housed(c)
  <2>1. \A j \in b.instances : j.shape \in DOMAIN b.groups
    BY DEF Pending, Sound, Housed
  <2>2. ASSUME NEW t \in DOMAIN c.groups
        PROVE  \E j \in c.instances : j.shape = t
    <3>1. CASE t = i.shape
      BY <3>1, <1>2, <1>4 DEF InstancesOf
    <3>2. CASE t # i.shape
      BY <3>2, <1>4 DEF Pending, Sound, Housed
    <3>3. QED
      BY <3>1, <3>2
  <2>3. \A j \in c.instances : j.shape \in DOMAIN c.groups
    BY <1>2, <1>4, <2>1 DEF InstancesOf
  <2>4. QED
    BY <2>2, <2>3 DEF Housed
<1>6. /\ Cardinality(c.instances) = Cardinality(b.instances) - 1
      /\ Cardinality(b.instances) \in Nat
  BY <1>4, FS_RemoveElement, FS_CardinalityType DEF Pending, Sound, Typed
<1>7. NumbersBelow(c, c.summary.observed)
  BY <1>4 DEF Pending, NumbersBelow
<1>8. QED
  BY <1>4, <1>5, <1>6, <1>7 DEF Pending, Sound, c

\* commitGroup, commitInstance and commitBodies: one instance more, of the shape observed.
LEMMA CommitSound ==
  ASSUME NEW b, Pending(b), Cardinality(b.instances) < InstancesCap, NEW o \in Offered
  PROVE  LET c == Commit(b, o) IN
         /\ Sound(c) /\ c.summary.observed = Terminal(c)
         /\ NumbersBelow(c, c.summary.observed + 1)
         /\ \E j : /\ j \notin b.instances /\ j.number = b.summary.observed
                   /\ j.shape = o.shape /\ c.instances = b.instances \cup {j}
<1> DEFINE number == b.summary.observed
           group == IF o.shape \in DOMAIN b.groups THEN b.groups[o.shape]
                                                   ELSE NewGroup(o, number)
           request == Resolve(b.bodies, o.requestBody)
           response == Resolve(AddReference(b.bodies, request), o.responseBody)
           j == [number |-> number, shape |-> o.shape, context |-> o.context,
                 offset |-> o.offset, redirectTo |-> o.redirectTo,
                 requestBody |-> request, responseBody |-> response]
           omitted == (IF request = o.requestBody THEN 0 ELSE 1) +
                      (IF response = o.responseBody THEN 0 ELSE 1)
           c == Commit(b, o)
<1>1. /\ c.instances = b.instances \cup {j}
      /\ c.groups = [s \in DOMAIN b.groups \cup {o.shape} |->
                       IF s = o.shape THEN [group EXCEPT !.occurrences = @ + 1] ELSE b.groups[s]]
      /\ c.summary = [b.summary EXCEPT !.bodiesOmitted = @ + omitted]
      /\ DOMAIN c = {"groups", "instances", "bodies", "summary"}
  BY DEF Commit, Pending, Sound, Typed
<1>2. omitted \in Nat
  OBVIOUS
<1>3. j.number = number /\ j.shape = o.shape
  OBVIOUS
<1>4. j \notin b.instances /\ number \in Nat
  BY <1>3 DEF Pending, Sound, NumbersBelow, Typed, SummaryRecords
<1>5. group \in GroupRecords
  BY <1>4 DEF Pending, Sound, Typed, NewGroup, GroupRecords, Observation
<1> HIDE DEF number, j, omitted, c, group
<1>6. /\ IsFiniteSet(c.instances) /\ Cardinality(c.instances) = Cardinality(b.instances) + 1
      /\ Cardinality(b.instances) \in Nat
  BY <1>1, <1>4, FS_AddElement, FS_CardinalityType DEF Pending, Sound, Typed
<1>7. /\ c.summary \in SummaryRecords /\ c.summary.observed = number
      /\ Terminal(c) = Terminal(b) + 1
  BY <1>1, <1>2, <1>6 DEF Pending, Sound, Typed, SummaryRecords, Terminal, number
<1>8. c.groups \in [DOMAIN c.groups -> GroupRecords]
  BY <1>1, <1>5 DEF Pending, Sound, Typed, GroupRecords
<1>9. Housed(c)
  BY <1>1, <1>3 DEF Pending, Sound, Housed
<1>10. ASSUME NEW t \in DOMAIN c.groups
       PROVE  c.groups[t].occurrences =
                Cardinality(InstancesOf(c, t)) + c.groups[t].suppressed + c.groups[t].evicted
  <2>1. CASE t # o.shape
    <3>1. InstancesOf(c, t) = InstancesOf(b, t)
      BY <1>1, <1>3, <2>1 DEF InstancesOf
    <3>2. c.groups[t] = b.groups[t] /\ t \in DOMAIN b.groups
      BY <1>1, <2>1
    <3>3. QED
      BY <3>1, <3>2 DEF Pending, Sound, OccurrencesAddUp
  <2>2. CASE t = o.shape
    <3>1. InstancesOf(c, t) = InstancesOf(b, t) \cup {j}
      BY <1>1, <1>3, <2>2 DEF InstancesOf
    <3>2. /\ Cardinality(InstancesOf(c, t)) = Cardinality(InstancesOf(b, t)) + 1
          /\ Cardinality(InstancesOf(b, t)) \in Nat
      BY <3>1, <1>4, InstancesOfFinite, FS_AddElement DEF Pending, Sound, Typed
    <3>3. group.occurrences =
            Cardinality(InstancesOf(b, t)) + group.suppressed + group.evicted
      <4>1. CASE t \in DOMAIN b.groups
        BY <4>1, <2>2 DEF Pending, Sound, OccurrencesAddUp, group
      <4>2. CASE t \notin DOMAIN b.groups
        <5>1. InstancesOf(b, t) = {}
          BY <4>2 DEF Pending, Sound, Housed, InstancesOf
        <5>2. QED
          BY <5>1, <4>2, <2>2, FS_EmptySet DEF group, NewGroup
      <4>3. QED
        BY <4>1, <4>2
    <3>4. QED
      BY <1>1, <1>5, <2>2, <3>2, <3>3 DEF GroupRecords
  <2>3. QED
    BY <2>1, <2>2
<1>11. NumbersBelow(c, c.summary.observed + 1)
  BY <1>1, <1>3, <1>4, <1>7 DEF Pending, NumbersBelow, number
<1>12. Sound(c)
  <2>1. Typed(c)
    BY <1>1, <1>6, <1>7, <1>8 DEF Typed
  <2>2. OccurrencesAddUp(c)
    BY <1>10 DEF OccurrencesAddUp
  <2>3. Cardinality(c.instances) <= InstancesCap
    BY <1>6
  <2>4. QED
    BY <1>9, <2>1, <2>2, <2>3 DEF Sound
<1>13. c.summary.observed = Terminal(c)
  BY <1>7 DEF Pending, number
<1>14. QED
  BY <1>1, <1>3, <1>4, <1>11, <1>12, <1>13 DEF c, number

-----------------------------------------------------------------------------
(* The steps of admit. *)

\* The fields of the builder are those of its next value.
LEMMA BecomeSound ==
  ASSUME NEW c, Sound(c), c.summary.observed = Terminal(c),
         NumbersBelow(c, c.summary.observed + 1), Become(c)
  PROVE  BuilderInv' /\ instances' = c.instances
<1>1. /\ Builder'.groups = c.groups /\ Builder'.instances = c.instances
      /\ Builder'.summary = c.summary /\ summary' = c.summary
      /\ DOMAIN Builder' = {"groups", "instances", "bodies", "summary"}
  BY DEF Become, Builder
<1>2. Typed(Builder)'
  BY <1>1 DEF Sound, Typed
<1>3. Housed(Builder)'
  BY <1>1 DEF Sound, Housed
<1>4. OccurrencesAddUp(Builder)'
  BY <1>1 DEF Sound, OccurrencesAddUp, InstancesOf
<1>5. Terminal(Builder)' = Terminal(c)
  BY <1>1 DEF Terminal
<1>6. NumbersBelow(Builder, summary.observed + 1)'
  BY <1>1 DEF NumbersBelow
<1>7. (Cardinality(Builder.instances) <= InstancesCap)'
  BY <1>1 DEF Sound
<1>8. QED
  BY <1>1, <1>2, <1>3, <1>4, <1>5, <1>6, <1>7 DEF BuilderInv, Sound, Become

\* A request that is dropped is in its bucket.
LEMMA CountSound ==
  ASSUME NEW b, Pending(b),
         NEW bucket \in {"droppedByFilter", "droppedByGroupCap", "droppedByInstanceCap"},
         Become(Count(b, bucket))
  PROVE  BuilderInv' /\ instances' = b.instances
<1>1. PICK c : c = Count(b, bucket)
  OBVIOUS
<1>2. /\ c.instances = b.instances /\ c.groups = b.groups
      /\ c.summary = [b.summary EXCEPT ![bucket] = @ + 1]
      /\ DOMAIN c = {"groups", "instances", "bodies", "summary"}
  BY <1>1 DEF Count, Pending, Sound, Typed
<1>3. /\ c.summary \in SummaryRecords /\ c.summary.observed = b.summary.observed
      /\ Terminal(c) = Terminal(b) + 1
  <2>1. Cardinality(b.instances) \in Nat
    BY FS_CardinalityType DEF Pending, Sound, Typed
  <2>2. QED
    BY <1>2, <2>1 DEF Pending, Sound, Typed, SummaryRecords, Terminal
<1>4. Sound(c)
  BY <1>2, <1>3 DEF Pending, Sound, Typed, Housed, OccurrencesAddUp, InstancesOf
<1>5. NumbersBelow(c, c.summary.observed + 1)
  BY <1>2, <1>3 DEF Pending, NumbersBelow, SummaryRecords
<1>6. BuilderInv' /\ instances' = c.instances
  BY <1>1, <1>3, <1>4, <1>5, BecomeSound DEF Pending
<1>7. QED
  BY <1>2, <1>6

\* A new instance of the shape observed.
IsNewcomer(j, b, o) == j \notin b.instances /\ j.shape = o.shape

\* There was no room for the request, or there was, or the lowest instance made room.
ToInstancesEffect(b, o) ==
  \/ instances' = b.instances /\ Cardinality(b.instances) >= InstancesCap
  \/ \E j : IsNewcomer(j, b, o) /\ instances' = b.instances \cup {j}
  \/ \E i \in b.instances : \E j :
       /\ LowestInstance(b, i) /\ WorthLess(i.shape, o.shape)
       /\ IsNewcomer(j, b, o) /\ instances' = (b.instances \ {i}) \cup {j}

LEMMA ToInstancesSound ==
  ASSUME NEW b, Pending(b), NEW o \in Offered, ToInstances(b, o)
  PROVE  BuilderInv' /\ ToInstancesEffect(b, o)
<1>1. CASE Cardinality(b.instances) < InstancesCap /\ Become(Commit(b, o))
  <2>1. PICK c : c = Commit(b, o)
    OBVIOUS
  <2>2. /\ Sound(c) /\ c.summary.observed = Terminal(c)
        /\ NumbersBelow(c, c.summary.observed + 1)
        /\ \E j : j \notin b.instances /\ j.shape = o.shape /\ c.instances = b.instances \cup {j}
    BY <1>1, <2>1, CommitSound
  <2>3. BuilderInv' /\ instances' = c.instances
    BY <1>1, <2>1, <2>2, BecomeSound
  <2>4. QED
    BY <2>2, <2>3 DEF ToInstancesEffect, IsNewcomer
<1>2. ASSUME Cardinality(b.instances) >= InstancesCap, NEW i \in b.instances,
             LowestInstance(b, i), WorthLess(i.shape, o.shape),
             Become(Commit(RemoveInstance(b, i), o))
      PROVE  BuilderInv' /\ ToInstancesEffect(b, o)
  <2>1. PICK a : a = RemoveInstance(b, i)
    OBVIOUS
  <2>2. PICK c : c = Commit(a, o)
    OBVIOUS
  <2>3. /\ Pending(a) /\ Cardinality(a.instances) < InstancesCap
        /\ a.instances = b.instances \ {i} /\ a.summary.observed = b.summary.observed
    BY <2>1, RemoveInstanceSound
  <2>4. /\ Sound(c) /\ c.summary.observed = Terminal(c)
        /\ NumbersBelow(c, c.summary.observed + 1)
        /\ \E j : /\ j \notin a.instances /\ j.number = a.summary.observed
                  /\ j.shape = o.shape /\ c.instances = a.instances \cup {j}
    <3>1. LET d == Commit(a, o) IN
          /\ Sound(d) /\ d.summary.observed = Terminal(d)
          /\ NumbersBelow(d, d.summary.observed + 1)
          /\ \E j : /\ j \notin a.instances /\ j.number = a.summary.observed
                    /\ j.shape = o.shape /\ d.instances = a.instances \cup {j}
      BY <2>3, CommitSound
    <3>2. QED
      BY <2>2, <3>1
  <2>5. PICK j : /\ j.number = a.summary.observed /\ j.shape = o.shape
                 /\ c.instances = a.instances \cup {j}
    BY <2>4
  <2>6. BuilderInv' /\ instances' = c.instances
    BY <1>2, <2>1, <2>2, <2>4, BecomeSound
  <2>7. j \notin b.instances
    <3>1. b.summary.observed \in Nat
      BY DEF Pending, Sound, Typed, SummaryRecords
    <3>2. QED
      BY <2>3, <2>5, <3>1 DEF Pending, NumbersBelow
  <2>8. QED
    BY <1>2, <2>3, <2>5, <2>6, <2>7 DEF ToInstancesEffect, IsNewcomer
<1>3. CASE Cardinality(b.instances) >= InstancesCap /\ Become(Count(b, "droppedByInstanceCap"))
  BY <1>3, CountSound DEF ToInstancesEffect
<1>4. QED
  BY <1>1, <1>2, <1>3 DEF ToInstances

\* A builder that has just been told of a request.
LEMMA ObservedPending ==
  ASSUME BuilderInv
  PROVE  /\ Pending(Observed) /\ Observed.instances = instances /\ Observed.groups = groups
         /\ Observed.bodies = bodies /\ Observed.summary = [summary EXCEPT !.observed = @ + 1]
<1>1. /\ Observed.instances = instances /\ Observed.groups = groups
      /\ Observed.bodies = bodies /\ Observed.summary = [summary EXCEPT !.observed = @ + 1]
      /\ DOMAIN Observed = {"groups", "instances", "bodies", "summary"}
  BY DEF Observed, Count, Builder
<1>2. /\ Builder.instances = instances /\ Builder.groups = groups /\ Builder.summary = summary
  BY DEF Builder
<1> HIDE DEF Observed
<1>3. Sound(Observed)
  BY <1>1, <1>2
     DEF BuilderInv, Sound, Typed, Housed, OccurrencesAddUp, InstancesOf, SummaryRecords
<1>4. Terminal(Observed) = Terminal(Builder) /\ Observed.summary.observed = summary.observed + 1
  BY <1>1, <1>2 DEF BuilderInv, Sound, Typed, SummaryRecords, Terminal
<1>5. QED
  BY <1>1, <1>2, <1>3, <1>4 DEF BuilderInv, Pending, NumbersBelow

\* A group that counts a request without keeping it is still a group.
LEMMA SuppressedGroupType ==
  ASSUME NEW r \in GroupRecords
  PROVE  LET g == SuppressedGroup(r) IN
         /\ g \in GroupRecords /\ g.evicted = r.evicted
         /\ g.occurrences = r.occurrences + 1 /\ g.suppressed = r.suppressed + 1
<1>1. PICK q : q = [r EXCEPT !.suppressed = @ + 1]
  OBVIOUS
<1>2. q \in GroupRecords
  BY <1>1 DEF GroupRecords
<1>3. [q EXCEPT !.occurrences = @ + 1] \in GroupRecords
  BY <1>2 DEF GroupRecords
<1>4. SuppressedGroup(r) = [q EXCEPT !.occurrences = @ + 1]
  BY <1>1 DEF GroupRecords, SuppressedGroup
<1>5. QED
  BY <1>1, <1>2, <1>3, <1>4 DEF GroupRecords

\* The same of one that notes when it was seen.
LEMMA SeenGroupType ==
  ASSUME NEW r \in GroupRecords, NEW o, o.offset \in Nat
  PROVE  LET g == SeenGroup(r, o) IN
         /\ g \in GroupRecords /\ g.occurrences = r.occurrences
         /\ g.suppressed = r.suppressed /\ g.evicted = r.evicted
<1>1. PICK f \in Nat, l \in Nat : 
              f = Earlier(r.first, o.offset) /\ l = Later(r.last, o.offset)
  BY DEF GroupRecords, Earlier, Later
<1>2. PICK p : p = [r EXCEPT !.seen = @ + 1]
  OBVIOUS
<1>3. PICK q : q = [p EXCEPT !.first = f]
  OBVIOUS
<1>4. p \in GroupRecords
  BY <1>2 DEF GroupRecords
<1>5. q \in GroupRecords
  BY <1>3, <1>4 DEF GroupRecords
<1>6. [q EXCEPT !.last = l] \in GroupRecords
  BY <1>5 DEF GroupRecords
<1>7. SeenGroup(r, o) = [q EXCEPT !.last = l]
  BY <1>1, <1>2, <1>3 DEF GroupRecords, SeenGroup
<1>8. QED
  BY <1>2, <1>3, <1>4, <1>5, <1>6, <1>7 DEF GroupRecords

\* The group of a known shape takes note of one more.
LEMMA SeenPending ==
  ASSUME NEW b, Pending(b), NEW o \in Offered, o.shape \in DOMAIN b.groups
  PROVE  LET c == Seen(b, o) IN
         /\ Pending(c) /\ c.instances = b.instances /\ DOMAIN c.groups = DOMAIN b.groups
<1> DEFINE c == Seen(b, o)
           g == b.groups[o.shape]
           h == SeenGroup(g, o)
<1>1. /\ c.instances = b.instances /\ c.summary = b.summary
      /\ c.groups = [b.groups EXCEPT ![o.shape] = h]
      /\ DOMAIN c = {"groups", "instances", "bodies", "summary"}
  <2>1. DOMAIN b = {"groups", "instances", "bodies", "summary"}
    BY DEF Pending, Sound, Typed
  <2>2. c = [b EXCEPT !.groups[o.shape] = h]
    BY DEF Seen
  <2> HIDE DEF c, h
  <2>3. QED
    BY <2>1, <2>2
<1>2. g \in GroupRecords /\ o.offset \in Nat
  BY DEF Pending, Sound, Typed, Observation
<1>3. /\ h \in GroupRecords /\ h.occurrences = g.occurrences
      /\ h.suppressed = g.suppressed /\ h.evicted = g.evicted
  BY <1>2, SeenGroupType
<1> HIDE DEF c, h
<1>4. Typed(c) /\ DOMAIN c.groups = DOMAIN b.groups
  BY <1>1, <1>3 DEF Pending, Sound, Typed
<1>5. ASSUME NEW t \in DOMAIN c.groups
      PROVE  c.groups[t].occurrences =
               Cardinality(InstancesOf(c, t)) + c.groups[t].suppressed + c.groups[t].evicted
  <2>1. InstancesOf(c, t) = InstancesOf(b, t)
    BY <1>1 DEF InstancesOf
  <2>2. QED
    BY <1>1, <1>3, <1>4, <2>1 DEF Pending, Sound, OccurrencesAddUp
<1>6. Sound(c)
  BY <1>1, <1>4, <1>5 DEF Pending, Sound, Housed, OccurrencesAddUp
<1>7. Terminal(c) = Terminal(b)
  BY <1>1 DEF Terminal
<1>8. QED
  BY <1>1, <1>4, <1>6, <1>7 DEF Pending, NumbersBelow, c

\* A request whose group only counts it.
LEMMA SuppressDuplicateSound ==
  ASSUME BuilderInv, NEW o \in Offered, SuppressDuplicate(o)
  PROVE  BuilderInv' /\ instances' = instances
<1> DEFINE shape == o.shape
<1>1. PICK b : b = Seen(Observed, o)
  OBVIOUS
<1>2. shape \in DOMAIN groups
  BY DEF SuppressDuplicate, IsKnown
<1>3. Pending(b) /\ b.instances = instances /\ shape \in DOMAIN b.groups
  BY <1>1, <1>2, ObservedPending, SeenPending
<1> DEFINE g == SuppressedGroup(b.groups[shape])
<1>4. PICK c : c = [Count(b, "suppressed") EXCEPT !.groups[shape] = g]
  OBVIOUS
<1>5. /\ c.instances = b.instances /\ c.groups = [b.groups EXCEPT ![shape] = g]
      /\ c.summary = [b.summary EXCEPT !.suppressed = @ + 1]
      /\ DOMAIN c = {"groups", "instances", "bodies", "summary"}
  BY <1>3, <1>4 DEF Count, Pending, Sound, Typed
<1>6. Become(c)
  <2>1. Count(b, "suppressed").groups = b.groups
    BY <1>3 DEF Count, Pending, Sound, Typed
  <2>2. Become([Count(b, "suppressed") EXCEPT !.groups[shape] = SuppressedGroup(@)])
    BY <1>1 DEF SuppressDuplicate
  <2>3. QED
    BY <1>4, <2>1, <2>2
<1>7. b.groups[shape] \in GroupRecords
  BY <1>3 DEF Pending, Sound, Typed
<1>8. /\ g \in GroupRecords /\ g.occurrences = b.groups[shape].occurrences + 1
      /\ g.suppressed = b.groups[shape].suppressed + 1
      /\ g.evicted = b.groups[shape].evicted
  BY <1>7, SuppressedGroupType
<1> HIDE DEF g, shape
<1>9. Cardinality(b.instances) \in Nat
  BY <1>3, FS_CardinalityType DEF Pending, Sound, Typed
<1>10. /\ c.summary \in SummaryRecords /\ c.summary.observed = b.summary.observed
       /\ Terminal(c) = Terminal(b) + 1
  BY <1>3, <1>5, <1>9 DEF Pending, Sound, Typed, SummaryRecords, Terminal
<1>11. Typed(c) /\ DOMAIN c.groups = DOMAIN b.groups
  BY <1>3, <1>5, <1>8, <1>10 DEF Pending, Sound, Typed
<1>12. ASSUME NEW t \in DOMAIN c.groups
       PROVE  c.groups[t].occurrences =
                Cardinality(InstancesOf(c, t)) + c.groups[t].suppressed + c.groups[t].evicted
  <2>1. InstancesOf(c, t) = InstancesOf(b, t) /\ Cardinality(InstancesOf(b, t)) \in Nat
    <3>1. InstancesOf(c, t) = InstancesOf(b, t)
      BY <1>5 DEF InstancesOf
    <3>2. QED
      BY <3>1, <1>3, InstancesOfFinite DEF Pending, Sound, Typed
  <2>2. b.groups[t].occurrences =
          Cardinality(InstancesOf(b, t)) + b.groups[t].suppressed + b.groups[t].evicted
    BY <1>3, <1>11 DEF Pending, Sound, OccurrencesAddUp
  <2>3. QED
    BY <1>5, <1>7, <1>8, <1>11, <2>1, <2>2 DEF GroupRecords
<1>13. Sound(c)
  BY <1>3, <1>5, <1>11, <1>12 DEF Pending, Sound, Housed, OccurrencesAddUp
<1>14. NumbersBelow(c, c.summary.observed + 1)
  BY <1>3, <1>5, <1>10 DEF Pending, NumbersBelow, SummaryRecords
<1>15. BuilderInv' /\ instances' = c.instances
  BY <1>3, <1>6, <1>10, <1>13, <1>14, BecomeSound DEF Pending
<1>16. QED
  BY <1>3, <1>5, <1>15

LEMMA PriorityScoreType ==
  ASSUME NEW s
  PROVE  PriorityScore(s) \in Nat
  BY DEF PriorityScore

\* What a step does to the instances: none goes, or room is made for the newcomer by those
\* that are worth less than it, and no more than any that stays.
Kept(i, o) ==
  /\ PriorityScore(i.shape) < PriorityScore(o.shape)
  /\ \A j \in instances' : PriorityScore(i.shape) <= PriorityScore(j.shape)

AdmitEffect(o) ==
  \/ instances \subseteq instances'
  \/ /\ \A i \in instances \ instances' : Kept(i, o)
     /\ \E j \in instances' \ instances : j.shape = o.shape

LEMMA NewcomerEffect ==
  ASSUME NEW b, b.instances = instances, NEW o \in Offered, ToInstancesEffect(b, o)
  PROVE  AdmitEffect(o)
<1>1. ASSUME NEW i \in instances, NEW j, LowestInstance(b, i), WorthLess(i.shape, o.shape),
             IsNewcomer(j, b, o), instances' = (instances \ {i}) \cup {j}
      PROVE  AdmitEffect(o)
  <2>1. \A k \in instances : PriorityScore(i.shape) <= PriorityScore(k.shape)
    BY <1>1, PriorityScoreType DEF LowestInstance
  <2>2. PriorityScore(i.shape) < PriorityScore(o.shape) /\ j.shape = o.shape
    BY <1>1 DEF WorthLess, IsNewcomer
  <2>3. \A k \in instances' : PriorityScore(i.shape) <= PriorityScore(k.shape)
    BY <1>1, <2>1, <2>2, PriorityScoreType
  <2>4. j \in instances' \ instances /\ instances \ instances' \subseteq {i}
    BY <1>1 DEF IsNewcomer
  <2>5. QED
    BY <2>2, <2>3, <2>4 DEF AdmitEffect, Kept
<1>2. QED
  BY <1>1 DEF ToInstancesEffect, AdmitEffect

LEMMA AdmitKnownSound ==
  ASSUME BuilderInv, NEW o \in Offered, AdmitKnown(o)
  PROVE  BuilderInv' /\ AdmitEffect(o)
<1>1. PICK b : b = Seen(Observed, o)
  OBVIOUS
<1>2. Pending(b) /\ b.instances = instances
  BY <1>1, ObservedPending, SeenPending DEF AdmitKnown, IsKnown
<1>3. ToInstances(b, o)
  BY <1>1 DEF AdmitKnown
<1>4. BuilderInv' /\ ToInstancesEffect(b, o)
  BY <1>2, <1>3, ToInstancesSound
<1>5. QED
  BY <1>2, <1>4, NewcomerEffect

\* A group makes room for the request, so that no instance has to.
LEMMA AdmitByGroupSound ==
  ASSUME BuilderInv, NEW o \in Offered, NEW s \in DOMAIN groups, LowestGroup(Builder, s),
         WorthLess(s, o.shape), ToInstances(RemoveGroup(Observed, s), o)
  PROVE  BuilderInv' /\ AdmitEffect(o)
<1>1. PICK a : a = Observed
  OBVIOUS
<1>2. PICK b : b = RemoveGroup(a, s)
  OBVIOUS
<1>3. Pending(a) /\ a.instances = instances /\ a.groups = groups
  BY <1>1, ObservedPending
<1>4. /\ Pending(b) /\ Cardinality(b.instances) < InstancesCap
      /\ b.instances = a.instances \ InstancesOf(a, s)
      /\ b.summary.observed = a.summary.observed
  BY <1>2, <1>3, RemoveGroupSound
<1>5. ToInstances(b, o)
  BY <1>1, <1>2
<1>6. Cardinality(b.instances) \in Nat
  BY <1>4, FS_CardinalityType DEF Pending, Sound, Typed
<1>7. BuilderInv'
  BY <1>4, <1>5, ToInstancesSound
<1>8. Become(Commit(b, o))
  BY <1>4, <1>5, <1>6 DEF ToInstances
<1>9. PICK c : c = Commit(b, o)
  OBVIOUS
<1>10. PICK j : /\ j.number = b.summary.observed /\ j.shape = o.shape
                /\ c.instances = b.instances \cup {j}
  <2>1. LET d == Commit(b, o) IN
        \E j : /\ j \notin b.instances /\ j.number = b.summary.observed
               /\ j.shape = o.shape /\ d.instances = b.instances \cup {j}
    BY <1>4, CommitSound
  <2>2. QED
    BY <1>9, <2>1
<1>11. instances' = b.instances \cup {j}
  BY <1>8, <1>9, <1>10 DEF Become
<1>12. j \notin instances
  <2>1. a.summary.observed \in Nat
    BY <1>3 DEF Pending, Sound, Typed, SummaryRecords
  <2>2. QED
    BY <1>3, <1>4, <1>10, <2>1 DEF Pending, NumbersBelow
<1>13. ASSUME NEW i \in instances \ instances'
       PROVE  Kept(i, o)
  <2>1. i.shape = s
    BY <1>3, <1>4, <1>11 DEF InstancesOf
  <2>2. PriorityScore(s) < PriorityScore(o.shape)
    BY DEF WorthLess
  <2>3. ASSUME NEW k \in instances'
        PROVE  PriorityScore(s) <= PriorityScore(k.shape)
    <3>1. CASE k = j
      BY <3>1, <1>10, <2>2, PriorityScoreType
    <3>2. CASE k \in b.instances
      <4>1. k.shape \in DOMAIN groups
        BY <3>2, <1>3, <1>4 DEF Pending, Sound, Housed
      <4>2. QED
        BY <4>1, PriorityScoreType DEF LowestGroup, Builder
    <3>3. QED
      BY <3>1, <3>2, <1>11
  <2>4. QED
    BY <2>1, <2>2, <2>3 DEF Kept
<1>14. j \in instances' \ instances /\ j.shape = o.shape
  BY <1>10, <1>11, <1>12
<1>15. QED
  BY <1>7, <1>13, <1>14 DEF AdmitEffect

LEMMA AdmitNewSound ==
  ASSUME BuilderInv, NEW o \in Offered, AdmitNew(o)
  PROVE  BuilderInv' /\ AdmitEffect(o)
<1>1. CASE ToInstances(Observed, o)
  <2>1. PICK b : b = Observed
    OBVIOUS
  <2>2. Pending(b) /\ b.instances = instances /\ ToInstances(b, o)
    BY <1>1, <2>1, ObservedPending
  <2>3. BuilderInv' /\ ToInstancesEffect(b, o)
    BY <2>2, ToInstancesSound
  <2>4. QED
    BY <2>2, <2>3, NewcomerEffect
<1>2. ASSUME NEW s \in DOMAIN groups, LowestGroup(Builder, s), WorthLess(s, o.shape),
             ToInstances(RemoveGroup(Observed, s), o)
      PROVE  BuilderInv' /\ AdmitEffect(o)
  BY <1>2, AdmitByGroupSound
<1>3. CASE Become(Count(Observed, "droppedByGroupCap"))
  <2>1. PICK b : b = Observed
    OBVIOUS
  <2>2. Pending(b) /\ b.instances = instances
    BY <2>1, ObservedPending
  <2>3. BuilderInv' /\ instances' = instances
    BY <1>3, <2>1, <2>2, CountSound
  <2>4. QED
    BY <2>3 DEF AdmitEffect
<1>4. QED
  BY <1>1, <1>2, <1>3 DEF AdmitNew

-----------------------------------------------------------------------------
(* The theorems. *)

LEMMA InvInit == BuilderInit => BuilderInv
<1> SUFFICES ASSUME BuilderInit PROVE BuilderInv
  OBVIOUS
<1>1. /\ Builder.groups = groups /\ Builder.instances = instances /\ Builder.summary = summary
      /\ DOMAIN Builder = {"groups", "instances", "bodies", "summary"}
  BY DEF Builder
<1>2. DOMAIN groups = {} /\ instances = {} /\ Cardinality(instances) = 0 /\ IsFiniteSet(instances)
  BY FS_EmptySet DEF BuilderInit
<1>3. summary = EmptySummary
  BY DEF BuilderInit
<1>4. Typed(Builder) /\ Housed(Builder) /\ OccurrencesAddUp(Builder)
  <2>1. groups \in [DOMAIN groups -> GroupRecords]
    BY <1>2 DEF BuilderInit
  <2>2. summary \in SummaryRecords
    BY <1>3 DEF EmptySummary, SummaryRecords
  <2>3. QED
    BY <1>1, <1>2, <2>1, <2>2 DEF Typed, Housed, OccurrencesAddUp
<1>5. summary.observed = Terminal(Builder)
  BY <1>1, <1>2, <1>3 DEF Terminal, EmptySummary
<1>6. NumbersBelow(Builder, summary.observed + 1)
  BY <1>1, <1>2 DEF NumbersBelow
<1>7. QED
  BY <1>1, <1>2, <1>4, <1>5, <1>6 DEF BuilderInv, Sound

LEMMA InvStep ==
  ASSUME BuilderInv, [BuilderNext]_builderVars
  PROVE  BuilderInv' /\ (instances \subseteq instances' \/ \E o \in Offered : AdmitEffect(o))
<1>1. ASSUME NEW o \in Offered, DropStaticAsset(o)
      PROVE  BuilderInv' /\ instances' = instances
  <2>1. PICK b : b = Observed
    OBVIOUS
  <2>2. Pending(b) /\ b.instances = instances
    BY <2>1, ObservedPending
  <2>3. Become(Count(b, "droppedByFilter"))
    BY <1>1, <2>1 DEF DropStaticAsset
  <2>4. QED
    BY <2>2, <2>3, CountSound
<1>2. ASSUME NEW o \in Offered, SuppressDuplicate(o)
      PROVE  BuilderInv' /\ instances' = instances
  BY <1>2, SuppressDuplicateSound
<1>3. ASSUME NEW o \in Offered, AdmitKnown(o)
      PROVE  BuilderInv' /\ AdmitEffect(o)
  BY <1>3, AdmitKnownSound
<1>4. ASSUME NEW o \in Offered, AdmitNew(o)
      PROVE  BuilderInv' /\ AdmitEffect(o)
  BY <1>4, AdmitNewSound
<1>5. CASE Finalize \/ UNCHANGED builderVars
  <2>1. UNCHANGED <<groups, instances, bodies, summary>>
    BY <1>5 DEF Finalize, builderVars
  <2>2. BuilderInv' = BuilderInv
    BY <2>1 DEF BuilderInv, Builder, Sound, Typed, Housed, OccurrencesAddUp, InstancesOf,
                Terminal, NumbersBelow
  <2>3. QED
    BY <2>1, <2>2
<1>6. QED
  BY <1>1, <1>2, <1>3, <1>4, <1>5 DEF BuilderNext

\* The inductive invariant: groups, instances and counters belong together at any time.
THEOREM BuilderCorrect == BuilderSpec => []BuilderInv
<1>1. BuilderInv /\ [BuilderNext]_builderVars => BuilderInv'
  BY InvStep
<1>2. QED
  BY InvInit, <1>1, PTL DEF BuilderSpec

\* assertInvariants never throws, in whatever order requests come and whatever is evicted:
\* each is in one bucket, and each occurrence of a shape is retained, suppressed or evicted.
THEOREM AlwaysAccounted == BuilderSpec => []Accounted
<1>1. BuilderInv => Accounted
  <2> SUFFICES ASSUME BuilderInv PROVE Accounted
    OBVIOUS
  <2>1. /\ Builder.groups = groups /\ Builder.instances = instances
        /\ Builder.summary = summary
    BY DEF Builder
  <2>2. QED
    BY <2>1 DEF BuilderInv, Sound, OccurrencesAddUp, Terminal, Accounted, AssertInvariants
<1>2. QED
  BY BuilderCorrect, <1>1, PTL

\* Whatever the limits are, what they cost is worth no more than all that stays, and less
\* than the request that took its place; a group that goes always makes enough room.
THEOREM EvictionKeepsTheWorst == BuilderSpec => KeepsTheWorst
<1> DEFINE Step ==
      \A i \in instances \ instances' :
        /\ \A j \in instances' : PriorityScore(i.shape) <= PriorityScore(j.shape)
        /\ \E j \in instances' \ instances : PriorityScore(i.shape) < PriorityScore(j.shape)
<1>1. BuilderInv /\ [BuilderNext]_builderVars => [Step]_builderVars
  <2> SUFFICES ASSUME BuilderInv, [BuilderNext]_builderVars
               PROVE  Step
    OBVIOUS
  <2>1. CASE instances \subseteq instances'
    BY <2>1
  <2>2. ASSUME NEW o \in Offered, AdmitEffect(o)
        PROVE  Step
    BY <2>2 DEF AdmitEffect, Kept
  <2>3. QED
    BY <2>1, <2>2, InvStep
<1>2. QED
  BY BuilderCorrect, <1>1, PTL DEF BuilderSpec, KeepsTheWorst

-----------------------------------------------------------------------------
(* What the instances tell, and the bodies they refer to. *)

Told(b) == \A i \in b.instances : \E o \in Offered : TellsOf(i, o)

Distinct(b) == \A i, j \in b.instances : i.number = j.number => i = j

GroupsFit(b) == IsFiniteSet(DOMAIN b.groups) /\ Cardinality(DOMAIN b.groups) <= GroupsCap

\* Bodies that could be admitted.
BodiesFit(refs) ==
  /\ NoBody \notin DOMAIN refs /\ IsFiniteSet(DOMAIN refs) /\ Cardinality(DOMAIN refs) <= BodiesCap
  /\ \A y \in DOMAIN refs : refs[y] \in Nat

\* The references lead to bodies, and these count them.
BodiesCounted(b) ==
  /\ BodiesFit(b.bodies)
  /\ \A i \in b.instances : {i.requestBody, i.responseBody} \subseteq DOMAIN b.bodies \cup {NoBody}
  /\ \A y \in DOMAIN b.bodies : b.bodies[y] > 0 /\ b.bodies[y] = References(b.instances, y)

Contents(b) == Told(b) /\ Distinct(b) /\ GroupsFit(b) /\ BodiesCounted(b)

ContentInv == Contents(Builder) /\ RedirectsGoForward

\* A count is one of finite sets.
LEMMA ReferencesCounted ==
  ASSUME NEW S, IsFiniteSet(S), NEW y
  PROVE  /\ IsFiniteSet({i \in S : i.requestBody = y})
         /\ IsFiniteSet({i \in S : i.responseBody = y})
         /\ Cardinality({i \in S : i.requestBody = y}) \in Nat
         /\ Cardinality({i \in S : i.responseBody = y}) \in Nat
         /\ References(S, y) \in Nat
<1>1. {i \in S : i.requestBody = y} \subseteq S /\ {i \in S : i.responseBody = y} \subseteq S
  OBVIOUS
<1>2. /\ IsFiniteSet({i \in S : i.requestBody = y}) /\ IsFiniteSet({i \in S : i.responseBody = y})
  BY <1>1, FS_Subset
<1>3. /\ Cardinality({i \in S : i.requestBody = y}) \in Nat
      /\ Cardinality({i \in S : i.responseBody = y}) \in Nat
  BY <1>2, FS_CardinalityType
<1> QED BY <1>2, <1>3 DEF References

\* An instance that refers to a body is counted.
LEMMA ReferenceCounts ==
  ASSUME NEW S, IsFiniteSet(S), NEW i \in S, NEW y, y \in {i.requestBody, i.responseBody}
  PROVE  References(S, y) > 0
<1> DEFINE A == {k \in S : k.requestBody = y}
           B == {k \in S : k.responseBody = y}
<1>1. /\ IsFiniteSet(A) /\ IsFiniteSet(B) /\ Cardinality(A) \in Nat /\ Cardinality(B) \in Nat
      /\ References(S, y) = Cardinality(A) + Cardinality(B)
  BY ReferencesCounted DEF References
<1>2. A # {} \/ B # {}
  OBVIOUS
<1> HIDE DEF A, B
<1>3. (A # {} => Cardinality(A) # 0) /\ (B # {} => Cardinality(B) # 0)
  BY <1>1, FS_EmptySet
<1> QED BY <1>1, <1>2, <1>3

\* Nobody refers to what no instance names.
LEMMA NoReferences ==
  ASSUME NEW S, NEW y, \A i \in S : y \notin {i.requestBody, i.responseBody}
  PROVE  References(S, y) = 0
<1>1. {i \in S : i.requestBody = y} = {} /\ {i \in S : i.responseBody = y} = {}
  OBVIOUS
<1>2. References(S, y) = Cardinality({}) + Cardinality({})
  BY <1>1 DEF References
<1> QED BY <1>2, FS_EmptySet

LEMMA ReferencesRemoved ==
  ASSUME NEW S, IsFiniteSet(S), NEW R \in SUBSET S, NEW y
  PROVE  References(S \ R, y) = References(S, y) - References(R, y)
<1> DEFINE A(T) == {i \in T : i.requestBody = y}
           B(T) == {i \in T : i.responseBody = y}
<1>1. IsFiniteSet(R)
  BY FS_Subset
<1>2. /\ A(S \ R) = A(S) \ A(R) /\ A(S) \cap A(R) = A(R)
      /\ B(S \ R) = B(S) \ B(R) /\ B(S) \cap B(R) = B(R)
  OBVIOUS
<1>3. /\ IsFiniteSet(A(S)) /\ IsFiniteSet(B(S)) /\ Cardinality(A(S)) \in Nat
      /\ Cardinality(B(S)) \in Nat /\ Cardinality(A(R)) \in Nat /\ Cardinality(B(R)) \in Nat
  BY <1>1, ReferencesCounted
<1>4. /\ References(S, y) = Cardinality(A(S)) + Cardinality(B(S))
      /\ References(R, y) = Cardinality(A(R)) + Cardinality(B(R))
      /\ References(S \ R, y) = Cardinality(A(S \ R)) + Cardinality(B(S \ R))
  BY DEF References
<1> HIDE DEF A, B
<1>5. Cardinality(A(S) \ A(R)) = Cardinality(A(S)) - Cardinality(A(S) \cap A(R))
  BY <1>3, FS_Difference
<1>6. Cardinality(B(S) \ B(R)) = Cardinality(B(S)) - Cardinality(B(S) \cap B(R))
  BY <1>3, FS_Difference
<1>7. /\ Cardinality(A(S \ R)) = Cardinality(A(S)) - Cardinality(A(R))
      /\ Cardinality(B(S \ R)) = Cardinality(B(S)) - Cardinality(B(R))
  BY <1>2, <1>5, <1>6
<1> QED BY <1>3, <1>4, <1>7

LEMMA ReferencesAdded ==
  ASSUME NEW S, IsFiniteSet(S), NEW j, j \notin S, NEW y
  PROVE  References(S \cup {j}, y) =
           References(S, y) + (IF j.requestBody = y THEN 1 ELSE 0)
                            + (IF j.responseBody = y THEN 1 ELSE 0)
<1> DEFINE A(T) == {i \in T : i.requestBody = y}
           B(T) == {i \in T : i.responseBody = y}
<1>1. /\ A(S \cup {j}) = IF j.requestBody = y THEN A(S) \cup {j} ELSE A(S)
      /\ B(S \cup {j}) = IF j.responseBody = y THEN B(S) \cup {j} ELSE B(S)
      /\ j \notin A(S) /\ j \notin B(S)
  OBVIOUS
<1>2. /\ IsFiniteSet(A(S)) /\ IsFiniteSet(B(S)) /\ Cardinality(A(S)) \in Nat
      /\ Cardinality(B(S)) \in Nat
  BY ReferencesCounted
<1>3. /\ References(S, y) = Cardinality(A(S)) + Cardinality(B(S))
      /\ References(S \cup {j}, y) = Cardinality(A(S \cup {j})) + Cardinality(B(S \cup {j}))
  BY DEF References
<1> HIDE DEF A, B
<1>4. /\ Cardinality(A(S) \cup {j}) = Cardinality(A(S)) + 1
      /\ Cardinality(B(S) \cup {j}) = Cardinality(B(S)) + 1
  BY <1>1, <1>2, FS_AddElement
<1> QED BY <1>1, <1>2, <1>3, <1>4

\* What leaves the instances and the bodies as they are.
LEMMA SameContent ==
  ASSUME NEW b, Contents(b), NEW c, c.instances = b.instances, c.bodies = b.bodies,
         DOMAIN c.groups \subseteq DOMAIN b.groups
  PROVE  Contents(c)
<1>1. GroupsFit(c)
  <2>1. IsFiniteSet(DOMAIN b.groups) /\ Cardinality(DOMAIN b.groups) <= GroupsCap
    BY DEF Contents, GroupsFit
  <2>2. /\ IsFiniteSet(DOMAIN c.groups)
        /\ Cardinality(DOMAIN c.groups) <= Cardinality(DOMAIN b.groups)
        /\ Cardinality(DOMAIN c.groups) \in Nat /\ Cardinality(DOMAIN b.groups) \in Nat
    BY <2>1, FS_Subset, FS_CardinalityType
  <2> QED BY <2>1, <2>2 DEF GroupsFit
<1> QED BY <1>1 DEF Contents, Told, Distinct, BodiesCounted

\* What is removed takes its references with it, and the last of a body that.
LEMMA RemovedContent ==
  ASSUME NEW b, Contents(b), IsFiniteSet(b.instances), NEW removed \in SUBSET b.instances,
         NEW c, c.instances = b.instances \ removed,
         c.bodies = DecrementBodyRefs(b.bodies, removed),
         DOMAIN c.groups \subseteq DOMAIN b.groups
  PROVE  Contents(c)
<1> DEFINE left == [y \in DOMAIN b.bodies |-> b.bodies[y] - References(removed, y)]
<1>1. c.bodies = [y \in {x \in DOMAIN b.bodies : left[x] > 0} |-> left[y]]
  BY DEF DecrementBodyRefs
<1>2. IsFiniteSet(c.instances) /\ IsFiniteSet(removed)
  BY FS_Subset
<1>3. \A y \in DOMAIN b.bodies : left[y] = References(c.instances, y)
  BY ReferencesRemoved DEF Contents, BodiesCounted
<1> HIDE DEF left
<1>4. /\ DOMAIN c.bodies = {y \in DOMAIN b.bodies : left[y] > 0}
      /\ \A y \in DOMAIN c.bodies : c.bodies[y] > 0 /\ c.bodies[y] = References(c.instances, y)
  BY <1>1, <1>3
<1>5. BodiesFit(c.bodies)
  <2>1. /\ NoBody \notin DOMAIN b.bodies /\ IsFiniteSet(DOMAIN b.bodies)
        /\ Cardinality(DOMAIN b.bodies) <= BodiesCap
    BY DEF Contents, BodiesCounted, BodiesFit
  <2>2. DOMAIN c.bodies \subseteq DOMAIN b.bodies
    BY <1>4
  <2>3. /\ IsFiniteSet(DOMAIN c.bodies)
        /\ Cardinality(DOMAIN c.bodies) <= Cardinality(DOMAIN b.bodies)
        /\ Cardinality(DOMAIN c.bodies) \in Nat /\ Cardinality(DOMAIN b.bodies) \in Nat
    BY <2>1, <2>2, FS_Subset, FS_CardinalityType
  <2>4. BodiesCap \in Nat
    BY BuilderAssumption
  <2>5. ASSUME NEW y \in DOMAIN c.bodies PROVE c.bodies[y] \in Nat
    <3>1. PICK S : S = c.instances
      OBVIOUS
    <3>2. References(S, y) \in Nat
      BY <1>2, <3>1, ReferencesCounted
    <3> QED BY <1>4, <3>1, <3>2
  <2> QED BY <2>1, <2>2, <2>3, <2>4, <2>5 DEF BodiesFit
<1>6. ASSUME NEW i \in c.instances, NEW y \in {i.requestBody, i.responseBody}
      PROVE  y \in DOMAIN c.bodies \cup {NoBody}
  <2>1. y \in DOMAIN b.bodies \cup {NoBody}
    BY <1>6 DEF Contents, BodiesCounted
  <2>2. References(c.instances, y) > 0
    BY <1>2, ReferenceCounts
  <2> QED BY <1>3, <1>4, <2>1, <2>2
<1>7. BodiesCounted(c)
  BY <1>4, <1>5, <1>6 DEF BodiesCounted
<1>8. Told(c) /\ Distinct(c)
  BY DEF Contents, Told, Distinct
<1>9. GroupsFit(c)
  <2>1. IsFiniteSet(DOMAIN b.groups) /\ Cardinality(DOMAIN b.groups) <= GroupsCap
    BY DEF Contents, GroupsFit
  <2>2. /\ IsFiniteSet(DOMAIN c.groups)
        /\ Cardinality(DOMAIN c.groups) <= Cardinality(DOMAIN b.groups)
        /\ Cardinality(DOMAIN c.groups) \in Nat /\ Cardinality(DOMAIN b.groups) \in Nat
    BY <2>1, FS_Subset, FS_CardinalityType
  <2> QED BY <2>1, <2>2 DEF GroupsFit
<1> QED BY <1>7, <1>8, <1>9 DEF Contents

Old(refs, y) == IF y \in DOMAIN refs THEN refs[y] ELSE 0

\* What it is to refer to a body, or to none.
Refers(refs, x, body, after) ==
  /\ BodiesFit(after) /\ body \in {x, NoBody}
  /\ DOMAIN after = DOMAIN refs \cup ({body} \ {NoBody})
  /\ \A y \in DOMAIN after : after[y] = Old(refs, y) + (IF y = body THEN 1 ELSE 0)

\* resolveOrAdmitBody: a body that is admitted is counted, and there is room for it.
LEMMA ReferenceAdded ==
  ASSUME NEW refs, BodiesFit(refs), NEW x, NEW body, body = Resolve(refs, x),
         NEW after, after = AddReference(refs, body)
  PROVE  Refers(refs, x, body, after)
<1>1. body \in {x, NoBody}
  BY DEF Resolve
<1>2. CASE body = NoBody
  <2>1. after = refs
    BY <1>2 DEF AddReference
  <2>2. \A y \in DOMAIN after : after[y] = Old(refs, y) + (IF y = body THEN 1 ELSE 0)
    BY <1>2, <2>1 DEF BodiesFit, Old
  <2> QED BY <1>1, <1>2, <2>1, <2>2 DEF Refers
<1>3. CASE body # NoBody
  <2>1. after = [y \in DOMAIN refs \cup {body} |->
                   (IF y \in DOMAIN refs THEN refs[y] ELSE 0) + (IF y = body THEN 1 ELSE 0)]
    BY <1>3 DEF AddReference
  <2>2. body = x /\ (body \in DOMAIN refs \/ Cardinality(DOMAIN refs) < BodiesCap)
    BY <1>3 DEF Resolve
  <2>3. IsFiniteSet(DOMAIN refs) /\ Cardinality(DOMAIN refs) \in Nat /\ BodiesCap \in Nat
    BY FS_CardinalityType, BuilderAssumption DEF BodiesFit
  <2>4. /\ IsFiniteSet(DOMAIN refs \cup {body})
        /\ Cardinality(DOMAIN refs \cup {body}) <= BodiesCap
    <3>1. CASE body \in DOMAIN refs
      <4>1. DOMAIN refs \cup {body} = DOMAIN refs
        BY <3>1
      <4> QED BY <4>1 DEF BodiesFit
    <3>2. CASE body \notin DOMAIN refs
      <4>1. /\ IsFiniteSet(DOMAIN refs \cup {body})
            /\ Cardinality(DOMAIN refs \cup {body}) = Cardinality(DOMAIN refs) + 1
        BY <2>3, <3>2, FS_AddElement
      <4> QED BY <2>2, <2>3, <3>2, <4>1
    <3> QED BY <3>1, <3>2
  <2>5. DOMAIN after = DOMAIN refs \cup {body}
    BY <2>1
  <2>6. BodiesFit(after)
    <3>1. \A y \in DOMAIN after : after[y] \in Nat
      BY <2>1 DEF BodiesFit
    <3> QED BY <1>3, <2>4, <2>5, <3>1 DEF BodiesFit
  <2> QED BY <1>1, <1>3, <2>1, <2>5, <2>6 DEF Old, Refers
<1> QED BY <1>2, <1>3

\* There is a group for the request, or room for one.
Room(b, o) == o.shape \in DOMAIN b.groups \/ Cardinality(DOMAIN b.groups) < GroupsCap

LEMMA CommitContent ==
  ASSUME NEW b, Pending(b), Contents(b), NEW o \in Offered, Room(b, o)
  PROVE  Contents(Commit(b, o))
<1> DEFINE number == b.summary.observed
           request == Resolve(b.bodies, o.requestBody)
           refs == AddReference(b.bodies, request)
           response == Resolve(refs, o.responseBody)
           j == [number |-> number, shape |-> o.shape, context |-> o.context,
                 offset |-> o.offset, redirectTo |-> o.redirectTo,
                 requestBody |-> request, responseBody |-> response]
           after == AddReference(refs, response)
           c == Commit(b, o)
<1>1. /\ c.instances = b.instances \cup {j} /\ c.bodies = after
      /\ DOMAIN c.groups = DOMAIN b.groups \cup {o.shape}
  BY DEF Commit, Pending, Sound, Typed
<1>2. /\ j.number = number /\ j.shape = o.shape /\ j.context = o.context /\ j.offset = o.offset
      /\ j.redirectTo = o.redirectTo /\ j.requestBody = request /\ j.responseBody = response
  OBVIOUS
<1>3. j \notin b.instances /\ number \in Nat /\ \A i \in b.instances : i.number # j.number
  BY <1>2 DEF Pending, Sound, NumbersBelow, Typed, SummaryRecords
<1>4. /\ BodiesFit(b.bodies) /\ IsFiniteSet(b.instances)
  BY DEF Contents, BodiesCounted, Pending, Sound, Typed
<1> HIDE DEF c, j, after, number, response
<1>5. Refers(b.bodies, o.requestBody, request, refs)
  BY <1>4, ReferenceAdded DEF request, refs
<1>6. Refers(refs, o.responseBody, response, after)
  <2>1. BodiesFit(refs)
    BY <1>5 DEF Refers
  <2>2. response = Resolve(refs, o.responseBody) /\ after = AddReference(refs, response)
    BY DEF response, after
  <2> HIDE DEF refs
  <2> QED BY <2>1, <2>2, ReferenceAdded
<1> HIDE DEF request, refs
<1>7. Told(c)
  <2>1. TellsOf(j, o)
    BY <1>2, <1>5, <1>6 DEF TellsOf, Refers
  <2> QED BY <1>1, <2>1 DEF Contents, Told
<1>8. Distinct(c)
  BY <1>1, <1>3 DEF Contents, Distinct
<1>9. GroupsFit(c)
  <2>1. /\ IsFiniteSet(DOMAIN b.groups) /\ Cardinality(DOMAIN b.groups) <= GroupsCap
        /\ Cardinality(DOMAIN b.groups) \in Nat /\ GroupsCap \in Nat
    BY FS_CardinalityType, BuilderAssumption DEF Contents, GroupsFit
  <2>2. CASE o.shape \in DOMAIN b.groups
    <3>1. DOMAIN c.groups = DOMAIN b.groups
      BY <1>1, <2>2
    <3> QED BY <2>1, <3>1 DEF GroupsFit
  <2>3. CASE o.shape \notin DOMAIN b.groups
    <3>1. /\ IsFiniteSet(DOMAIN b.groups \cup {o.shape})
          /\ Cardinality(DOMAIN b.groups \cup {o.shape}) = Cardinality(DOMAIN b.groups) + 1
      BY <2>1, <2>3, FS_AddElement
    <3> QED BY <1>1, <2>1, <2>3, <3>1 DEF GroupsFit, Room
  <2> QED BY <2>2, <2>3
<1>10. ASSUME NEW i \in c.instances, NEW y \in {i.requestBody, i.responseBody}
       PROVE  y \in DOMAIN c.bodies \cup {NoBody}
  <2>1. CASE i \in b.instances
    BY <1>1, <1>5, <1>6, <2>1 DEF Contents, BodiesCounted, Refers
  <2>2. CASE i = j
    BY <1>1, <1>2, <1>5, <1>6, <2>2 DEF Refers
  <2> QED BY <1>1, <2>1, <2>2
<1>11. ASSUME NEW y \in DOMAIN c.bodies
       PROVE  c.bodies[y] > 0 /\ c.bodies[y] = References(c.instances, y)
  <2>1. y # NoBody
    BY <1>1, <1>6 DEF BodiesFit, Refers
  <2>2. References(b.instances, y) \in Nat
    BY <1>4, ReferencesCounted
  <2>3. Old(b.bodies, y) = References(b.instances, y)
    <3>1. CASE y \in DOMAIN b.bodies
      BY <3>1 DEF Old, Contents, BodiesCounted
    <3>2. CASE y \notin DOMAIN b.bodies
      <4>1. \A i \in b.instances : y \notin {i.requestBody, i.responseBody}
        BY <2>1, <3>2 DEF Contents, BodiesCounted
      <4> QED BY <3>2, <4>1, NoReferences DEF Old
    <3> QED BY <3>1, <3>2
  <2>4. References(c.instances, y) =
          References(b.instances, y) + (IF request = y THEN 1 ELSE 0)
                                     + (IF response = y THEN 1 ELSE 0)
    BY <1>1, <1>2, <1>3, <1>4, ReferencesAdded
  <2>5. Old(refs, y) = Old(b.bodies, y) + (IF y = request THEN 1 ELSE 0)
    <3>1. CASE y \in DOMAIN refs
      BY <1>5, <3>1 DEF Old, Refers
    <3>2. CASE y \notin DOMAIN refs
      BY <1>5, <2>1, <3>2 DEF Old, Refers
    <3> QED BY <3>1, <3>2
  <2>6. c.bodies[y] = References(c.instances, y)
    BY <1>1, <1>6, <2>2, <2>3, <2>4, <2>5 DEF Refers
  <2>7. c.bodies[y] > 0
    <3>1. CASE y \in DOMAIN b.bodies
      <4>1. b.bodies[y] > 0 /\ b.bodies[y] = References(b.instances, y)
        BY <3>1 DEF Contents, BodiesCounted
      <4> QED BY <2>2, <2>4, <2>6, <4>1
    <3>2. CASE y \in {request, response}
      BY <2>2, <2>4, <2>6, <3>2
    <3> QED BY <1>1, <1>5, <1>6, <3>1, <3>2 DEF Refers
  <2> QED BY <2>6, <2>7
<1>12. BodiesCounted(c)
  BY <1>1, <1>6, <1>10, <1>11 DEF BodiesCounted, Refers
<1> QED BY <1>7, <1>8, <1>9, <1>12 DEF Contents, c

-----------------------------------------------------------------------------
(* Redirects: what the recursion of annotateRedirects comes to. *)

\* A relation that is a strict order of some things.
IsStrict(R, set) ==
  /\ \A i \in set : <<i, i>> \notin R
  /\ \A i, j \in set : i # j => <<i, j>> \in R \/ <<j, i>> \in R
  /\ \A i, j, k \in set : <<i, j>> \in R /\ <<j, k>> \in R => <<i, k>> \in R

\* Of some things in a strict order one comes first.
LEMMA FirstOf ==
  ASSUME NEW set, IsFiniteSet(set), set # {}, NEW R, IsStrict(R, set)
  PROVE  \E i \in set : \A j \in set \ {i} : <<i, j>> \in R
<1> DEFINE Ahead(i) == {j \in set : <<j, i>> \in R}
           Counts == {Cardinality(Ahead(i)) : i \in set}
<1>1. \A i \in set : IsFiniteSet(Ahead(i)) /\ Cardinality(Ahead(i)) \in Nat
  <2> TAKE i \in set
  <2>1. Ahead(i) \subseteq set
    OBVIOUS
  <2> HIDE DEF Ahead
  <2> QED BY <2>1, FS_Subset, FS_CardinalityType
<1>2. Counts \in SUBSET Nat /\ Counts # {}
  <2> HIDE DEF Ahead
  <2> QED BY <1>1
<1>3. PICK n \in Counts : \A m \in Counts : n <= m
  <2> HIDE DEF Counts
  <2> QED BY <1>2, LeastNumber
<1>4. PICK i \in set : n = Cardinality(Ahead(i))
  BY <1>3
<1>5. Ahead(i) = {}
  <2> SUFFICES ASSUME NEW j \in Ahead(i) PROVE FALSE
    OBVIOUS
  <2>1. j \in set /\ <<j, i>> \in R
    OBVIOUS
  <2>2. Ahead(j) \subseteq Ahead(i) /\ j \notin Ahead(j)
    BY <2>1 DEF IsStrict
  <2>3. Cardinality(Ahead(j)) \in Counts
    <3> HIDE DEF Ahead
    <3> QED BY <2>1
  <2>4. PICK a, b : a = Ahead(i) /\ b = Ahead(j)
    OBVIOUS
  <2> HIDE DEF Ahead, Counts
  <2>5. n <= Cardinality(Ahead(j))
    BY <1>3, <2>3
  <2>6. IsFiniteSet(a) /\ b \in SUBSET a /\ b # a
    BY <1>1, <2>2, <2>4
  <2>7. Cardinality(b) < Cardinality(a)
    BY <2>6, FS_Subset, FS_CardinalityType
  <2> QED BY <1>1, <1>4, <2>1, <2>4, <2>5, <2>7
<1> QED BY <1>5 DEF IsStrict

\* Instances that the order tells apart.
Ordered(all) ==
  /\ IsFiniteSet(all)
  /\ \A i \in all : i.offset \in Nat /\ i.number \in Nat
  /\ \A i, j \in all : i.number = j.number => i = j

LEMMA OrderIsStrict ==
  ASSUME NEW all, Ordered(all)
  PROVE  /\ \A i, j \in all : i # j => Before(i, j) \/ Before(j, i)
         /\ \A i \in all : ~Before(i, i)
         /\ \A i, j, k \in all : Before(i, j) /\ Before(j, k) => Before(i, k)
BY DEF Ordered, Before

\* Of some instances there is a latest one.
LEMMA LatestIsLast ==
  ASSUME NEW all, Ordered(all), NEW set \in SUBSET all, set # {}
  PROVE  Latest(set) \in set /\ \A j \in set \ {Latest(set)} : Before(j, Latest(set))
<1>1. PICK R : R = {p \in all \X all : Before(p[2], p[1])}
  OBVIOUS
<1>2. \A i, j \in all : <<i, j>> \in R <=> Before(j, i)
  BY <1>1
<1>3. IsStrict(R, set)
  BY <1>2, OrderIsStrict DEF IsStrict
<1>4. IsFiniteSet(set)
  BY FS_Subset DEF Ordered
<1>5. PICK i \in set : \A j \in set \ {i} : <<i, j>> \in R
  BY <1>3, <1>4, FirstOf
<1>6. \A j \in set \ {i} : Before(j, i)
  BY <1>2, <1>5
<1> QED BY <1>6 DEF Latest

\* What the recursion holds for some instances, given what it holds for fewer.
StepOf(all, links, set) ==
  IF set = {} THEN {} ELSE Follow(all, links[set \ {Latest(set)}], Latest(set))

\* There is a function that the recursion defines.
LEMMA LinksExist ==
  ASSUME NEW all, Ordered(all)
  PROVE  \E links : links = [set \in SUBSET all |-> StepOf(all, links, set)]
<1> DEFINE Upto(n, f) ==
             \A set \in SUBSET all : Cardinality(set) <= n => f[set] = StepOf(all, f, set)
           Missing == {n \in Nat : ~ \E f : f = [set \in SUBSET all |-> f[set]] /\ Upto(n, f)}
<1>1. IsFiniteSet(all) /\ Cardinality(all) \in Nat
  BY FS_CardinalityType DEF Ordered
<1>2. \A set \in SUBSET all : /\ IsFiniteSet(set) /\ Cardinality(set) \in Nat
                              /\ Cardinality(set) <= Cardinality(all)
  BY <1>1, FS_Subset, FS_CardinalityType
<1>3. \A set \in SUBSET all : set # {} =>
        /\ Latest(set) \in set /\ set \ {Latest(set)} \in SUBSET all
        /\ Cardinality(set \ {Latest(set)}) = Cardinality(set) - 1
  BY <1>2, LatestIsLast, FS_RemoveElement
<1>4. Missing = {}
  <2> SUFFICES ASSUME Missing # {} PROVE FALSE
    OBVIOUS
  <2>1. PICK n \in Missing : \A m \in Missing : n <= m
    <3>1. Missing \in SUBSET Nat
      OBVIOUS
    <3> HIDE DEF Missing
    <3> QED BY <3>1, LeastNumber
  <2>2. n \in Nat
    BY <2>1
  <2>3. CASE n = 0
    <3> DEFINE f == [set \in SUBSET all |-> {}]
    <3>1. \A set \in SUBSET all : Cardinality(set) <= 0 => set = {}
      BY <1>2, FS_EmptySet
    <3>2. \A set \in SUBSET all : Cardinality(set) <= 0 => f[set] = StepOf(all, f, set)
      BY <3>1 DEF StepOf
    <3>3. f = [set \in SUBSET all |-> f[set]]
      OBVIOUS
    <3> HIDE DEF f
    <3> QED BY <2>1, <2>3, <3>2, <3>3
  <2>4. CASE n # 0
    <3>1. n - 1 \in Nat /\ n - 1 \notin Missing
      <4> HIDE DEF Missing
      <4> QED BY <2>1, <2>2, <2>4
    <3>2. PICK f : f = [set \in SUBSET all |-> f[set]] /\ Upto(n - 1, f)
      BY <3>1
    <3> DEFINE g == [set \in SUBSET all |-> StepOf(all, f, set)]
    <3>3. \A set \in SUBSET all : Cardinality(set) <= n - 1 => g[set] = f[set]
      BY <3>2
    <3>4. ASSUME NEW set \in SUBSET all, Cardinality(set) <= n
          PROVE  StepOf(all, f, set) = StepOf(all, g, set)
      <4>1. CASE set = {}
        BY <4>1 DEF StepOf
      <4>2. CASE set # {}
        <5>1. g[set \ {Latest(set)}] = f[set \ {Latest(set)}]
          <6> HIDE DEF g
          <6> QED BY <1>2, <1>3, <2>2, <3>3, <3>4, <4>2
        <5> HIDE DEF g
        <5> QED BY <4>2, <5>1 DEF StepOf
      <4> QED BY <4>1, <4>2
    <3>5. \A set \in SUBSET all : g[set] = StepOf(all, f, set)
      OBVIOUS
    <3>6. g = [set \in SUBSET all |-> g[set]]
      OBVIOUS
    <3> HIDE DEF g
    <3>7. \A set \in SUBSET all : Cardinality(set) <= n => g[set] = StepOf(all, g, set)
      BY <3>4, <3>5
    <3> QED BY <2>1, <3>6, <3>7
  <2> QED BY <2>3, <2>4
<1>5. PICK f : f = [set \in SUBSET all |-> f[set]] /\ Upto(Cardinality(all), f)
  BY <1>1, <1>4
<1>6. \A set \in SUBSET all : f[set] = StepOf(all, f, set)
  BY <1>2, <1>5
<1>7. f = [set \in SUBSET all |-> StepOf(all, f, set)]
  BY <1>5, <1>6
<1> QED BY <1>7

\* Redirects that lead from some instances forward, no two to the same and no two from it.
Forward(all, links, set) ==
  /\ links \subseteq set \X all
  /\ \A l \in links : Before(l[1], l[2]) /\ l[2].shape.url = l[1].redirectTo
  /\ \A l, m \in links : l[1] = m[1] <=> l[2] = m[2]

LEMMA FollowForward ==
  ASSUME NEW all, Ordered(all), NEW set \in SUBSET all, NEW i \in all, i \notin set,
         NEW links, Forward(all, links, set)
  PROVE  Forward(all, Follow(all, links, i), set \cup {i})
<1> DEFINE free == {j \in all : /\ Before(i, j) /\ j.shape.url = i.redirectTo
                               /\ \A l \in links : l[2] # j}
           next == {j \in free : \A k \in free : ~Before(k, j)}
<1>1. Follow(all, links, i) = links \cup ({i} \X next)
  BY DEF Follow
<1>2. next \subseteq all /\ \A j \in next : /\ Before(i, j) /\ j.shape.url = i.redirectTo
                                           /\ \A l \in links : l[2] # j
  OBVIOUS
<1>3. \A j, k \in next : j = k
  BY OrderIsStrict
<1> HIDE DEF next
<1>4. PICK after : after = links \cup ({i} \X next)
  OBVIOUS
<1>5. \A l \in after : l \in links \/ (l[1] = i /\ l[2] \in next /\ l = <<i, l[2]>>)
  BY <1>4
<1>6. \A l \in links : l[1] \in set /\ l[2] \in all /\ l[1] # i
  BY DEF Forward
<1>7. after \subseteq (set \cup {i}) \X all
  <2>1. links \subseteq (set \cup {i}) \X all
    BY DEF Forward
  <2> QED BY <1>2, <1>4, <2>1
<1>8. \A l \in after : Before(l[1], l[2]) /\ l[2].shape.url = l[1].redirectTo
  BY <1>2, <1>5 DEF Forward
<1>9. ASSUME NEW l \in after, NEW m \in after
      PROVE  l[1] = m[1] <=> l[2] = m[2]
  <2>1. CASE l \in links /\ m \in links
    BY <2>1 DEF Forward
  <2>2. CASE l \in links /\ m \notin links
    BY <1>2, <1>5, <1>6, <2>2
  <2>3. CASE l \notin links /\ m \in links
    BY <1>2, <1>5, <1>6, <2>3
  <2>4. CASE l \notin links /\ m \notin links
    BY <1>3, <1>5, <2>4
  <2> QED BY <2>1, <2>2, <2>3, <2>4
<1> QED BY <1>1, <1>4, <1>7, <1>8, <1>9 DEF Forward

\* annotateRedirects leads forward, whatever the instances are.
LEMMA RedirectsForward ==
  ASSUME NEW all, Ordered(all)
  PROVE  Forward(all, AnnotateRedirects(all), all)
<1> DEFINE links == CHOOSE f : f = [set \in SUBSET all |-> StepOf(all, f, set)]
<1>1. AnnotateRedirects(all) = links[all]
  BY DEF AnnotateRedirects, StepOf
<1>2. links = [set \in SUBSET all |-> StepOf(all, links, set)]
  BY LinksExist
<1> HIDE DEF links
<1>3. \A set \in SUBSET all : links[set] = StepOf(all, links, set)
  BY <1>2
<1> DEFINE Wrong == {n \in Nat : \E set \in SUBSET all :
                       Cardinality(set) = n /\ ~Forward(all, links[set], set)}
<1>4. \A set \in SUBSET all : IsFiniteSet(set) /\ Cardinality(set) \in Nat
  BY FS_Subset, FS_CardinalityType DEF Ordered
<1>5. Wrong = {}
  <2> SUFFICES ASSUME Wrong # {} PROVE FALSE
    OBVIOUS
  <2>1. PICK n \in Wrong : \A m \in Wrong : n <= m
    <3>1. Wrong \in SUBSET Nat
      OBVIOUS
    <3> HIDE DEF Wrong
    <3> QED BY <3>1, LeastNumber
  <2>2. PICK set \in SUBSET all : Cardinality(set) = n /\ ~Forward(all, links[set], set)
    BY <2>1
  <2>3. set # {}
    <3>1. ASSUME set = {} PROVE FALSE
      <4>1. links[set] = {}
        BY <1>3, <3>1 DEF StepOf
      <4>2. Forward(all, {}, set)
        BY DEF Forward
      <4> QED BY <2>2, <4>1, <4>2
    <3> QED BY <3>1
  <2>4. PICK i : i = Latest(set)
    OBVIOUS
  <2>5. PICK rest : rest = set \ {i}
    OBVIOUS
  <2>6. i \in set /\ rest \in SUBSET all /\ i \notin rest /\ set = rest \cup {i}
    BY <2>3, <2>4, <2>5, LatestIsLast
  <2>7. Cardinality(rest) = n - 1 /\ Cardinality(rest) \in Nat /\ n \in Nat
    BY <1>4, <2>1, <2>2, <2>5, <2>6, FS_RemoveElement
  <2>8. Forward(all, links[rest], rest)
    <3>1. Cardinality(rest) \notin Wrong
      BY <2>1, <2>7
    <3> QED BY <2>6, <2>7, <3>1
  <2>9. Forward(all, Follow(all, links[rest], i), set)
    BY <2>6, <2>8, FollowForward
  <2>10. links[set] = Follow(all, links[rest], i)
    BY <1>3, <2>3, <2>4, <2>5 DEF StepOf
  <2> QED BY <2>2, <2>9, <2>10
<1>6. all \in SUBSET all /\ Cardinality(all) \in Nat /\ Cardinality(all) \notin Wrong
  BY <1>4, <1>5
<1>7. Forward(all, links[all], all)
  BY <1>6
<1> QED BY <1>1, <1>7

-----------------------------------------------------------------------------
(* The contents over the steps of admit and finalize. *)

\* removeGroup: its instances take their references with them, and there is room for a group.
LEMMA RemoveGroupContent ==
  ASSUME NEW b, Pending(b), Contents(b), NEW s \in DOMAIN b.groups, NEW o,
         NEW c, c = RemoveGroup(b, s)
  PROVE  Contents(c) /\ Room(c, o)
<1> DEFINE removed == InstancesOf(b, s)
<1>1. /\ c.instances = b.instances \ removed
      /\ c.bodies = DecrementBodyRefs(b.bodies, removed)
      /\ DOMAIN c.groups = DOMAIN b.groups \ {s}
  BY DEF RemoveGroup, WithoutGroup, RemoveInstances, Pending, Sound, Typed
<1>2. IsFiniteSet(b.instances) /\ removed \in SUBSET b.instances
  BY DEF InstancesOf, Pending, Sound, Typed
<1>3. Contents(c)
  <2> HIDE DEF removed
  <2> QED BY <1>1, <1>2, RemovedContent
<1>4. Cardinality(DOMAIN c.groups) < GroupsCap
  <2>1. IsFiniteSet(DOMAIN b.groups) /\ Cardinality(DOMAIN b.groups) <= GroupsCap
    BY DEF Contents, GroupsFit
  <2>2. /\ Cardinality(DOMAIN c.groups) = Cardinality(DOMAIN b.groups) - 1
        /\ Cardinality(DOMAIN b.groups) \in Nat
    BY <1>1, <2>1, FS_RemoveElement, FS_CardinalityType
  <2> QED BY <2>1, <2>2
<1> QED BY <1>3, <1>4 DEF Room

\* removeInstance: there is still a group for a request of another shape, or room for one.
LEMMA RemoveInstanceContent ==
  ASSUME NEW b, Pending(b), Contents(b), NEW i \in b.instances,
         NEW o, i.shape # o.shape, Room(b, o), NEW c, c = RemoveInstance(b, i)
  PROVE  Contents(c) /\ Room(c, o)
<1> DEFINE a == RemoveInstances(b, {i}, i.shape)
<1>1. /\ a.instances = b.instances \ {i} /\ a.bodies = DecrementBodyRefs(b.bodies, {i})
      /\ DOMAIN a.groups = DOMAIN b.groups
      /\ DOMAIN a = {"groups", "instances", "bodies", "summary"}
  BY DEF RemoveInstances, Pending, Sound, Typed
<1>2. c = IF InstancesOf(a, i.shape) = {} THEN WithoutGroup(a, i.shape) ELSE a
  BY DEF RemoveInstance
<1> HIDE DEF a
<1>3. /\ c.instances = b.instances \ {i} /\ c.bodies = DecrementBodyRefs(b.bodies, {i})
      /\ DOMAIN c.groups \subseteq DOMAIN b.groups
      /\ o.shape \in DOMAIN b.groups => o.shape \in DOMAIN c.groups
  BY <1>1, <1>2 DEF WithoutGroup
<1>4. IsFiniteSet(b.instances) /\ {i} \in SUBSET b.instances
  BY DEF Pending, Sound, Typed
<1>5. Contents(c)
  BY <1>3, <1>4, RemovedContent
<1>6. Room(c, o)
  <2>1. IsFiniteSet(DOMAIN b.groups)
    BY DEF Contents, GroupsFit
  <2>2. /\ Cardinality(DOMAIN c.groups) <= Cardinality(DOMAIN b.groups)
        /\ Cardinality(DOMAIN c.groups) \in Nat /\ Cardinality(DOMAIN b.groups) \in Nat
    BY <1>3, <2>1, FS_Subset, FS_CardinalityType
  <2> QED BY <1>3, <2>2 DEF Room
<1> QED BY <1>5, <1>6

\* The fields of the builder are those of its next value, and finalize is still to come.
LEMMA BecomeContent ==
  ASSUME RedirectsGoForward, NEW c, Contents(c), Become(c)
  PROVE  ContentInv'
<1>1. /\ Builder'.groups = c.groups /\ Builder'.instances = c.instances
      /\ Builder'.bodies = c.bodies
  BY DEF Become, Builder
<1>2. Contents(Builder)'
  <2>1. Told(Builder)' /\ Distinct(Builder)'
    BY <1>1 DEF Contents, Told, Distinct
  <2>2. GroupsFit(Builder)'
    BY <1>1 DEF Contents, GroupsFit
  <2>3. BodiesCounted(Builder)'
    BY <1>1 DEF Contents, BodiesCounted
  <2> QED BY <2>1, <2>2, <2>3 DEF Contents
<1>3. redirects' = redirects
  BY DEF Become
<1>4. RedirectsGoForward'
  BY <1>3 DEF RedirectsGoForward
<1> QED BY <1>2, <1>4 DEF ContentInv

\* A bucket is no part of the contents.
LEMMA CountContent ==
  ASSUME NEW b, Pending(b), Contents(b), NEW bucket, NEW c, c = Count(b, bucket)
  PROVE  Contents(c)
<1>1. c.instances = b.instances /\ c.bodies = b.bodies /\ c.groups = b.groups
  BY DEF Count, Pending, Sound, Typed
<1> QED BY <1>1, SameContent

LEMMA ToInstancesContent ==
  ASSUME RedirectsGoForward, NEW b, Pending(b), Contents(b), NEW o \in Offered, Room(b, o),
         ToInstances(b, o)
  PROVE  ContentInv'
<1>1. CASE Become(Commit(b, o))
  <2>1. PICK c : c = Commit(b, o)
    OBVIOUS
  <2>2. Contents(c) /\ Become(c)
    BY <1>1, <2>1, CommitContent
  <2> QED BY <2>2, BecomeContent
<1>2. ASSUME NEW i \in b.instances, WorthLess(i.shape, o.shape),
             Become(Commit(RemoveInstance(b, i), o))
      PROVE  ContentInv'
  <2>1. PICK a : a = RemoveInstance(b, i)
    OBVIOUS
  <2>2. PICK c : c = Commit(a, o)
    OBVIOUS
  <2>3. i.shape # o.shape
    BY <1>2, PriorityScoreType DEF WorthLess
  <2>4. Pending(a)
    BY <2>1, RemoveInstanceSound
  <2>5. Contents(a) /\ Room(a, o)
    BY <2>1, <2>3, RemoveInstanceContent
  <2>6. Contents(c) /\ Become(c)
    BY <1>2, <2>1, <2>2, <2>4, <2>5, CommitContent
  <2> QED BY <2>6, BecomeContent
<1>3. CASE Become(Count(b, "droppedByInstanceCap"))
  <2>1. PICK c : c = Count(b, "droppedByInstanceCap")
    OBVIOUS
  <2>2. Contents(c) /\ Become(c)
    BY <1>3, <2>1, CountContent
  <2> QED BY <2>2, BecomeContent
<1> QED BY <1>1, <1>2, <1>3 DEF ToInstances

LEMMA ObservedContent ==
  ASSUME BuilderInv, ContentInv, NEW b, b = Observed
  PROVE  Pending(b) /\ Contents(b) /\ b.groups = groups /\ b.instances = instances
<1>1. /\ Pending(b) /\ b.groups = groups /\ b.instances = instances /\ b.bodies = bodies
  BY ObservedPending
<1>2. Builder.groups = groups /\ Builder.instances = instances /\ Builder.bodies = bodies
  BY DEF Builder
<1>3. Contents(b)
  BY <1>1, <1>2, SameContent DEF ContentInv
<1> QED BY <1>1, <1>3

LEMMA SeenContent ==
  ASSUME NEW a, Pending(a), Contents(a), NEW o \in Offered, o.shape \in DOMAIN a.groups,
         NEW b, b = Seen(a, o)
  PROVE  Pending(b) /\ Contents(b) /\ Room(b, o)
<1>1. b.instances = a.instances /\ b.bodies = a.bodies
  BY DEF Seen, Pending, Sound, Typed
<1>2. Pending(b) /\ DOMAIN b.groups = DOMAIN a.groups
  BY SeenPending
<1>3. Contents(b)
  BY <1>1, <1>2, SameContent
<1> QED BY <1>2, <1>3 DEF Room

LEMMA AdmitContent ==
  ASSUME BuilderInv, ContentInv, NEW o \in Offered,
         DropStaticAsset(o) \/ SuppressDuplicate(o) \/ AdmitKnown(o) \/ AdmitNew(o)
  PROVE  ContentInv'
<1>1. PICK a : a = Observed
  OBVIOUS
<1>2. Pending(a) /\ Contents(a) /\ a.groups = groups /\ a.instances = instances
  BY <1>1, ObservedContent
<1>3. RedirectsGoForward
  BY DEF ContentInv
<1>4. CASE DropStaticAsset(o)
  <2>1. PICK c : c = Count(a, "droppedByFilter")
    OBVIOUS
  <2>2. Contents(c) /\ Become(c)
    BY <1>1, <1>2, <1>4, <2>1, CountContent DEF DropStaticAsset
  <2> QED BY <1>3, <2>2, BecomeContent
<1>5. CASE SuppressDuplicate(o)
  <2>1. PICK b : b = Seen(a, o)
    OBVIOUS
  <2>2. Pending(b) /\ Contents(b)
    BY <1>2, <1>5, <2>1, SeenContent DEF SuppressDuplicate, IsKnown
  <2>3. PICK d : d = Count(b, "suppressed")
    OBVIOUS
  <2>4. PICK c : c = [d EXCEPT !.groups[o.shape] = SuppressedGroup(@)]
    OBVIOUS
  <2>5. Become(c)
    BY <1>1, <1>5, <2>1, <2>3, <2>4 DEF SuppressDuplicate
  <2>6. /\ d.instances = b.instances /\ d.bodies = b.bodies /\ d.groups = b.groups
        /\ DOMAIN d = {"groups", "instances", "bodies", "summary"}
    BY <2>2, <2>3 DEF Count, Pending, Sound, Typed
  <2>7. c.instances = b.instances /\ c.bodies = b.bodies /\ DOMAIN c.groups = DOMAIN b.groups
    BY <2>4, <2>6
  <2>8. Contents(c)
    BY <2>2, <2>7, SameContent
  <2> QED BY <1>3, <2>5, <2>8, BecomeContent
<1>6. CASE AdmitKnown(o)
  <2>1. PICK b : b = Seen(a, o)
    OBVIOUS
  <2>2. Pending(b) /\ Contents(b) /\ Room(b, o)
    BY <1>2, <1>6, <2>1, SeenContent DEF AdmitKnown, IsKnown
  <2>3. ToInstances(b, o)
    BY <1>1, <1>6, <2>1 DEF AdmitKnown
  <2> QED BY <1>3, <2>2, <2>3, ToInstancesContent
<1>7. CASE AdmitNew(o)
  <2>1. CASE Cardinality(DOMAIN groups) < GroupsCap /\ ToInstances(a, o)
    BY <1>2, <1>3, <2>1, ToInstancesContent DEF Room
  <2>2. ASSUME NEW s \in DOMAIN groups, ToInstances(RemoveGroup(a, s), o)
        PROVE  ContentInv'
    <3>1. PICK b : b = RemoveGroup(a, s)
      OBVIOUS
    <3>2. Contents(b) /\ Room(b, o)
      BY <1>2, <3>1, RemoveGroupContent
    <3>3. Pending(b)
      BY <1>2, <3>1, RemoveGroupSound
    <3> QED BY <1>3, <2>2, <3>1, <3>2, <3>3, ToInstancesContent
  <2>3. CASE Become(Count(a, "droppedByGroupCap"))
    <3>1. PICK c : c = Count(a, "droppedByGroupCap")
      OBVIOUS
    <3>2. Contents(c) /\ Become(c)
      BY <1>2, <2>3, <3>1, CountContent
    <3> QED BY <1>3, <3>2, BecomeContent
  <2> QED BY <1>1, <1>7, <2>1, <2>2, <2>3 DEF AdmitNew
<1> QED BY <1>4, <1>5, <1>6, <1>7

\* The order of time, and then of numbers, tells the instances apart.
LEMMA InstancesOrdered ==
  ASSUME BuilderInv, ContentInv
  PROVE  Ordered(instances)
<1>1. Builder.instances = instances
  BY DEF Builder
<1>2. IsFiniteSet(instances) /\ \A i \in instances : i.number \in Nat
  BY <1>1 DEF BuilderInv, Sound, Typed, NumbersBelow
<1>3. \A i \in instances : i.offset \in Nat
  BY <1>1, BuilderAssumption DEF ContentInv, Contents, Told, TellsOf, Observation
<1>4. \A i, j \in instances : i.number = j.number => i = j
  BY <1>1 DEF ContentInv, Contents, Distinct
<1> QED BY <1>2, <1>3, <1>4 DEF Ordered

\* finalize: the instances are in an order, and every redirect follows it.
LEMMA FinalizeContent ==
  ASSUME BuilderInv, ContentInv, Finalize
  PROVE  ContentInv'
<1>1. Builder.groups = groups /\ Builder.instances = instances /\ Builder.bodies = bodies
  BY DEF Builder
<1>2. Builder' = Builder
  BY DEF Finalize, Builder
<1>3. Contents(Builder)'
  <2>1. Told(Builder)' /\ Distinct(Builder)'
    BY <1>2 DEF ContentInv, Contents, Told, Distinct
  <2>2. GroupsFit(Builder)'
    BY <1>2 DEF ContentInv, Contents, GroupsFit
  <2>3. BodiesCounted(Builder)'
    BY <1>2 DEF ContentInv, Contents, BodiesCounted
  <2> QED BY <2>1, <2>2, <2>3 DEF Contents
<1>4. Ordered(instances)
  BY InstancesOrdered
<1>5. RedirectsGoForward'
  <2>1. CASE redirects' = {}
    BY <2>1 DEF RedirectsGoForward
  <2>2. CASE redirects' = AnnotateRedirects(instances)
    <3>1. Forward(instances, redirects', instances)
      BY <1>4, <2>2, RedirectsForward
    <3> QED BY <3>1 DEF Forward, RedirectsGoForward
  <2> QED BY <2>1, <2>2 DEF Finalize
<1> QED BY <1>3, <1>5 DEF ContentInv

LEMMA ContentInit == BuilderInit => ContentInv
<1> SUFFICES ASSUME BuilderInit PROVE ContentInv
  OBVIOUS
<1>1. /\ Builder.groups = groups /\ Builder.instances = {} /\ Builder.bodies = bodies
      /\ DOMAIN groups = {} /\ DOMAIN bodies = {} /\ redirects = {}
  BY DEF Builder, BuilderInit
<1>2. IsFiniteSet({}) /\ Cardinality({}) = 0
  BY FS_EmptySet
<1>3. GroupsFit(Builder) /\ BodiesCounted(Builder)
  BY <1>1, <1>2, BuilderAssumption DEF GroupsFit, BodiesCounted, BodiesFit
<1>4. Told(Builder) /\ Distinct(Builder) /\ RedirectsGoForward
  BY <1>1 DEF Told, Distinct, RedirectsGoForward
<1> QED BY <1>3, <1>4 DEF ContentInv, Contents

LEMMA ContentStep == BuilderInv /\ ContentInv /\ [BuilderNext]_builderVars => ContentInv'
<1> SUFFICES ASSUME BuilderInv, ContentInv, [BuilderNext]_builderVars PROVE ContentInv'
  OBVIOUS
<1>1. CASE UNCHANGED builderVars
  BY <1>1 DEF builderVars, ContentInv, Builder, RedirectsGoForward, Contents, Told, Distinct,
              GroupsFit, BodiesCounted
<1> QED BY <1>1, AdmitContent, FinalizeContent DEF BuilderNext

\* What the report of an attempt's network says is consistent, for any requests in any order
\* and under any limits: it is accounted for, nothing that was evicted is pointed at and no
\* body stays for nobody, the limits hold, redirects lead forward, and what is told of a
\* request was told of that one.
THEOREM NetworkIsConsistent == BuilderSpec => []NetworkReportIsConsistent
<1>1. BuilderInv /\ ContentInv /\ Accounted => NetworkReportIsConsistent
  <2> SUFFICES ASSUME BuilderInv, ContentInv PROVE
               NothingDangles /\ WithinCaps /\ RedirectsGoForward /\ EachTellsOfItself
    BY DEF NetworkReportIsConsistent
  <2>1. Builder.groups = groups /\ Builder.instances = instances /\ Builder.bodies = bodies
    BY DEF Builder
  <2>2. NothingDangles
    <3>1. DOMAIN groups = {i.shape : i \in instances}
      <4>1. \A i \in instances : i.shape \in DOMAIN groups
        BY <2>1 DEF BuilderInv, Sound, Housed
      <4>2. \A s \in DOMAIN groups : \E i \in instances : i.shape = s
        BY <2>1 DEF BuilderInv, Sound, Housed
      <4> QED BY <4>1, <4>2
    <3> QED BY <2>1, <3>1 DEF ContentInv, Contents, BodiesCounted, NothingDangles
  <2>3. WithinCaps
    BY <2>1 DEF BuilderInv, Sound, ContentInv, Contents, GroupsFit, BodiesCounted, BodiesFit,
                WithinCaps
  <2> QED BY <2>1, <2>2, <2>3 DEF ContentInv, Contents, Told, EachTellsOfItself
<1> QED BY BuilderCorrect, AlwaysAccounted, ContentInit, ContentStep, <1>1, PTL DEF BuilderSpec

-----------------------------------------------------------------------------
(* The report. *)

\* What is appended is last, and the rest stays.
LEMMA AppendedLast ==
  ASSUME NEW S, NEW s \in Seq(S), NEW e \in S
  PROVE  /\ Append(s, e) \in Seq(S) /\ Append(s, e) # <<>>
         /\ Len(Append(s, e)) = Len(s) + 1 /\ Len(s) \in Nat
         /\ Last(Append(s, e)) = e
         /\ DOMAIN Append(s, e) = 1 .. Len(s) + 1 /\ DOMAIN s = 1 .. Len(s)
         /\ \A i \in 1 .. Len(s) : Append(s, e)[i] = s[i]
         /\ Append(s, e)[Len(s) + 1] = e
  BY DEF Last

LEMMA AttemptTyped ==
  ASSUME NEW number \in Nat, NEW status \in Statuses, NEW errored \in BOOLEAN,
         NEW collected \in BOOLEAN, NEW joined \in BOOLEAN
  PROVE  /\ BuildAttemptResult(number, status, errored, collected, joined) \in AttemptRecords
         /\ BuildAttemptResult(number, status, errored, collected, joined).status = status
<1>1. ErrorOf(status, errored, collected) \in {"none", "plain", "enriched"}
  BY DEF ErrorOf, Statuses
<1> QED BY <1>1 DEF BuildAttemptResult, AttemptRecords

\* An attempt that ends keeps an entry in step with the results.
LEMMA EntryAfter ==
  ASSUME NEW entry, NEW statuses \in Seq(Statuses),
         IF statuses = <<>> THEN entry = NoEntry ELSE EntryIsOf(entry, statuses),
         NEW status \in Statuses, NEW errored \in BOOLEAN, NEW collected \in BOOLEAN,
         NEW joined \in BOOLEAN,
         NEW attempt,
         attempt = BuildAttemptResult(Len(statuses) + 1, status, errored, collected, joined),
         NEW all, all = Append(statuses, status),
         NEW new, new = [status |-> status, flaky |-> IsFlaky(status, Len(all) - 1),
                         retries |-> Len(all) - 1, error |-> EntryError(entry, attempt),
                         attempts |-> Append(entry.attempts, attempt)]
  PROVE  all # <<>> /\ EntryIsOf(new, all)
<1>1. /\ all \in Seq(Statuses) /\ all # <<>> /\ Len(all) = Len(statuses) + 1
      /\ Len(statuses) \in Nat /\ Last(all) = status
      /\ DOMAIN all = 1 .. Len(statuses) + 1 /\ DOMAIN statuses = 1 .. Len(statuses)
      /\ \A i \in 1 .. Len(statuses) : all[i] = statuses[i]
      /\ all[Len(statuses) + 1] = status
  BY AppendedLast
<1>2. attempt \in AttemptRecords /\ attempt.status = status
  BY <1>1, AttemptTyped
<1>3. /\ entry.attempts \in Seq(AttemptRecords) /\ Len(entry.attempts) = Len(statuses)
      /\ \A i \in DOMAIN statuses : entry.attempts[i].status = statuses[i]
  <2>1. CASE statuses = <<>>
    <3>1. entry.attempts = <<>>
      BY <2>1 DEF NoEntry
    <3>2. <<>> \in Seq(AttemptRecords) /\ Len(<<>>) = 0
      BY EmptySeq
    <3> QED BY <2>1, <3>1, <3>2
  <2>2. CASE statuses # <<>>
    BY <2>2 DEF EntryIsOf, AttemptRecords
  <2> QED BY <2>1, <2>2
<1> DEFINE attempts == Append(entry.attempts, attempt)
<1>4. /\ attempts \in Seq(AttemptRecords) /\ Len(attempts) = Len(statuses) + 1
      /\ Last(attempts) = attempt
      /\ \A i \in 1 .. Len(statuses) : attempts[i] = entry.attempts[i]
      /\ attempts[Len(statuses) + 1] = attempt
  BY <1>2, <1>3, AppendedLast
<1> HIDE DEF attempts
<1>5. new = [status |-> status, flaky |-> IsFlaky(status, Len(all) - 1),
             retries |-> Len(all) - 1, error |-> attempt.error, attempts |-> attempts]
  BY DEF attempts, EntryError
<1>9. IsFlaky(status, Len(all) - 1) = (Last(all) = "passed" /\ Len(all) > 1)
  BY <1>1 DEF IsFlaky
<1>6. new.attempts = attempts /\ Last(new.attempts).error = attempt.error
  <2>1. new.attempts = attempts
    BY <1>5
  <2> QED BY <1>4, <2>1
<1>7. \A i \in DOMAIN all : new.attempts[i].status = all[i]
  BY <1>1, <1>2, <1>3, <1>4, <1>6
<1>8. new = [status |-> Last(all), flaky |-> Last(all) = "passed" /\ Len(all) > 1,
             retries |-> Len(all) - 1, error |-> Last(new.attempts).error,
             attempts |-> new.attempts]
  BY <1>1, <1>5, <1>6, <1>9
<1> QED BY <1>1, <1>4, <1>6, <1>7, <1>8 DEF EntryIsOf

LEMMA ReporterInvInit == ReporterInit => ReporterInv
<1> SUFFICES ASSUME ReporterInit PROVE ReporterInv
  OBVIOUS
<1>1. LoadedInv
  BY DEF ReporterInit, LoadedInv
<1>2. EntriesInv
  BY DEF ReporterInit, EntriesInv
<1>3. FileInv
  BY DEF ReporterInit, FileInv
<1> QED BY <1>1, <1>2, <1>3 DEF ReporterInv

\* The report is made of the run, its entries and its errors.
LEMMA ReportSame ==
  ASSUME UNCHANGED <<runNumber, entries, globalErrors>>
  PROVE  Report' = Report
BY DEF Report, Summary, Reported

LEMMA ReporterInvStep == ReporterInv /\ [ReporterNext]_reporterVars => ReporterInv'
<1> SUFFICES ASSUME ReporterInv, [ReporterNext]_reporterVars PROVE ReporterInv'
  OBVIOUS
<1> USE DEF ReporterInv
<1>1. CASE OnBegin
  <2>1. results' = [t \in Tests |-> <<>>] /\ entries' = [t \in Tests |-> NoEntry]
    BY <1>1 DEF OnBegin, LoadedInv
  <2>2. LoadedInv' /\ FileInv'
    BY <1>1 DEF OnBegin, LoadedInv, FileInv, FileAtBegin
  <2>3. EntriesInv'
    BY <2>1 DEF EntriesInv
  <2> QED BY <2>2, <2>3
<1>2. CASE OnError
  <2>1. UNCHANGED <<results, entries, phase, outputFile>> /\ phase = "running"
    BY <1>2 DEF OnError
  <2> QED BY <2>1 DEF LoadedInv, EntriesInv, FileInv
<1>3. CASE OnEndAlone
  <2>1. UNCHANGED <<results, entries, outputFile>> /\ phase' = "unused"
    BY <1>3 DEF OnEndAlone
  <2> QED BY <2>1 DEF LoadedInv, EntriesInv, FileInv
<1>4. CASE NextRun
  <2>1. /\ results' = [t \in Tests |-> <<>>] /\ entries' = [t \in Tests |-> NoEntry]
        /\ phase' = "loaded"
    BY <1>4 DEF NextRun
  <2> QED BY <2>1 DEF LoadedInv, EntriesInv, FileInv
<1>5. ASSUME NEW t \in Tests, NEW status \in Statuses, NEW errored \in BOOLEAN,
             NEW collected \in BOOLEAN, NEW joined \in BOOLEAN,
             OnTestEnd(t, status, errored, collected, joined)
      PROVE  ReporterInv'
  <2>1. UNCHANGED <<phase, outputFile>> /\ phase = "running"
    BY <1>5 DEF OnTestEnd
  <2>2. LoadedInv' /\ FileInv'
    BY <2>1 DEF LoadedInv, FileInv
  <2> DEFINE statuses == results[t]
             all == Append(statuses, status)
             attempt == BuildAttemptResult(Len(statuses) + 1, status, errored, collected, joined)
             new == [status |-> status, flaky |-> IsFlaky(status, Len(all) - 1),
                     retries |-> Len(all) - 1, error |-> EntryError(entries[t], attempt),
                     attempts |-> Append(entries[t].attempts, attempt)]
  <2>3. statuses \in Seq(Statuses) /\ DOMAIN entries = Tests /\ DOMAIN results = Tests
    BY DEF EntriesInv
  <2>4. Len(all) = Len(statuses) + 1 /\ Len(statuses) \in Nat /\ all \in Seq(Statuses)
    BY <2>3, AppendedLast
  <2>5. results' = [results EXCEPT ![t] = all]
    BY <1>5 DEF OnTestEnd
  <2>6. results'[t] = all
    BY <2>3, <2>5
  <2>7. Len(results'[t]) - 1 + 1 = Len(statuses) + 1
    BY <2>4, <2>6
  <2>8. entries' = [entries EXCEPT ![t] = new]
    BY <1>5, <2>4, <2>6, <2>7 DEF OnTestEnd
  <2>9. all # <<>> /\ EntryIsOf(new, all)
    <3>1. IF statuses = <<>> THEN entries[t] = NoEntry ELSE EntryIsOf(entries[t], statuses)
      BY DEF EntriesInv
    <3>2. /\ all = Append(statuses, status)
          /\ attempt = BuildAttemptResult(Len(statuses) + 1, status, errored, collected, joined)
      OBVIOUS
    <3>3. new = [status |-> status, flaky |-> IsFlaky(status, Len(all) - 1),
                 retries |-> Len(all) - 1, error |-> EntryError(entries[t], attempt),
                 attempts |-> Append(entries[t].attempts, attempt)]
      OBVIOUS
    <3> HIDE DEF statuses, all, attempt, new
    <3>4. \A a, b, c : /\ a = BuildAttemptResult(Len(statuses) + 1, status, errored,
                                                 collected, joined)
                       /\ b = Append(statuses, status)
                       /\ c = [status |-> status, flaky |-> IsFlaky(status, Len(b) - 1),
                               retries |-> Len(b) - 1, error |-> EntryError(entries[t], a),
                               attempts |-> Append(entries[t].attempts, a)]
                       => b # <<>> /\ EntryIsOf(c, b)
      BY <2>3, <3>1, EntryAfter, Zenon
    <3> QED BY <3>2, <3>3, <3>4, Zenon
  <2> HIDE DEF new, all, statuses, attempt
  <2>10. ASSUME NEW u \in Tests
         PROVE  IF results'[u] = <<>> THEN entries'[u] = NoEntry
                ELSE EntryIsOf(entries'[u], results'[u])
    <3>1. CASE u = t
      BY <2>3, <2>5, <2>8, <2>9, <3>1
    <3>2. CASE u # t
      BY <2>3, <2>5, <2>8, <3>2 DEF EntriesInv
    <3> QED BY <3>1, <3>2
  <2>11. results' \in [Tests -> Seq(Statuses)] /\ DOMAIN entries' = Tests
    BY <2>4, <2>5, <2>8 DEF EntriesInv
  <2>12. EntriesInv'
    BY <2>10, <2>11 DEF EntriesInv
  <2> QED BY <2>2, <2>12
<1>6. ASSUME NEW fails \in BOOLEAN, OnEnd(fails) PROVE ReporterInv'
  <2>1. /\ phase = "running" /\ phase' = "ended"
        /\ outputFile' = IF fails THEN outputFile ELSE Report
        /\ UNCHANGED <<runNumber, results, entries, globalErrors>>
    BY <1>6 DEF OnEnd
  <2>2. Report' = Report
    BY <2>1, ReportSame
  <2> QED BY <2>1, <2>2 DEF LoadedInv, EntriesInv, FileInv
<1>7. ASSUME NEW left \in BOOLEAN, NEW renamed \in BOOLEAN, Dies(left, renamed)
      PROVE  ReporterInv'
  <2>1. /\ phase = "running" /\ phase' = "ended"
        /\ outputFile' = IF renamed THEN Report ELSE outputFile
        /\ UNCHANGED <<runNumber, results, entries, globalErrors>>
    BY <1>7 DEF Dies
  <2>2. Report' = Report
    BY <2>1, ReportSame
  <2> QED BY <2>1, <2>2 DEF LoadedInv, EntriesInv, FileInv
<1>8. CASE UNCHANGED reporterVars
  <2>1. UNCHANGED <<phase, runNumber, results, entries, globalErrors, outputFile>>
    BY <1>8 DEF reporterVars
  <2>2. Report' = Report
    BY <2>1, ReportSame
  <2> QED BY <2>1, <2>2 DEF LoadedInv, EntriesInv, FileInv
<1> QED BY <1>1, <1>2, <1>3, <1>4, <1>5, <1>6, <1>7, <1>8 DEF ReporterNext

\* What is finite is counted by its parts.
LEMMA CountParts ==
  ASSUME NEW S, IsFiniteSet(S), NEW A, NEW B, A \subseteq S, B \subseteq S,
         \A x \in A : x \notin B
  PROVE  /\ Cardinality(A \cup B) = Cardinality(A) + Cardinality(B)
         /\ Cardinality(A) \in Nat /\ Cardinality(B) \in Nat
<1>1. IsFiniteSet(A) /\ IsFiniteSet(B)
  BY FS_Subset
<1>2. Cardinality(A) \in Nat /\ Cardinality(B) \in Nat
  BY <1>1, FS_CardinalityType
<1>3. Cardinality(A \cup B) = Cardinality(A) + Cardinality(B) - Cardinality(A \cap B)
  BY <1>1, FS_Union
<1>4. Cardinality(A \cap B) = 0
  <2>1. A \cap B = {}
    OBVIOUS
  <2> QED BY <2>1, FS_EmptySet
<1> QED BY <1>2, <1>3, <1>4

\* The summary counts a test that is in the report in one place.
LEMMA SummaryAddsUp ==
  ASSUME EntriesInv, ReporterAssumption
  PROVE  Summary["total"] = Summary["passed"] + Summary["failed"] + Summary["timedOut"] +
                            Summary["skipped"] + Summary["interrupted"] + Summary["flaky"]
<1> DEFINE Flaky == {t \in Reported : entries[t].flaky}
           Of(k) == {t \in Reported : ~entries[t].flaky /\ entries[t].status = k}
<1>1. IsFiniteSet(Reported)
  BY FS_Subset DEF Reported, ReporterAssumption
<1>2. \A t \in Reported : entries[t].status \in Statuses
  <2> TAKE t \in Reported
  <2>1. t \in Tests /\ results[t] # <<>> /\ EntryIsOf(entries[t], results[t])
    BY DEF Reported, EntriesInv
  <2>2. results[t] \in Seq(Statuses)
    BY <2>1 DEF EntriesInv
  <2>3. Last(results[t]) \in Statuses
    BY <2>1, <2>2 DEF Last
  <2> QED BY <2>1, <2>3 DEF EntryIsOf
<1>3. /\ Summary["total"] = Cardinality(Reported) /\ Summary["flaky"] = Cardinality(Flaky)
      /\ Summary["passed"] = Cardinality(Of("passed"))
      /\ Summary["failed"] = Cardinality(Of("failed"))
      /\ Summary["timedOut"] = Cardinality(Of("timedOut"))
      /\ Summary["skipped"] = Cardinality(Of("skipped"))
      /\ Summary["interrupted"] = Cardinality(Of("interrupted"))
  BY DEF Summary, Statuses
<1> DEFINE Late == Of("skipped") \cup Of("interrupted")
           Bad == Of("timedOut") \cup Late
           Broken == Of("failed") \cup Bad
           Plain == Of("passed") \cup Broken
<1>4. Reported = Flaky \cup Plain
  BY <1>2 DEF Statuses
<1>5. /\ Cardinality(Flaky) \in Nat /\ Cardinality(Of("passed")) \in Nat
      /\ Cardinality(Of("failed")) \in Nat /\ Cardinality(Of("timedOut")) \in Nat
      /\ Cardinality(Of("skipped")) \in Nat /\ Cardinality(Of("interrupted")) \in Nat
  <2>1. /\ IsFiniteSet(Flaky) /\ \A k : IsFiniteSet(Of(k))
    <3>1. Flaky \subseteq Reported /\ \A k : Of(k) \subseteq Reported
      OBVIOUS
    <3> HIDE DEF Flaky, Of
    <3> QED BY <1>1, <3>1, FS_Subset
  <2> HIDE DEF Flaky, Of
  <2> QED BY <2>1, FS_CardinalityType
<1>6. /\ Of("skipped") \subseteq Reported /\ Of("interrupted") \subseteq Reported
      /\ \A x \in Of("skipped") : x \notin Of("interrupted")
  OBVIOUS
<1>7. /\ Of("timedOut") \subseteq Reported /\ Late \subseteq Reported
      /\ \A x \in Of("timedOut") : x \notin Late
  OBVIOUS
<1>8. /\ Of("failed") \subseteq Reported /\ Bad \subseteq Reported
      /\ \A x \in Of("failed") : x \notin Bad
  OBVIOUS
<1>9. /\ Of("passed") \subseteq Reported /\ Broken \subseteq Reported
      /\ \A x \in Of("passed") : x \notin Broken
  OBVIOUS
<1>10. /\ Flaky \subseteq Reported /\ Plain \subseteq Reported
       /\ \A x \in Flaky : x \notin Plain
  OBVIOUS
<1> HIDE DEF Flaky, Of
<1>11. Cardinality(Late) = Cardinality(Of("skipped")) + Cardinality(Of("interrupted"))
  BY <1>1, <1>6, CountParts
<1>12. Cardinality(Bad) = Cardinality(Of("timedOut")) + Cardinality(Late)
  BY <1>1, <1>7, CountParts
<1>13. Cardinality(Broken) = Cardinality(Of("failed")) + Cardinality(Bad)
  BY <1>1, <1>8, CountParts
<1>14. Cardinality(Plain) = Cardinality(Of("passed")) + Cardinality(Broken)
  BY <1>1, <1>9, CountParts
<1>15. Cardinality(Reported) = Cardinality(Flaky) + Cardinality(Plain)
  BY <1>1, <1>10, <1>4, CountParts
<1> QED BY <1>3, <1>5, <1>11, <1>12, <1>13, <1>14, <1>15

\* Each test that ended is in the report as the property says.
LEMMA ReportTells ==
  ASSUME EntriesInv
  PROVE  /\ Report.tests =
              {<<t, [status   |-> Last(results[t]),
                     flaky    |-> Last(results[t]) = "passed" /\ Len(results[t]) > 1,
                     retries  |-> Len(results[t]) - 1,
                     error    |-> Last(entries[t].attempts).error,
                     attempts |-> entries[t].attempts]>> : t \in {s \in Tests : results[s] # <<>>}}
         /\ \A t \in Tests :
              [i \in DOMAIN results[t] |-> entries[t].attempts[i].status] = results[t]
<1>1. ASSUME NEW t \in Tests, results[t] # <<>>
      PROVE  /\ entries[t] # NoEntry
             /\ entries[t] = [status   |-> Last(results[t]),
                     flaky    |-> Last(results[t]) = "passed" /\ Len(results[t]) > 1,
                     retries  |-> Len(results[t]) - 1,
                     error    |-> Last(entries[t].attempts).error,
                     attempts |-> entries[t].attempts]
             /\ \A i \in DOMAIN results[t] : entries[t].attempts[i].status = results[t][i]
  <2>1. EntryIsOf(entries[t], results[t]) /\ results[t] \in Seq(Statuses)
    BY <1>1 DEF EntriesInv
  <2>2. Last(results[t]) \in Statuses
    BY <1>1, <2>1 DEF Last
  <2>3. entries[t].status # "none"
    BY <2>1, <2>2 DEF EntryIsOf, Statuses
  <2>4. NoEntry.status = "none"
    BY DEF NoEntry
  <2> QED BY <2>1, <2>3, <2>4 DEF EntryIsOf
<1>2. Reported = {s \in Tests : results[s] # <<>>}
  BY <1>1 DEF Reported, EntriesInv
<1>3. Report.tests = {<<t, entries[t]>> : t \in {s \in Tests : results[s] # <<>>}}
  BY <1>2 DEF Report
<1>4. ASSUME NEW t \in Tests
      PROVE  [i \in DOMAIN results[t] |-> entries[t].attempts[i].status] = results[t]
  <2>1. results[t] \in Seq(Statuses)
    BY DEF EntriesInv
  <2>2. \A i \in DOMAIN results[t] : entries[t].attempts[i].status = results[t][i]
    <3>1. CASE results[t] = <<>>
      BY <3>1
    <3>2. CASE results[t] # <<>>
      BY <1>1, <3>2
    <3> QED BY <3>1, <3>2
  <2> QED BY <2>1, <2>2
<1> DEFINE Tells(t) == [status   |-> Last(results[t]),
                        flaky    |-> Last(results[t]) = "passed" /\ Len(results[t]) > 1,
                        retries  |-> Len(results[t]) - 1,
                        error    |-> Last(entries[t].attempts).error,
                        attempts |-> entries[t].attempts]
<1>5. \A t \in {s \in Tests : results[s] # <<>>} : entries[t] = Tells(t)
  BY <1>1
<1>6. {<<t, entries[t]>> : t \in {s \in Tests : results[s] # <<>>}} =
        {<<t, Tells(t)>> : t \in {s \in Tests : results[s] # <<>>}}
  <2> HIDE DEF Tells
  <2> QED BY <1>5
<1> QED BY <1>3, <1>4, <1>6

\* The report says what happened: no report stands in the file while a run is on, and the
\* one a run leaves holds each test once, by its last attempt, counted in one place
\* (onBegin, onTestEnd and onEnd, with runs that die and files that cannot be written).
THEOREM ReportsAreTrue == ReporterSpec => []ReportIsTrue
<1>1. ReporterInv => ReportIsTrue
  <2> SUFFICES ASSUME ReporterInv PROVE ReportIsTrue
    OBVIOUS
  <2>1. phase = "running" => outputFile = NoReport
    BY DEF ReporterInv, FileInv
  <2>2. ASSUME phase = "ended", outputFile # NoReport
        PROVE  outputFile = Report
    BY <2>2 DEF ReporterInv, FileInv
  <2>3. EntriesInv
    BY DEF ReporterInv
  <2>4. Report.run = runNumber /\ Report.summary = Summary
    BY DEF Report
  <2>5. Summary["total"] = Summary["passed"] + Summary["failed"] + Summary["timedOut"] +
                           Summary["skipped"] + Summary["interrupted"] + Summary["flaky"]
    BY <2>3, ReporterAssumption, SummaryAddsUp
  <2> HIDE DEF ReporterInv
  <2> QED BY <2>1, <2>2, <2>3, <2>4, <2>5, ReportTells DEF ReportIsTrue
<1>2. ReporterSpec => []ReporterInv
  BY ReporterInvInit, ReporterInvStep, PTL DEF ReporterSpec
<1> QED BY <1>1, <1>2, PTL
-----------------------------------------------------------------------------
(* ClientLifecycle: the records that are kept, and their size. *)

\* The loop that adds up the size of an attachment.
Adds(f, records) ==
  /\ f[0] = EmptyBytes
  /\ \A n \in 1 .. Len(records) :
       f[n] = f[n - 1] + SizeOf(records[n])
  /\ ByteLength(records) = f[Len(records)] + (IF records = <<>> THEN 0 ELSE Len(records) - 1)

\* It is there, and goes through numbers.
LEMMA AddsExist ==
  ASSUME NEW records, NEW M \in Nat, M = Len(records),
         \A n \in 1 .. M : SizeOf(records[n]) \in Nat
  PROVE  \E f \in [0 .. Len(records) -> Nat] : Adds(f, records)
<1>1. PICK N, S : N = Len(records) /\ S = Nat
  OBVIOUS
<1>2. N \in Nat /\ EmptyBytes \in S
  BY <1>1, LifecycleAssumption
<1>3. \A n \in 1 .. N : \A v \in S : v + SizeOf(records[n]) \in S
  BY <1>1
<1>4. PICK step : step = [n \in 1 .. N |-> [v \in S |->
                     v + SizeOf(records[n])]]
  OBVIOUS
<1>5. /\ step \in [1 .. N -> [S -> S]]
      /\ \A n \in 1 .. N : \A v \in S :
           step[n][v] = v + SizeOf(records[n])
  BY <1>3, <1>4
<1> DEFINE Turns(f) ==
             f = [n \in 0 .. N |->
                    IF n = 0 THEN EmptyBytes
                    ELSE f[n - 1] + SizeOf(records[n])]
<1>6. \A n \in 0 .. N : n # 0 => n \in 1 .. N /\ n - 1 \in 0 .. N
  BY <1>2
<1>7. \E f : Turns(f)
  <2>1. PICK f \in [0 .. N -> S] : Loops(f, N, EmptyBytes, step)
    BY <1>2, <1>5, LoopExists
  <2>2. f[0] = EmptyBytes /\ f = [n \in 0 .. N |-> f[n]]
    BY <2>1 DEF Loops
  <2>3. \A n \in 1 .. N : f[n] = f[n - 1] + SizeOf(records[n])
    <3> TAKE n \in 1 .. N
    <3>1. n - 1 \in 0 .. N
      BY <1>2
    <3>2. f[n - 1] \in S /\ f[n] = step[n][f[n - 1]]
      BY <2>1, <3>1 DEF Loops
    <3> QED BY <1>5, <3>2
  <2>4. \A n \in 0 .. N :
          f[n] = IF n = 0 THEN EmptyBytes
                 ELSE f[n - 1] + SizeOf(records[n])
    BY <1>6, <2>2, <2>3
  <2> QED BY <2>2, <2>4
<1>8. PICK f : f = (CHOOSE g : Turns(g)) /\ Turns(f)
  <2> HIDE DEF Turns
  <2> QED BY <1>7
<1>9. ByteLength(records) = f[N] + (IF records = <<>> THEN 0 ELSE N - 1)
  BY <1>1, <1>8 DEF ByteLength
<1>10. /\ f = [n \in 0 .. N |-> f[n]]
       /\ \A n \in 0 .. N :
            f[n] = IF n = 0 THEN EmptyBytes
                   ELSE f[n - 1] + SizeOf(records[n])
  BY <1>8
<1> HIDE DEF Turns
<1>11. f[0] = EmptyBytes
  <2>1. 0 \in 0 .. N
    BY <1>2
  <2> QED BY <1>10, <2>1
<1>12. \A n \in 1 .. N : f[n] = f[n - 1] + SizeOf(records[n])
  <2> TAKE n \in 1 .. N
  <2>1. n \in 0 .. N /\ n # 0
    BY <1>2
  <2> QED BY <1>10, <2>1
<1>13. LoopsIn(f, N, S, EmptyBytes, step)
  BY <1>5, <1>11, <1>12 DEF LoopsIn
<1>14. \A n \in 0 .. N : f[n] \in S
  BY <1>2, <1>5, <1>13, LoopStays
<1>15. f \in [0 .. N -> S]
  BY <1>10, <1>14
<1> QED BY <1>1, <1>9, <1>11, <1>12, <1>15 DEF Adds

\* The loop that fills an attachment.
Includes(f, offered) ==
  /\ f[0] = <<>>
  /\ \A n \in 1 .. Len(offered) :
       f[n] = Include(f[n - 1], offered[n])
  /\ \A records : offered = PrioritizeRecords(SanitizeRecords(records)) =>
       IncludedRecords(records) = f[Len(offered)]

\* It is there, and goes through lists of the same.
LEMMA IncludesExist ==
  ASSUME NEW T, NEW offered \in Seq(T)
  PROVE  \E f \in [0 .. Len(offered) -> Seq(T)] : Includes(f, offered)
<1>1. PICK N, S : N = Len(offered) /\ S = Seq(T)
  OBVIOUS
<1>2. N \in Nat /\ <<>> \in S /\ \A n \in 1 .. N : offered[n] \in T
  BY <1>1
<1>3. \A n \in 1 .. N : \A v \in S : Include(v, offered[n]) \in S
  BY <1>1, <1>2 DEF Include
<1>4. PICK step : step = [n \in 1 .. N |-> [v \in S |->
                     Include(v, offered[n])]]
  OBVIOUS
<1>5. /\ step \in [1 .. N -> [S -> S]]
      /\ \A n \in 1 .. N : \A v \in S :
           step[n][v] = Include(v, offered[n])
  BY <1>3, <1>4
<1> DEFINE Turns(f) ==
             f = [n \in 0 .. N |->
                    IF n = 0 THEN <<>>
                    ELSE Include(f[n - 1], offered[n])]
<1>6. \A n \in 0 .. N : n # 0 => n \in 1 .. N /\ n - 1 \in 0 .. N
  BY <1>2
<1>7. \E f : Turns(f)
  <2>1. PICK f \in [0 .. N -> S] : Loops(f, N, <<>>, step)
    BY <1>2, <1>5, LoopExists
  <2>2. f[0] = <<>> /\ f = [n \in 0 .. N |-> f[n]]
    BY <2>1 DEF Loops
  <2>3. \A n \in 1 .. N : f[n] = Include(f[n - 1], offered[n])
    <3> TAKE n \in 1 .. N
    <3>1. n - 1 \in 0 .. N
      BY <1>2
    <3>2. f[n - 1] \in S /\ f[n] = step[n][f[n - 1]]
      BY <2>1, <3>1 DEF Loops
    <3> QED BY <1>5, <3>2
  <2>4. \A n \in 0 .. N :
          f[n] = IF n = 0 THEN <<>>
                 ELSE Include(f[n - 1], offered[n])
    BY <1>6, <2>2, <2>3
  <2> QED BY <2>2, <2>4
<1>8. PICK f : f = (CHOOSE g : Turns(g)) /\ Turns(f)
  <2> HIDE DEF Turns
  <2> QED BY <1>7
<1>9. \A records : offered = PrioritizeRecords(SanitizeRecords(records)) =>
        IncludedRecords(records) = f[N]
  BY <1>1, <1>8 DEF IncludedRecords
<1>10. /\ f = [n \in 0 .. N |-> f[n]]
       /\ \A n \in 0 .. N :
            f[n] = IF n = 0 THEN <<>>
                   ELSE Include(f[n - 1], offered[n])
  BY <1>8
<1> HIDE DEF Turns
<1>11. f[0] = <<>>
  <2>1. 0 \in 0 .. N
    BY <1>2
  <2> QED BY <1>10, <2>1
<1>12. \A n \in 1 .. N : f[n] = Include(f[n - 1], offered[n])
  <2> TAKE n \in 1 .. N
  <2>1. n \in 0 .. N /\ n # 0
    BY <1>2
  <2> QED BY <1>10, <2>1
<1>13. LoopsIn(f, N, S, <<>>, step)
  BY <1>5, <1>11, <1>12 DEF LoopsIn
<1>14. \A n \in 0 .. N : f[n] \in S
  BY <1>2, <1>5, <1>13, LoopStays
<1>15. f \in [0 .. N -> S]
  BY <1>10, <1>14
<1> QED BY <1>1, <1>9, <1>11, <1>12, <1>15 DEF Includes

\* The size of no records, of some, and of one more.
LEMMA SizeOfNone == ByteLength(<<>>) = EmptyBytes /\ EmptyBytes \in Nat
<1>1. PICK none, N : none = <<>> /\ N = Len(none)
  OBVIOUS
<1>2. N \in Nat /\ N = 0 /\ \A n \in 1 .. N : SizeOf(none[n]) \in Nat
  BY <1>1
<1>3. PICK f \in [0 .. Len(none) -> Nat] : Adds(f, none)
  BY <1>1, <1>2, AddsExist
<1>4. ByteLength(none) = EmptyBytes
  BY <1>1, <1>2, <1>3, LifecycleAssumption DEF Adds
<1> QED BY <1>1, <1>4, LifecycleAssumption

\* The size of some records is known when theirs are.
LEMMA SizeOfSome ==
  ASSUME NEW T, NEW records \in Seq(T), \A r \in T : SizeOf(r) \in Nat
  PROVE  ByteLength(records) \in Nat
<1>1. PICK N \in Nat : N = Len(records) /\ \A n \in 1 .. N : SizeOf(records[n]) \in Nat
  OBVIOUS
<1>2. PICK f \in [0 .. Len(records) -> Nat] : Adds(f, records)
  BY <1>1, AddsExist
<1>3. f[N] \in Nat /\ ByteLength(records) = f[N] + (IF records = <<>> THEN 0 ELSE N - 1)
  BY <1>1, <1>2 DEF Adds
<1>4. records # <<>> => N >= 1
  BY <1>1
<1> QED BY <1>1, <1>3, <1>4

\* One more record adds its size and, unless it is the first, a separator.
LEMMA SizeOfMore ==
  ASSUME NEW T, NEW records \in Seq(T), NEW x \in T, \A r \in T : SizeOf(r) \in Nat
  PROVE  ByteLength(Append(records, x)) =
           ByteLength(records) + (IF records = <<>> THEN 0 ELSE 1) + SizeOf(x)
<1>1. PICK more, N : more = Append(records, x) /\ N = Len(records)
  OBVIOUS
<1>2. /\ more \in Seq(T) /\ more # <<>> /\ Len(more) = N + 1 /\ N \in Nat
      /\ more[N + 1] = x /\ \A n \in 1 .. N : more[n] = records[n]
  BY <1>1, OneMore
<1>3. /\ \A n \in 1 .. N : SizeOf(records[n]) \in Nat
      /\ \A n \in 1 .. N + 1 : SizeOf(more[n]) \in Nat
  <2>1. \A n \in 1 .. N : records[n] \in T
    BY <1>1
  <2>2. \A n \in 1 .. N + 1 : more[n] \in T
    BY <1>2
  <2> QED BY <2>1, <2>2
<1>4. PICK f \in [0 .. Len(records) -> Nat] : Adds(f, records)
  BY <1>1, <1>2, <1>3, AddsExist
<1>5. PICK g \in [0 .. Len(more) -> Nat] : Adds(g, more)
  <2>1. N + 1 \in Nat
    BY <1>2
  <2> QED BY <1>2, <1>3, <2>1, AddsExist
<1>6. PICK P : P = {n \in 0 .. N : f[n] = g[n]}
  OBVIOUS
<1>7. 0 \in P
  BY <1>2, <1>4, <1>5, <1>6 DEF Adds
<1>8. ASSUME NEW n \in 1 .. N, n - 1 \in P
      PROVE  n \in P
  <2>1. f[n - 1] = g[n - 1] /\ n \in 0 .. N /\ n \in 1 .. N + 1
    BY <1>2, <1>6, <1>8
  <2>2. f[n] = f[n - 1] + SizeOf(records[n])
    BY <1>1, <1>4 DEF Adds
  <2>3. g[n] = g[n - 1] + SizeOf(more[n])
    BY <1>2, <1>5, <2>1 DEF Adds
  <2> QED BY <1>2, <1>6, <2>1, <2>2, <2>3
<1>9. N \in P
  <2>1. \A n \in 0 .. N : n \in P
    BY <1>2, <1>7, <1>8, UpTo
  <2> QED BY <1>2, <2>1
<1>10. ByteLength(records) = g[N] + (IF records = <<>> THEN 0 ELSE N - 1)
  BY <1>1, <1>4, <1>6, <1>9 DEF Adds
<1>11. ByteLength(more) = g[N + 1] + N
  BY <1>2, <1>5 DEF Adds
<1>12. g[N + 1] = g[N] + SizeOf(x)
  <2>1. N + 1 \in 1 .. Len(more) /\ (N + 1) - 1 = N
    BY <1>2
  <2> QED BY <1>2, <1>5, <2>1 DEF Adds
<1>13. g[N] \in Nat /\ SizeOf(x) \in Nat
  BY <1>2, <1>5
<1>14. records = <<>> => N = 0
  BY <1>1
<1>15. CASE records = <<>>
  <2>1. ByteLength(records) = g[N] /\ N = 0
    BY <1>10, <1>13, <1>14, <1>15
  <2> QED BY <1>1, <1>11, <1>12, <1>13, <1>15, <2>1
<1>16. CASE records # <<>>
  <2>1. ByteLength(records) = g[N] + (N - 1)
    BY <1>10, <1>16
  <2>2. ByteLength(more) = (g[N] + SizeOf(x)) + N
    BY <1>11, <1>12
  <2>3. ByteLength(more) = ByteLength(records) + 1 + SizeOf(x)
    BY <1>2, <1>13, <2>1, <2>2
  <2> QED BY <1>1, <1>16, <2>3
<1> QED BY <1>15, <1>16

\* What is cut off is a list of the same things.
LEMMA AtMostType ==
  ASSUME NEW T, NEW s \in Seq(T)
  PROVE  AtMost(s) \in Seq(T)
<1>1. PICK k : k = IF Len(s) < MaximumRecords THEN Len(s) ELSE MaximumRecords
  OBVIOUS
<1>2. k \in Nat /\ k <= Len(s)
  BY <1>1, LifecycleAssumption
<1>3. SubSeq(s, 1, k) \in Seq(T)
  BY <1>2
<1> QED BY <1>1, <1>3 DEF AtMost

-----------------------------------------------------------------------------
(* What is written, and what comes of it. *)

\* A record as it is written, and one as a sanitizer leaves it.
IsWritten(r) ==
  /\ DOMAIN r = {"named", "key", "template", "classification", "cdp", "playwright",
                 "details", "bytes"}
  /\ r.cdp \in Nat /\ r.playwright \in Nat /\ r.bytes \in Nat /\ IsFiniteSet(r.details)

IsClean(r) == IsWritten(r) /\ IsRecord(r) /\ CopyRecordFields(r) = r

\* A list of records as they are written, one as a sanitizer leaves it, and one of those
\* that are parsed.
Written(s) == s \in Seq(ToSet(s)) /\ \A r \in ToSet(s) : IsWritten(r)
Clean(s)   == s \in Seq(ToSet(s)) /\ \A r \in ToSet(s) : IsClean(r)
Timed(s)   == s \in Seq(ToSet(s)) /\ \A r \in ToSet(s) : r.started \in Nat

\* A record has a size.
LEMMA WrittenSize ==
  ASSUME NEW r, IsWritten(r)
  PROVE  SizeOf(r) \in Nat
<1>1. r.bytes \in Nat /\ Cardinality(r.details) \in Nat
  BY FS_CardinalityType DEF IsWritten
<1> QED BY <1>1 DEF SizeOf

\* A record is written as well once it is sanitized, and is clean if it is one.
LEMMA CopyWritten ==
  ASSUME NEW r, IsWritten(r)
  PROVE  IsWritten(CopyRecordFields(r)) /\ (IsRecord(r) => IsClean(CopyRecordFields(r)))
<1>1. PICK c, d : c = CopyRecordFields(r) /\ d = r.details \ Malformed
  OBVIOUS
<1>2. c = [r EXCEPT !.details = d]
  BY <1>1 DEF CopyRecordFields, Sanitized
<1>3. IsFiniteSet(d) /\ d \ Malformed = d
  <2>1. d \subseteq r.details /\ IsFiniteSet(r.details)
    BY <1>1 DEF IsWritten
  <2> QED BY <1>1, <2>1, FS_Subset
<1>4. /\ DOMAIN c = DOMAIN r /\ c.details = d /\ c.named = r.named
      /\ c.classification = r.classification /\ c.bytes = r.bytes
      /\ c.cdp = r.cdp /\ c.playwright = r.playwright
  BY <1>2 DEF IsWritten
<1>5. IsWritten(c)
  BY <1>3, <1>4 DEF IsWritten
<1>6. CopyRecordFields(c) = c
  <2>1. CopyRecordFields(c) = [c EXCEPT !.details = d]
    BY <1>3, <1>4 DEF CopyRecordFields, Sanitized
  <2> QED BY <1>2, <1>4, <2>1
<1>7. IsRecord(r) => IsRecord(c)
  BY <1>4 DEF IsRecord, IsNamed, IsClassified
<1> QED BY <1>1, <1>5, <1>6, <1>7 DEF IsClean

\* What one by one comes of a list is a list as long.
LEMMA ListOfEach ==
  ASSUME NEW T, NEW s \in Seq(T), NEW t, t = [n \in DOMAIN s |-> t[n]]
  PROVE  /\ t \in Seq(ToSet(t)) /\ Len(t) = Len(s) /\ Len(s) \in Nat
         /\ DOMAIN t = 1 .. Len(s) /\ DOMAIN s = 1 .. Len(s)
<1>1. PICK k \in Nat : k = Len(s) /\ DOMAIN s = 1 .. k /\ \A n \in 1 .. k : s[n] \in T
  OBVIOUS
<1>2. t = [n \in 1 .. k |-> t[n]]
  BY <1>1
<1>3. DOMAIN t = 1 .. k
  BY <1>2
<1>4. ToSet(t) = {t[n] : n \in 1 .. k}
  BY <1>3 DEF ToSet
<1>5. t \in [1 .. k -> ToSet(t)]
  BY <1>2, <1>4
<1>6. t \in Seq(ToSet(t)) /\ Len(t) = k
  BY <1>1, <1>5
<1> QED BY <1>1, <1>3, <1>6

\* A part of a list of records as they are written is one too.
LEMMA PartOfWritten ==
  ASSUME NEW s, Written(s), NEW t \in Seq(ToSet(s))
  PROVE  Written(t)
<1>1. t \in Seq(ToSet(t)) /\ ToSet(t) \subseteq ToSet(s)
  <2>1. PICK T : T = ToSet(s)
    OBVIOUS
  <2> QED BY <2>1, ListOfItsOwn
<1> QED BY <1>1 DEF Written

\* Sanitizing keeps all records that are some, and is shorter if one is none.
LEMMA SanitizedWhat ==
  ASSUME NEW s, Written(s)
  PROVE  /\ Clean(SanitizeRecords(s))
         /\ Len(SanitizeRecords(s)) \in Nat /\ Len(SanitizeRecords(s)) <= Len(s)
         /\ \A r \in ToSet(s) :
              /\ IsRecord(r) => CopyRecordFields(r) \in ToSet(SanitizeRecords(s))
              /\ ~IsRecord(r) => Len(SanitizeRecords(s)) < Len(s)
<1>1. PICK T, set, usable : /\ T = ToSet(s) /\ set = {r \in T : IsRecord(r)}
                            /\ usable = Among(s, set)
  OBVIOUS
<1>2. usable \in Seq(T) /\ s \in Seq(T)
  BY <1>1, AmongType DEF Written
<1>3. /\ ToSet(usable) = T \cap set /\ Len(usable) \in Nat /\ Len(usable) <= Len(s)
      /\ \A r \in T : r \notin set => Len(usable) < Len(s)
  BY <1>1, <1>2, AmongWhat
<1>4. PICK t : t = [n \in DOMAIN usable |-> CopyRecordFields(usable[n])]
  OBVIOUS
<1>5. SanitizeRecords(s) = t
  BY <1>1, <1>4 DEF SanitizeRecords
<1>6. t = [n \in DOMAIN usable |-> t[n]]
  BY <1>4
<1>7. /\ t \in Seq(ToSet(t)) /\ Len(t) = Len(usable)
      /\ DOMAIN t = 1 .. Len(usable) /\ DOMAIN usable = 1 .. Len(usable)
  BY <1>2, <1>6, ListOfEach
<1>8. \A n \in 1 .. Len(usable) : n \in DOMAIN usable /\ t[n] = CopyRecordFields(usable[n])
  BY <1>2, <1>4
<1>9. ASSUME NEW r \in ToSet(t)
      PROVE  IsClean(r)
  <2>1. PICK n \in 1 .. Len(usable) : r = t[n]
    BY <1>7 DEF ToSet
  <2>2. usable[n] \in ToSet(usable)
    BY <1>7, <2>1 DEF ToSet
  <2>3. IsWritten(usable[n]) /\ IsRecord(usable[n])
    BY <1>1, <1>3, <2>2 DEF Written
  <2> QED BY <1>8, <2>1, <2>3, CopyWritten
<1>10. ASSUME NEW r \in T
       PROVE  /\ IsRecord(r) => CopyRecordFields(r) \in ToSet(t)
              /\ ~IsRecord(r) => Len(t) < Len(s)
  <2>1. ~IsRecord(r) => Len(t) < Len(s)
    BY <1>1, <1>3, <1>7
  <2>2. ASSUME IsRecord(r) PROVE CopyRecordFields(r) \in ToSet(t)
    <3>1. r \in ToSet(usable)
      BY <1>1, <1>3, <2>2
    <3>2. PICK n \in 1 .. Len(usable) : r = usable[n]
      BY <1>7, <3>1 DEF ToSet
    <3> QED BY <1>7, <1>8, <3>2 DEF ToSet
  <2> QED BY <2>1, <2>2
<1> QED BY <1>1, <1>3, <1>5, <1>7, <1>9, <1>10 DEF Clean

\* What has been sanitized stays as it is.
LEMMA SanitizedStays ==
  ASSUME NEW s, Clean(s)
  PROVE  SanitizeRecords(s) = s
<1>1. PICK T, set : T = ToSet(s) /\ set = {r \in T : IsRecord(r)}
  OBVIOUS
<1>2. s \in Seq(T) /\ ToSet(s) \subseteq set
  BY <1>1 DEF Clean, IsClean
<1>3. Among(s, set) = s
  BY <1>2, AmongAll
<1>4. SanitizeRecords(s) = [n \in DOMAIN s |-> CopyRecordFields(s[n])]
  BY <1>1, <1>3 DEF SanitizeRecords
<1>5. \A n \in DOMAIN s : CopyRecordFields(s[n]) = s[n]
  BY DEF Clean, IsClean, ToSet
<1>6. s = [n \in DOMAIN s |-> s[n]]
  BY <1>2
<1> QED BY <1>4, <1>5, <1>6

\* A list within the limit is not cut off.
LEMMA AtMostFits ==
  ASSUME NEW T, NEW s \in Seq(T), Len(s) <= MaximumRecords
  PROVE  AtMost(s) = s
<1>1. Len(s) \in Nat /\ MaximumRecords \in Nat
  BY LifecycleAssumption
<1>2. (IF Len(s) < MaximumRecords THEN Len(s) ELSE MaximumRecords) = Len(s)
  BY <1>1
<1>3. SubSeq(s, 1, Len(s)) = s
  OBVIOUS
<1> QED BY <1>2, <1>3 DEF AtMost

-----------------------------------------------------------------------------
(* What fits in an attachment. *)

Rank(r) == CHOOSE k \in 1 .. 4 : ClassificationPriority[k] = r.classification

\* The rank of a record is the place of its classification.
LEMMA RankOf ==
  ASSUME NEW r, NEW k \in 1 .. 4, r.classification = ClassificationPriority[k]
  PROVE  Rank(r) = k
<1>1. \A m \in 1 .. 4 : ClassificationPriority[m] = ClassificationPriority[k] => m = k
  <2>1. k = 1 \/ k = 2 \/ k = 3 \/ k = 4
    OBVIOUS
  <2> QED BY <2>1 DEF ClassificationPriority
<1> QED BY <1>1 DEF Rank

\* A list of records with ranks, none before one of a lower rank.
InRanks(s, low, high) ==
  /\ \A n \in 1 .. Len(s) : Rank(s[n]) \in low .. high
  /\ \A m, n \in 1 .. Len(s) : m <= n => Rank(s[m]) <= Rank(s[n])

\* Lists of the ranks in their order are put together in order of rank.
LEMMA MoreRanks ==
  ASSUME NEW T, NEW s \in Seq(T), NEW t \in Seq(T), NEW k \in Nat,
         InRanks(s, 1, k), InRanks(t, k + 1, k + 1)
  PROVE  /\ InRanks(s \o t, 1, k + 1) /\ s \o t \in Seq(T)
         /\ ToSet(s \o t) = ToSet(s) \cup ToSet(t) /\ Len(s \o t) = Len(s) + Len(t)
<1>1. PICK u, a, b : u = s \o t /\ a = Len(s) /\ b = Len(t)
  OBVIOUS
<1>2. /\ a \in Nat /\ b \in Nat /\ u \in Seq(T) /\ Len(u) = a + b
      /\ DOMAIN s = 1 .. a /\ DOMAIN t = 1 .. b /\ DOMAIN u = 1 .. a + b
  BY <1>1
<1>3. \A n \in 1 .. a : n \in 1 .. a + b /\ u[n] = s[n]
  BY <1>1, <1>2
<1>4. \A n \in 1 .. b : n + a \in 1 .. a + b /\ u[n + a] = t[n]
  BY <1>1, <1>2
<1>5. ASSUME NEW n \in 1 .. a + b
      PROVE  n \in 1 .. a \/ (n - a \in 1 .. b /\ n = (n - a) + a /\ ~(n <= a))
  BY <1>2
<1>6. ToSet(u) = ToSet(s) \cup ToSet(t)
  <2>1. \A n \in 1 .. a + b : u[n] \in ToSet(s) \cup ToSet(t)
    <3> TAKE n \in 1 .. a + b
    <3>1. CASE n \in 1 .. a
      BY <1>2, <1>3, <3>1 DEF ToSet
    <3>2. CASE n - a \in 1 .. b /\ n = (n - a) + a
      <4>1. u[n] = t[n - a]
        BY <1>4, <3>2
      <4> QED BY <1>2, <3>2, <4>1 DEF ToSet
    <3> QED BY <1>5, <3>1, <3>2
  <2>2. ToSet(u) \subseteq ToSet(s) \cup ToSet(t)
    BY <1>2, <2>1 DEF ToSet
  <2>3. ToSet(s) \subseteq ToSet(u)
    BY <1>2, <1>3 DEF ToSet
  <2>4. ToSet(t) \subseteq ToSet(u)
    BY <1>2, <1>4 DEF ToSet
  <2> QED BY <2>2, <2>3, <2>4
<1>7. ASSUME NEW n \in 1 .. a + b
      PROVE  /\ Rank(u[n]) \in 1 .. k + 1
             /\ n \in 1 .. a => Rank(u[n]) \in 1 .. k
             /\ n \notin 1 .. a => Rank(u[n]) = k + 1
  <2>1. CASE n \in 1 .. a
    <3>1. u[n] = s[n] /\ Rank(s[n]) \in 1 .. k
      BY <1>1, <1>3, <2>1 DEF InRanks
    <3> QED BY <2>1, <3>1
  <2>2. CASE n - a \in 1 .. b /\ n = (n - a) + a /\ ~(n <= a)
    <3>1. u[n] = t[n - a] /\ Rank(t[n - a]) \in k + 1 .. k + 1
      BY <1>1, <1>4, <2>2 DEF InRanks
    <3> QED BY <1>2, <2>2, <3>1
  <2> QED BY <1>5, <2>1, <2>2
<1>8. ASSUME NEW m \in 1 .. a + b, NEW n \in 1 .. a + b, m <= n
      PROVE  Rank(u[m]) <= Rank(u[n])
  <2>1. CASE n \in 1 .. a
    <3>1. m \in 1 .. a
      BY <1>2, <1>8, <2>1
    <3>2. Rank(s[m]) <= Rank(s[n])
      BY <1>1, <1>8, <2>1, <3>1 DEF InRanks
    <3> QED BY <1>3, <2>1, <3>1, <3>2
  <2>2. CASE n \notin 1 .. a
    <3>1. Rank(u[n]) = k + 1 /\ Rank(u[m]) \in 1 .. k + 1
      BY <1>7, <2>2
    <3> QED BY <3>1
  <2> QED BY <2>1, <2>2
<1>9. InRanks(u, 1, k + 1)
  BY <1>2, <1>7, <1>8 DEF InRanks
<1> QED BY <1>1, <1>2, <1>6, <1>9

\* The most telling ones come first, all of them, and no more.
LEMMA PrioritizedWhat ==
  ASSUME NEW T, NEW s \in Seq(T), \A r \in T : IsClassified(r)
  PROVE  /\ PrioritizeRecords(s) \in Seq(T)
         /\ ToSet(PrioritizeRecords(s)) = ToSet(s)
         /\ Len(PrioritizeRecords(s)) <= Len(s)
         /\ InRanks(PrioritizeRecords(s), 1, 4)
<1> DEFINE Of(k) == {r \in ToSet(s) : r.classification = ClassificationPriority[k]}
<1>1. PICK A, B, C, D : A = Of(1) /\ B = Of(2) /\ C = Of(3) /\ D = Of(4)
  OBVIOUS
<1>2. PICK a, b, c, d : /\ a = Among(s, A) /\ b = Among(s, B)
                        /\ c = Among(s, C) /\ d = Among(s, D)
  OBVIOUS
<1>3. PrioritizeRecords(s) = a \o b \o c \o d
  BY <1>1, <1>2 DEF PrioritizeRecords
<1>4. a \in Seq(T) /\ b \in Seq(T) /\ c \in Seq(T) /\ d \in Seq(T)
  BY <1>2, AmongType
<1>5. /\ ToSet(a) = ToSet(s) \cap A /\ ToSet(b) = ToSet(s) \cap B
      /\ ToSet(c) = ToSet(s) \cap C /\ ToSet(d) = ToSet(s) \cap D
  BY <1>2, AmongWhat
<1>6. /\ \A r \in A : Rank(r) = 1
      /\ \A r \in B : Rank(r) = 2
      /\ \A r \in C : Rank(r) = 3
      /\ \A r \in D : Rank(r) = 4
  BY <1>1, RankOf
<1>7. ASSUME NEW t \in Seq(T), NEW k \in Nat, \A r \in ToSet(t) : Rank(r) = k
      PROVE  InRanks(t, k, k)
  <2>1. \A n \in 1 .. Len(t) : t[n] \in ToSet(t)
    BY DEF ToSet
  <2> QED BY <1>7, <2>1 DEF InRanks
<1>8. InRanks(a, 1, 1) /\ InRanks(b, 2, 2) /\ InRanks(c, 3, 3) /\ InRanks(d, 4, 4)
  BY <1>4, <1>5, <1>6, <1>7
<1>9. PICK u : u = a \o b
  OBVIOUS
<1>10. /\ InRanks(u, 1, 2) /\ u \in Seq(T)
       /\ ToSet(u) = ToSet(a) \cup ToSet(b) /\ Len(u) = Len(a) + Len(b)
  <2>1. PICK k \in Nat : k = 1
    OBVIOUS
  <2>2. InRanks(a, 1, k) /\ InRanks(b, k + 1, k + 1)
    BY <1>8, <2>1
  <2>3. /\ InRanks(u, 1, k + 1) /\ u \in Seq(T)
        /\ ToSet(u) = ToSet(a) \cup ToSet(b) /\ Len(u) = Len(a) + Len(b)
    BY <1>4, <1>9, <2>2, MoreRanks
  <2> QED BY <2>1, <2>3
<1>11. PICK v : v = u \o c
  OBVIOUS
<1>12. /\ InRanks(v, 1, 3) /\ v \in Seq(T)
       /\ ToSet(v) = ToSet(u) \cup ToSet(c) /\ Len(v) = Len(u) + Len(c)
  <2>1. PICK k \in Nat : k = 2
    OBVIOUS
  <2>2. InRanks(u, 1, k) /\ InRanks(c, k + 1, k + 1)
    BY <1>8, <1>10, <2>1
  <2>3. u \in Seq(T) /\ c \in Seq(T)
    BY <1>4, <1>10
  <2>4. /\ InRanks(u \o c, 1, k + 1) /\ u \o c \in Seq(T)
        /\ ToSet(u \o c) = ToSet(u) \cup ToSet(c) /\ Len(u \o c) = Len(u) + Len(c)
    BY <2>2, <2>3, MoreRanks
  <2> QED BY <1>11, <2>1, <2>4
<1>13. PICK w : w = v \o d
  OBVIOUS
<1>14. /\ InRanks(w, 1, 4) /\ w \in Seq(T)
       /\ ToSet(w) = ToSet(v) \cup ToSet(d) /\ Len(w) = Len(v) + Len(d)
  <2>1. PICK k \in Nat : k = 3
    OBVIOUS
  <2>2. InRanks(v, 1, k) /\ InRanks(d, k + 1, k + 1)
    BY <1>8, <1>12, <2>1
  <2>3. v \in Seq(T) /\ d \in Seq(T)
    BY <1>4, <1>12
  <2>4. /\ InRanks(v \o d, 1, k + 1) /\ v \o d \in Seq(T)
        /\ ToSet(v \o d) = ToSet(v) \cup ToSet(d) /\ Len(v \o d) = Len(v) + Len(d)
    BY <2>2, <2>3, MoreRanks
  <2> QED BY <1>13, <2>1, <2>4
<1>15. \A r \in T : \E k \in 1 .. 4 : r.classification = ClassificationPriority[k]
  BY DEF IsClassified, ClassificationPriority, ToSet
<1>16. ToSet(s) \subseteq A \cup B \cup C \cup D
  <2> SUFFICES ASSUME NEW r \in ToSet(s) PROVE r \in A \cup B \cup C \cup D
    OBVIOUS
  <2>1. r \in T
    BY ListOfItsOwn
  <2>2. PICK k \in 1 .. 4 : r.classification = ClassificationPriority[k]
    BY <1>15, <2>1
  <2>3. k = 1 \/ k = 2 \/ k = 3 \/ k = 4
    OBVIOUS
  <2> QED BY <1>1, <2>2, <2>3
<1>17. ToSet(w) = ToSet(s)
  BY <1>5, <1>10, <1>12, <1>14, <1>16
<1>18. Len(w) <= Len(s)
  <2>1. A \cap B = {} /\ (A \cup B) \cap C = {} /\ (A \cup B \cup C) \cap D = {}
    BY <1>6
  <2>2. Len(a) + Len(b) <= Len(Among(s, A \cup B))
    BY <1>2, <2>1, PartsApart
  <2>3. Len(Among(s, A \cup B)) + Len(c) <= Len(Among(s, A \cup B \cup C))
    BY <1>2, <2>1, PartsApart
  <2>4. Len(Among(s, A \cup B \cup C)) + Len(d) <= Len(Among(s, A \cup B \cup C \cup D))
    BY <1>2, <2>1, PartsApart
  <2>5. Len(Among(s, A \cup B \cup C \cup D)) <= Len(s)
    BY AmongWhat
  <2>6. /\ Len(Among(s, A \cup B)) \in Nat /\ Len(Among(s, A \cup B \cup C)) \in Nat
        /\ Len(Among(s, A \cup B \cup C \cup D)) \in Nat
    BY AmongWhat
  <2>7. Len(a) \in Nat /\ Len(b) \in Nat /\ Len(c) \in Nat /\ Len(d) \in Nat /\ Len(s) \in Nat
    BY <1>4
  <2> QED BY <1>10, <1>12, <1>14, <2>2, <2>3, <2>4, <2>5, <2>6, <2>7
<1>19. PrioritizeRecords(s) = w /\ InRanks(w, 1, 4)
  BY <1>3, <1>9, <1>11, <1>13, <1>14
<1> QED BY <1>14, <1>17, <1>18, <1>19

\* An attachment within the limits, when n records have been offered.
Filled(list, things, n) ==
  /\ ToSet(list) \subseteq things
  /\ Len(list) <= n
  /\ \A r \in things : r \notin ToSet(list) => Len(list) < n
  /\ Len(list) <= MaximumRecords /\ ByteLength(list) <= MaximumBytes

\* A record more is within the limits too.
LEMMA IncludeFits ==
  ASSUME NEW T, NEW list \in Seq(T), NEW x \in T, \A r \in T : SizeOf(r) \in Nat,
         Len(list) <= MaximumRecords, ByteLength(list) <= MaximumBytes
  PROVE  /\ Len(Include(list, x)) <= MaximumRecords
         /\ ByteLength(Include(list, x)) <= MaximumBytes
<1>1. Len(list) \in Nat /\ Len(Append(list, x)) = Len(list) + 1
  OBVIOUS
<1>2. ByteLength(Append(list, x)) =
        ByteLength(list) + (IF list = <<>> THEN 0 ELSE 1) + SizeOf(x)
  BY SizeOfMore
<1>3. MaximumRecords \in Nat
  BY LifecycleAssumption
<1>4. CASE Include(list, x) = list
  BY <1>4
<1>5. CASE Include(list, x) = Append(list, x) /\ Len(list) < MaximumRecords /\ Fits(list, x)
  BY <1>1, <1>2, <1>3, <1>5 DEF Fits
<1> QED BY <1>4, <1>5 DEF Include

\* What is included fits, and is less than what is offered if something is left out.
LEMMA IncludedWhat ==
  ASSUME NEW T, NEW offered \in Seq(T), \A r \in T : SizeOf(r) \in Nat,
         NEW f \in [0 .. Len(offered) -> Seq(T)], Includes(f, offered)
  PROVE  Filled(f[Len(offered)], ToSet(offered), Len(offered))
<1>1. PICK N \in Nat : N = Len(offered) /\ DOMAIN offered = 1 .. N
                    /\ \A n \in 1 .. N : offered[n] \in T
  OBVIOUS
<1>2. PICK Done : Done = [n \in 0 .. N |-> {offered[k] : k \in 1 .. n}]
  OBVIOUS
<1>3. PICK P : P = {n \in 0 .. N : Filled(f[n], Done[n], n)}
  OBVIOUS
<1>4. 0 \in P
  <2>1. 0 \in 0 .. N /\ f[0] = <<>>
    BY <1>1 DEF Includes
  <2>2. Done[0] = {}
    BY <1>1, <1>2, <2>1
  <2>3. ToSet(<<>>) = {} /\ Len(<<>>) = 0
    BY DEF ToSet
  <2>4. ByteLength(<<>>) <= MaximumBytes /\ 0 <= MaximumRecords
    BY SizeOfNone, LifecycleAssumption
  <2>5. Filled(f[0], Done[0], 0)
    BY <2>1, <2>2, <2>3, <2>4 DEF Filled
  <2> QED BY <1>3, <2>1, <2>5
<1>5. ASSUME NEW n \in 1 .. N, n - 1 \in P
      PROVE  n \in P
  <2>1. PICK s, x, D : s = f[n - 1] /\ x = offered[n] /\ D = Done[n - 1]
    OBVIOUS
  <2>2. n - 1 \in 0 .. N /\ n \in 0 .. N /\ s \in Seq(T) /\ x \in T
    <3>1. n - 1 \in 0 .. N /\ n \in 0 .. N
      BY <1>1
    <3> QED BY <1>1, <2>1, <3>1
  <2>3. f[n] = Include(s, x)
    BY <1>1, <2>1 DEF Includes
  <2>4. Done[n] = D \cup {x}
    <3>1. \A k \in 1 .. n : k = n \/ k \in 1 .. n - 1
      BY <1>1
    <3>2. \A k \in 1 .. n - 1 : k \in 1 .. n
      BY <1>1
    <3> QED BY <1>2, <2>1, <2>2, <3>1, <3>2
  <2>5. Filled(s, D, n - 1)
    BY <1>3, <1>5, <2>1
  <2>6. Len(f[n]) <= MaximumRecords /\ ByteLength(f[n]) <= MaximumBytes
    BY <2>2, <2>3, <2>5, IncludeFits DEF Filled
  <2>7. Len(s) \in Nat /\ Len(s) <= n - 1
    BY <2>2, <2>5 DEF Filled
  <2>8. CASE f[n] = Append(s, x)
    <3>1. ToSet(f[n]) = ToSet(s) \cup {x} /\ Len(f[n]) = Len(s) + 1
      BY <2>2, <2>8, OneMore
    <3>2. \A r \in Done[n] : r \notin ToSet(f[n]) => Len(f[n]) < n
      <4> SUFFICES ASSUME NEW r \in Done[n], r \notin ToSet(f[n]) PROVE Len(f[n]) < n
        OBVIOUS
      <4>1. r \in D /\ r \notin ToSet(s)
        BY <2>4, <3>1
      <4>2. Len(s) < n - 1
        BY <2>5, <4>1 DEF Filled
      <4> QED BY <2>7, <3>1, <4>2
    <3>3. ToSet(f[n]) \subseteq Done[n]
      BY <2>4, <2>5, <3>1 DEF Filled
    <3>4. Len(f[n]) <= n
      BY <2>7, <3>1
    <3>5. Filled(f[n], Done[n], n)
      BY <2>6, <3>2, <3>3, <3>4 DEF Filled
    <3> QED BY <1>3, <2>2, <3>5
  <2>9. CASE f[n] = s
    <3>1. Len(f[n]) < n
      BY <2>7, <2>9
    <3>2. ToSet(f[n]) \subseteq Done[n]
      BY <2>4, <2>5, <2>9 DEF Filled
    <3>3. Len(f[n]) <= n
      BY <2>7, <2>9
    <3>4. Filled(f[n], Done[n], n)
      BY <2>6, <3>1, <3>2, <3>3 DEF Filled
    <3> QED BY <1>3, <2>2, <3>4
  <2> QED BY <2>3, <2>8, <2>9 DEF Include
<1>6. \A n \in 0 .. N : n \in P
  BY <1>4, <1>5, UpTo
<1>7. N \in P /\ N \in 0 .. N
  BY <1>6
<1>8. Done[N] = ToSet(offered)
  BY <1>1, <1>2, <1>7 DEF ToSet
<1> QED BY <1>1, <1>3, <1>7, <1>8

\* What is left out would not have fit after the records that are no less telling.
LEMMA LeftOut ==
  ASSUME NEW T, NEW offered \in Seq(T), \A r \in T : SizeOf(r) \in Nat,
         InRanks(offered, 1, 4),
         NEW f \in [0 .. Len(offered) -> Seq(T)], Includes(f, offered),
         NEW p \in 1 .. Len(offered), offered[p] \notin ToSet(f[Len(offered)]),
         NEW A, \A r \in T : r \in A <=> Rank(r) <= Rank(offered[p])
  PROVE  LET above == Among(f[Len(offered)], A) IN
         \/ Len(above) = MaximumRecords
         \/ ByteLength(Append(above, offered[p])) > MaximumBytes
<1>1. PICK N \in Nat : N = Len(offered) /\ \A n \in 1 .. N : offered[n] \in T
  OBVIOUS
<1>2. PICK r, s : r = offered[p] /\ s = f[p - 1]
  OBVIOUS
<1>3. p \in 1 .. N /\ p \in 0 .. N /\ p - 1 \in 0 .. N
  BY <1>1
<1>4. r \in T /\ s \in Seq(T) /\ f[N] \in Seq(T)
  <2>1. N \in 0 .. N
    BY <1>1
  <2> QED BY <1>1, <1>2, <1>3, <2>1
<1>5. \A n \in 1 .. N : f[n] = Include(f[n - 1], offered[n]) /\ n - 1 \in 0 .. N /\ n \in 0 .. N
  BY <1>1 DEF Includes
<1>6. \A n \in 0 .. N : f[n] \in Seq(T)
  BY <1>1
<1>7. \A n \in 1 .. N : n <= p => offered[n] \in A
  BY <1>1, <1>3 DEF InRanks
<1>8. ToSet(s) \subseteq A
  <2>1. PICK P : P = {n \in 0 .. N : n < p => ToSet(f[n]) \subseteq A}
    OBVIOUS
  <2>2. 0 \in P
    <3>1. 0 \in 0 .. N /\ f[0] = <<>> /\ ToSet(<<>>) = {}
      BY <1>1 DEF Includes, ToSet
    <3> QED BY <2>1, <3>1
  <2>3. ASSUME NEW n \in 1 .. N, n - 1 \in P
        PROVE  n \in P
    <3>1. n < p => n - 1 < p /\ n <= p
      BY <1>1, <1>3
    <3>2. n < p => ToSet(f[n - 1]) \subseteq A /\ offered[n] \in A
      BY <1>7, <2>1, <2>3, <3>1
    <3>3. PICK a, x : a = f[n - 1] /\ x = offered[n]
      OBVIOUS
    <3>4. a \in Seq(T) /\ x \in T /\ n \in 0 .. N
      BY <1>1, <1>5, <1>6, <3>3
    <3>5. f[n] = a \/ f[n] = Append(a, x)
      BY <1>5, <3>3 DEF Include
    <3>6. ToSet(Append(a, x)) = ToSet(a) \cup {x}
      BY <3>4, OneMore
    <3>7. n < p => ToSet(f[n]) \subseteq A
      BY <3>2, <3>3, <3>5, <3>6
    <3> QED BY <2>1, <3>4, <3>7
  <2>4. \A n \in 0 .. N : n \in P
    BY <1>1, <2>2, <2>3, UpTo
  <2>5. p - 1 \in P /\ p - 1 < p
    BY <1>3, <2>4
  <2> QED BY <1>2, <2>1, <2>5
<1>9. Among(s, A) = s
  BY <1>4, <1>8, AmongAll
<1>10. r \notin ToSet(f[p])
  <2>1. PICK P : P = {n \in 0 .. N : n >= p /\ r \in ToSet(f[p]) => r \in ToSet(f[n])}
    OBVIOUS
  <2>2. 0 \in P
    BY <1>1, <1>3, <2>1
  <2>3. ASSUME NEW n \in 1 .. N, n - 1 \in P
        PROVE  n \in P
    <3>1. n >= p => n = p \/ n - 1 >= p
      BY <1>1, <1>3
    <3>2. PICK a, x : a = f[n - 1] /\ x = offered[n]
      OBVIOUS
    <3>3. a \in Seq(T) /\ x \in T /\ n \in 0 .. N
      BY <1>1, <1>5, <1>6, <3>2
    <3>4. f[n] = a \/ f[n] = Append(a, x)
      BY <1>5, <3>2 DEF Include
    <3>5. ToSet(Append(a, x)) = ToSet(a) \cup {x}
      BY <3>3, OneMore
    <3>6. n >= p /\ r \in ToSet(f[p]) => r \in ToSet(f[n])
      <4>1. n = p \/ (n - 1 >= p /\ r \in ToSet(f[p]) => r \in ToSet(a)) \/ ~(n >= p)
        BY <2>1, <2>3, <3>2
      <4> QED BY <3>1, <3>4, <3>5, <4>1
    <3> QED BY <2>1, <3>3, <3>6
  <2>4. \A n \in 0 .. N : n \in P
    BY <1>1, <2>2, <2>3, UpTo
  <2>5. N \in P /\ N >= p
    BY <1>1, <1>3, <2>4
  <2> QED BY <1>1, <1>2, <2>1, <2>5
<1>11. Len(s) >= MaximumRecords \/ ~Fits(s, r)
  <2>1. f[p] = Include(s, r)
    BY <1>2, <1>3, <1>5
  <2>2. r \in ToSet(Append(s, r))
    BY <1>4, OneMore
  <2>3. ~(Len(s) < MaximumRecords /\ Fits(s, r))
    BY <1>10, <2>1, <2>2 DEF Include
  <2>4. Len(s) \in Nat /\ MaximumRecords \in Nat
    BY <1>4, LifecycleAssumption
  <2> QED BY <2>3, <2>4
<1>12. PICK g : g = [n \in 0 .. N |-> Among(f[n], A)]
  OBVIOUS
<1>13. \A n \in 0 .. N : /\ g[n] \in Seq(T) /\ Len(g[n]) \in Nat
                         /\ ByteLength(g[n]) \in Nat
  <2> TAKE n \in 0 .. N
  <2>1. PICK a, b : a = f[n] /\ b = Among(a, A)
    OBVIOUS
  <2>2. a \in Seq(T) /\ g[n] = b
    BY <1>6, <1>12, <2>1
  <2>3. b \in Seq(T)
    BY <2>1, <2>2, AmongType
  <2>4. ByteLength(b) \in Nat
    BY <2>3, SizeOfSome
  <2> QED BY <2>2, <2>3, <2>4
<1>14. Len(g[N]) >= Len(s) /\ ByteLength(g[N]) >= ByteLength(s)
  <2>1. PICK P : P = {n \in 0 .. N : n >= p - 1 =>
                        Len(g[n]) >= Len(s) /\ ByteLength(g[n]) >= ByteLength(s)}
    OBVIOUS
  <2>2. g[p - 1] = s
    BY <1>2, <1>3, <1>9, <1>12
  <2>3. Len(s) \in Nat /\ ByteLength(s) \in Nat /\ p - 1 \in P
    BY <1>3, <1>13, <2>1, <2>2
  <2>4. 0 \in P
    <3>1. 0 >= p - 1 => 0 = p - 1
      BY <1>1, <1>3
    <3>2. 0 \in 0 .. N
      BY <1>1
    <3> QED BY <2>1, <2>3, <3>1, <3>2
  <2>5. ASSUME NEW n \in 1 .. N, n - 1 \in P
        PROVE  n \in P
    <3>1. n >= p - 1 => n = p - 1 \/ n - 1 >= p - 1
      BY <1>1, <1>3
    <3>2. CASE n = p - 1
      BY <2>3, <3>2
    <3>3. CASE n - 1 >= p - 1
      <4>1. PICK a, b, x : a = f[n - 1] /\ b = g[n - 1] /\ x = offered[n]
        OBVIOUS
      <4>2. n \in 0 .. N /\ n - 1 \in 0 .. N
        BY <1>5
      <4>3. a \in Seq(T) /\ b \in Seq(T) /\ x \in T
        BY <1>1, <1>6, <1>13, <4>1, <4>2
      <4>4. f[n] = a \/ f[n] = Append(a, x)
        BY <1>5, <4>1 DEF Include
      <4>5. Among(Append(a, x), A) = IF x \in A THEN Append(Among(a, A), x) ELSE Among(a, A)
        BY <4>3, AmongMore
      <4>6. b = Among(a, A) /\ g[n] = Among(f[n], A)
        BY <1>12, <4>1, <4>2
      <4>7. g[n] = b \/ g[n] = Append(b, x)
        BY <4>4, <4>5, <4>6
      <4>8. /\ Len(Append(b, x)) = Len(b) + 1
            /\ ByteLength(Append(b, x)) =
                 ByteLength(b) + (IF b = <<>> THEN 0 ELSE 1) + SizeOf(x)
        BY <4>3, SizeOfMore
      <4>9. Len(b) >= Len(s) /\ ByteLength(b) >= ByteLength(s)
        BY <2>1, <2>5, <3>3, <4>1
      <4>10. Len(b) \in Nat /\ ByteLength(b) \in Nat /\ SizeOf(x) \in Nat
        BY <4>3, SizeOfSome
      <4>11. Len(g[n]) >= Len(s) /\ ByteLength(g[n]) >= ByteLength(s)
        <5>1. CASE g[n] = b
          BY <4>9, <5>1
        <5>2. CASE g[n] = Append(b, x)
          <6>1. PICK j, k, l, m, d : /\ j = Len(b) /\ k = ByteLength(b) /\ d = SizeOf(x)
                                     /\ l = Len(s) /\ m = ByteLength(s)
            OBVIOUS
          <6>2. PICK c : c = k + (IF b = <<>> THEN 0 ELSE 1) + d
            OBVIOUS
          <6>3. Len(g[n]) = j + 1 /\ ByteLength(g[n]) = c
            BY <4>8, <5>2, <6>1, <6>2
          <6>4. j \in Nat /\ k \in Nat /\ d \in Nat /\ l \in Nat /\ m \in Nat
            BY <2>3, <4>10, <6>1
          <6>5. j >= l /\ k >= m
            BY <4>9, <6>1
          <6>6. j + 1 >= l /\ c >= m
            BY <6>2, <6>4, <6>5
          <6> QED BY <6>1, <6>3, <6>6
        <5> QED BY <4>7, <5>1, <5>2
      <4> QED BY <2>1, <4>2, <4>11
    <3>4. CASE ~(n >= p - 1)
      <4>1. n \in 0 .. N
        BY <1>5
      <4> QED BY <2>1, <3>4, <4>1
    <3> QED BY <3>1, <3>2, <3>3, <3>4
  <2>6. \A n \in 0 .. N : n \in P
    BY <1>1, <2>4, <2>5, UpTo
  <2>7. N \in P /\ N >= p - 1
    BY <1>1, <1>3, <2>6
  <2> QED BY <2>1, <2>7
<1>15. PICK above : above = Among(f[N], A)
  OBVIOUS
<1>16. /\ g[N] = above /\ above \in Seq(T)
       /\ Len(above) \in Nat /\ ByteLength(above) \in Nat
       /\ Len(above) >= Len(s) /\ ByteLength(above) >= ByteLength(s)
  <2>1. N \in 0 .. N
    BY <1>1
  <2> QED BY <1>12, <1>13, <1>14, <1>15, <2>1
<1>17. Len(above) <= MaximumRecords
  <2>1. Filled(f[N], ToSet(offered), N)
    BY <1>1, IncludedWhat
  <2>2. Len(above) <= Len(f[N]) /\ Len(f[N]) \in Nat
    BY <1>4, <1>15, AmongWhat
  <2>3. MaximumRecords \in Nat
    BY LifecycleAssumption
  <2> QED BY <1>16, <2>1, <2>2, <2>3 DEF Filled
<1>18. CASE Len(s) >= MaximumRecords
  <2>1. Len(s) \in Nat /\ MaximumRecords \in Nat
    BY <1>4, LifecycleAssumption
  <2>2. Len(above) = MaximumRecords
    BY <1>16, <1>17, <1>18, <2>1
  <2> QED BY <1>1, <1>15, <2>2
<1>19. CASE ~Fits(s, r)
  <2>1. ByteLength(s) \in Nat /\ SizeOf(r) \in Nat /\ MaximumBytes \in Nat
    BY <1>4, SizeOfSome, LifecycleAssumption
  <2>2. ByteLength(s) + (IF s = <<>> THEN 0 ELSE 1) + SizeOf(r) > MaximumBytes
    BY <1>19, <2>1 DEF Fits
  <2>3. ByteLength(Append(above, r)) =
          ByteLength(above) + (IF above = <<>> THEN 0 ELSE 1) + SizeOf(r)
    BY <1>4, <1>16, SizeOfMore
  <2>4. above = <<>> => s = <<>>
    BY <1>4, <1>16
  <2>5. ByteLength(Append(above, r)) > MaximumBytes
    <3>1. CASE above = <<>>
      BY <1>16, <2>1, <2>2, <2>3, <2>4, <3>1
    <3>2. CASE above # <<>> /\ s = <<>>
      BY <1>16, <2>1, <2>2, <2>3, <3>2
    <3>3. CASE above # <<>> /\ s # <<>>
      BY <1>16, <2>1, <2>2, <2>3, <3>3
    <3> QED BY <2>4, <3>1, <3>2, <3>3
  <2> QED BY <1>1, <1>2, <1>15, <2>5
<1> QED BY <1>11, <1>18, <1>19

\* What an encoder makes of some records.
WellEncoded(records, included) ==
  /\ Clean(included)
  /\ Len(included) <= MaximumRecords /\ ByteLength(included) <= MaximumBytes
  /\ \A r \in ToSet(records) :
       ~IsRecord(r) \/ CopyRecordFields(r) \notin ToSet(included) =>
         Len(included) < Len(records)
  /\ \A r \in ToSet(SanitizeRecords(records)) \ ToSet(included) :
       LET above == Among(included, {q \in ToSet(included) : Rank(q) <= Rank(r)}) IN
       \/ Len(above) = MaximumRecords
       \/ ByteLength(Append(above, r)) > MaximumBytes

\* The encoder does it so.
LEMMA EncodesWell ==
  ASSUME NEW records, Written(records)
  PROVE  WellEncoded(records, IncludedRecords(records))
<1>1. PICK u, T, offered : /\ u = SanitizeRecords(records) /\ T = ToSet(u)
                           /\ offered = PrioritizeRecords(u)
  OBVIOUS
<1>2. /\ Clean(u) /\ Len(u) \in Nat /\ Len(u) <= Len(records)
      /\ \A r \in ToSet(records) : /\ IsRecord(r) => CopyRecordFields(r) \in T
                                   /\ ~IsRecord(r) => Len(u) < Len(records)
  BY <1>1, SanitizedWhat
<1>3. u \in Seq(T) /\ \A r \in T : IsClean(r)
  BY <1>1, <1>2 DEF Clean
<1>4. \A r \in T : IsClassified(r) /\ SizeOf(r) \in Nat
  BY <1>3, WrittenSize DEF IsClean, IsRecord
<1>5. /\ offered \in Seq(T) /\ ToSet(offered) = T /\ Len(offered) <= Len(u)
      /\ InRanks(offered, 1, 4)
  BY <1>1, <1>3, <1>4, PrioritizedWhat
<1>6. PICK f \in [0 .. Len(offered) -> Seq(T)] : Includes(f, offered)
  BY <1>5, IncludesExist
<1>7. PICK included : included = IncludedRecords(records)
  OBVIOUS
<1>8. included = f[Len(offered)] /\ included \in Seq(T) /\ Len(offered) \in Nat
  <2>1. Len(offered) \in Nat /\ Len(offered) \in 0 .. Len(offered)
    BY <1>5
  <2> QED BY <1>1, <1>6, <1>7, <2>1 DEF Includes
<1>9. Filled(included, T, Len(offered))
  BY <1>4, <1>5, <1>6, <1>8, IncludedWhat
<1>10. included \in Seq(ToSet(included)) /\ ToSet(included) \subseteq T /\ Len(included) \in Nat
  BY <1>8, ListOfItsOwn
<1>11. Clean(included)
  BY <1>3, <1>10 DEF Clean
<1>12. ASSUME NEW r \in ToSet(records),
              ~IsRecord(r) \/ CopyRecordFields(r) \notin ToSet(included)
       PROVE  Len(included) < Len(records)
  <2>1. Len(included) <= Len(offered) /\ Len(records) \in Nat
    BY <1>9 DEF Filled, Written
  <2>2. CASE ~IsRecord(r)
    BY <1>2, <1>5, <1>8, <1>10, <2>1, <2>2
  <2>3. CASE IsRecord(r) /\ CopyRecordFields(r) \notin ToSet(included)
    <3>1. Len(included) < Len(offered)
      BY <1>2, <1>9, <2>3 DEF Filled
    <3> QED BY <1>2, <1>5, <1>8, <1>10, <2>1, <3>1
  <2> QED BY <1>12, <2>2, <2>3
<1>13. ASSUME NEW r \in T \ ToSet(included)
       PROVE  LET above == Among(included, {q \in ToSet(included) : Rank(q) <= Rank(r)}) IN
              \/ Len(above) = MaximumRecords
              \/ ByteLength(Append(above, r)) > MaximumBytes
  <2>1. PICK A, B : /\ A = {q \in T : Rank(q) <= Rank(r)}
                    /\ B = {q \in ToSet(included) : Rank(q) <= Rank(r)}
    OBVIOUS
  <2>2. PICK p \in 1 .. Len(offered) : r = offered[p]
    <3>1. DOMAIN offered = 1 .. Len(offered) /\ r \in ToSet(offered)
      BY <1>5
    <3> QED BY <3>1 DEF ToSet
  <2>3. /\ offered[p] \notin ToSet(f[Len(offered)])
        /\ \A q \in T : q \in A <=> Rank(q) <= Rank(offered[p])
    BY <1>8, <2>1, <2>2
  <2>4. \/ Len(Among(f[Len(offered)], A)) = MaximumRecords
        \/ ByteLength(Append(Among(f[Len(offered)], A), offered[p])) > MaximumBytes
    BY <1>4, <1>5, <1>6, <2>3, LeftOut
  <2>5. \A q \in ToSet(included) : q \in A <=> q \in B
    BY <1>10, <2>1
  <2>6. Among(included, A) = Among(included, B)
    BY <1>8, <2>5, AmongSame
  <2> QED BY <1>8, <2>1, <2>2, <2>4, <2>6
<1>14. Len(included) <= MaximumRecords /\ ByteLength(included) <= MaximumBytes
  BY <1>9 DEF Filled
<1> QED BY <1>1, <1>7, <1>11, <1>12, <1>13, <1>14 DEF WellEncoded

-----------------------------------------------------------------------------
(* What is read of an attachment. *)

\* It is of records as they are written.
LEMMA ContentWritten ==
  ASSUME NEW a, Written(a.records)
  PROVE  Written(ContentOf(a).records)
<1>1. Written(<<>>)
  BY DEF Written, ToSet
<1>2. Written(IncludedRecords(a.records))
  BY EncodesWell DEF WellEncoded, Clean, IsClean, Written
<1> QED BY <1>1, <1>2 DEF ContentOf, Content, EncodeBrowserLifecycleAttachment

\* Nothing has no start that is wrong.
LEMMA NothingTimed == Timed(<<>>)
BY DEF Timed, ToSet

\* Its records have a start once they are parsed, known or not.
LEMMA SharedTimed ==
  ASSUME NEW s, Written(s), NEW t, t = [n \in DOMAIN s |-> ParseSharedLifecycleRecord(s[n])]
  PROVE  Timed(t)
<1>1. PICK T : T = ToSet(s) /\ s \in Seq(T)
  BY DEF Written
<1>2. t = [n \in DOMAIN s |-> t[n]]
  OBVIOUS
<1>3. t \in Seq(ToSet(t)) /\ DOMAIN t = 1 .. Len(s) /\ DOMAIN s = 1 .. Len(s)
  BY <1>1, <1>2, ListOfEach
<1>4. ASSUME NEW n \in 1 .. Len(s)
      PROVE  t[n].started \in Nat
  <2>1. t[n] = ParseSharedLifecycleRecord(s[n]) /\ IsWritten(s[n])
    BY <1>3 DEF Written, ToSet
  <2> QED BY <2>1 DEF ParseSharedLifecycleRecord, IsWritten
<1> QED BY <1>3, <1>4 DEF Timed, ToSet

\* And so do those of the first version.
LEMMA LegacyTimed ==
  ASSUME NEW s, Written(s), NEW t, t = [n \in DOMAIN s |-> ParseLifecycleRecord(s[n])]
  PROVE  Timed(t)
<1>1. PICK T : T = ToSet(s) /\ s \in Seq(T)
  BY DEF Written
<1>2. t = [n \in DOMAIN s |-> t[n]]
  OBVIOUS
<1>3. t \in Seq(ToSet(t)) /\ DOMAIN t = 1 .. Len(s) /\ DOMAIN s = 1 .. Len(s)
  BY <1>1, <1>2, ListOfEach
<1>4. ASSUME NEW n \in 1 .. Len(s)
      PROVE  t[n].started \in Nat
  <2>1. t[n] = ParseLifecycleRecord(s[n]) /\ IsWritten(s[n])
    BY <1>3 DEF Written, ToSet
  <2> QED BY <2>1 DEF ParseLifecycleRecord, IsWritten
<1> QED BY <1>3, <1>4 DEF Timed, ToSet

\* The records of an attachment of any kind have a start, known or not.
LEMMA ParsedTimed ==
  ASSUME NEW a, Written(a.records)
  PROVE  Timed(ParseAttachment(a).records)
<1>1. PICK content, T : /\ content = ContentOf(a) /\ Written(content.records)
                        /\ T = ToSet(content.records) /\ content.records \in Seq(T)
  BY ContentWritten DEF Written
<1>2. AtMost(content.records) \in Seq(T)
  BY <1>1, AtMostType
<1>3. Timed(ParseBrowserLifecycleAttachment(content).records)
  <2>1. PICK s, t : /\ s = SanitizeRecords(AtMost(content.records))
                    /\ t = [n \in DOMAIN s |-> ParseSharedLifecycleRecord(s[n])]
    OBVIOUS
  <2>2. Written(AtMost(content.records))
    BY <1>1, <1>2, PartOfWritten
  <2>3. Written(s)
    BY <2>1, <2>2, SanitizedWhat DEF Clean, IsClean, Written
  <2>4. Timed(t)
    BY <2>1, <2>3, SharedTimed
  <2>5. ParseBrowserLifecycleAttachment(content).records \in {<<>>, t}
    BY <2>1 DEF ParseBrowserLifecycleAttachment, NothingParsed
  <2> QED BY <2>4, <2>5, NothingTimed
<1>4. Timed(ParseLegacyAttachment(content).records)
  <2>1. PICK s, t : /\ s = Among(AtMost(content.records),
                                {r \in ToSet(content.records) : IsNamed(r)})
                    /\ t = [n \in DOMAIN s |-> ParseLifecycleRecord(s[n])]
    OBVIOUS
  <2>2. s \in Seq(T)
    BY <1>2, <2>1, AmongType
  <2>3. Written(s)
    BY <1>1, <2>2, PartOfWritten
  <2>4. Timed(t)
    BY <2>1, <2>3, LegacyTimed
  <2>5. ParseLegacyAttachment(content).records = t
    BY <2>1 DEF ParseLegacyAttachment
  <2> QED BY <2>4, <2>5
<1>5. Timed(NothingParsed.records)
  BY NothingTimed DEF NothingParsed
<1> QED BY <1>1, <1>3, <1>4, <1>5 DEF ParseAttachment

\* Of what an encoder included nothing is lost, and that it left something out is said.
LEMMA EncodedIsRead ==
  ASSUME NEW a, Written(a.records), a.kind = "encoded", a.truncated \in BOOLEAN
  PROVE  LET included == IncludedRecords(a.records) IN
         ParseAttachment(a) =
           [records |-> [n \in DOMAIN included |-> ParseSharedLifecycleRecord(included[n])],
            truncated |-> a.truncated \/ Len(included) < Len(a.records)]
<1>1. PICK included, content :
        /\ included = IncludedRecords(a.records)
        /\ content = Content(2, included, a.truncated \/ Len(included) < Len(a.records))
  OBVIOUS
<1>2. ContentOf(a) = content /\ content.records = included /\ content.version = 2
      /\ content.truncated = (a.truncated \/ Len(included) < Len(a.records))
  BY <1>1 DEF ContentOf, EncodeBrowserLifecycleAttachment, Content
<1>3. WellEncoded(a.records, included)
  BY <1>1, EncodesWell
<1>4. included \in Seq(ToSet(included)) /\ Len(included) \in Nat
  BY <1>3 DEF WellEncoded, Clean
<1>5. IsRead(content)
  BY <1>2, <1>3 DEF IsRead, WellEncoded
<1>6. SanitizeRecords(AtMost(included)) = included
  <2>1. PICK T : T = ToSet(included)
    OBVIOUS
  <2>2. AtMost(included) = included
    BY <1>3, <1>4, <2>1, AtMostFits DEF WellEncoded
  <2> QED BY <1>3, <2>2, SanitizedStays DEF WellEncoded
<1>7. ParseAttachment(a) = ParseBrowserLifecycleAttachment(content)
  BY <1>2, <1>5 DEF ParseAttachment
<1>8. ParseBrowserLifecycleAttachment(content) =
        [records |-> [n \in DOMAIN included |-> ParseSharedLifecycleRecord(included[n])],
         truncated |-> content.truncated \/ Len(included) < Len(included)]
  BY <1>2, <1>6 DEF ParseBrowserLifecycleAttachment
<1>9. (content.truncated \/ Len(included) < Len(included)) =
        (a.truncated \/ Len(included) < Len(a.records))
  <2>1. ~(Len(included) < Len(included))
    BY <1>4
  <2> QED BY <1>2, <2>1
<1> QED BY <1>1, <1>2, <1>7, <1>8, <1>9

\* The loop that puts together what is parsed of the attachments.
Parses(f, list) ==
  /\ f[0] = NothingParsed
  /\ \A n \in 1 .. Len(list) :
       f[n] = AddParsed(f[n - 1], ParseAttachment(list[n]))
  /\ ParseAttachments(list) = f[Len(list)]

\* It is there, and goes through lists of what is parsed.
LEMMA ParsesExist ==
  ASSUME NEW R, NEW list, NEW M \in Nat, M = Len(list),
         \A n \in 1 .. M : ParseAttachment(list[n]).records \in Seq(R)
  PROVE  \E f \in [0 .. Len(list) -> [records : Seq(R), truncated : BOOLEAN]] : Parses(f, list)
<1>1. PICK N, S : N = Len(list) /\ S = [records : Seq(R), truncated : BOOLEAN]
  OBVIOUS
<1>2. N \in Nat /\ NothingParsed \in S
  <2>1. <<>> \in Seq(R)
    OBVIOUS
  <2> QED BY <1>1, <2>1 DEF NothingParsed
<1>3. \A n \in 1 .. N : \A v \in S : AddParsed(v, ParseAttachment(list[n])) \in S
  <2> TAKE n \in 1 .. N
  <2> TAKE v \in S
  <2>1. PICK p : p = ParseAttachment(list[n])
    OBVIOUS
  <2>2. v.records \o p.records \in Seq(R)
    BY <1>1, <2>1
  <2>3. AtMost(v.records \o p.records) \in Seq(R)
    BY <2>2, AtMostType
  <2>4. (v.truncated \/ p.truncated \/ Len(v.records \o p.records) > MaximumRecords) \in BOOLEAN
    OBVIOUS
  <2> QED BY <1>1, <2>1, <2>3, <2>4 DEF AddParsed
<1>4. PICK step : step = [n \in 1 .. N |-> [v \in S |->
                     AddParsed(v, ParseAttachment(list[n]))]]
  OBVIOUS
<1>5. /\ step \in [1 .. N -> [S -> S]]
      /\ \A n \in 1 .. N : \A v \in S :
           step[n][v] = AddParsed(v, ParseAttachment(list[n]))
  BY <1>3, <1>4
<1> DEFINE Turns(f) ==
             f = [n \in 0 .. N |->
                    IF n = 0 THEN NothingParsed
                    ELSE AddParsed(f[n - 1], ParseAttachment(list[n]))]
<1>6. \A n \in 0 .. N : n # 0 => n \in 1 .. N /\ n - 1 \in 0 .. N
  BY <1>2
<1>7. \E f : Turns(f)
  <2>1. PICK f \in [0 .. N -> S] : Loops(f, N, NothingParsed, step)
    BY <1>2, <1>5, LoopExists
  <2>2. f[0] = NothingParsed /\ f = [n \in 0 .. N |-> f[n]]
    BY <2>1 DEF Loops
  <2>3. \A n \in 1 .. N : f[n] = AddParsed(f[n - 1], ParseAttachment(list[n]))
    <3> TAKE n \in 1 .. N
    <3>1. n - 1 \in 0 .. N
      BY <1>2
    <3>2. f[n - 1] \in S /\ f[n] = step[n][f[n - 1]]
      BY <2>1, <3>1 DEF Loops
    <3> QED BY <1>5, <3>2
  <2>4. \A n \in 0 .. N :
          f[n] = IF n = 0 THEN NothingParsed
                 ELSE AddParsed(f[n - 1], ParseAttachment(list[n]))
    BY <1>6, <2>2, <2>3
  <2> QED BY <2>2, <2>4
<1>8. PICK f : f = (CHOOSE g : Turns(g)) /\ Turns(f)
  <2> HIDE DEF Turns
  <2> QED BY <1>7
<1>9. ParseAttachments(list) = f[N]
  BY <1>1, <1>8 DEF ParseAttachments
<1>10. /\ f = [n \in 0 .. N |-> f[n]]
       /\ \A n \in 0 .. N :
            f[n] = IF n = 0 THEN NothingParsed
                   ELSE AddParsed(f[n - 1], ParseAttachment(list[n]))
  BY <1>8
<1> HIDE DEF Turns
<1>11. f[0] = NothingParsed
  <2>1. 0 \in 0 .. N
    BY <1>2
  <2> QED BY <1>10, <2>1
<1>12. \A n \in 1 .. N : f[n] = AddParsed(f[n - 1], ParseAttachment(list[n]))
  <2> TAKE n \in 1 .. N
  <2>1. n \in 0 .. N /\ n # 0
    BY <1>2
  <2> QED BY <1>10, <2>1
<1>13. LoopsIn(f, N, S, NothingParsed, step)
  BY <1>5, <1>11, <1>12 DEF LoopsIn
<1>14. \A n \in 0 .. N : f[n] \in S
  BY <1>2, <1>5, <1>13, LoopStays
<1>15. f \in [0 .. N -> S]
  BY <1>10, <1>14
<1> QED BY <1>1, <1>9, <1>11, <1>12, <1>15 DEF Parses

-----------------------------------------------------------------------------
(* What is read of all attachments. *)

\* The attachments that results may have are of records as they are written.
LEMMA OfferedWritten ==
  ASSUME NEW list \in OfferedAttachments
  PROVE  /\ list \in Seq(ToSet(list)) /\ Len(list) \in Nat /\ DOMAIN list = 1 .. Len(list)
         /\ \A n \in 1 .. Len(list) :
              Written(list[n].records) /\ list[n].truncated \in BOOLEAN
<1>1. list \in Seq(ToSet(list))
  BY LifecycleAssumption
<1>2. Len(list) \in Nat /\ DOMAIN list = 1 .. Len(list)
  BY <1>1
<1>3. ASSUME NEW n \in 1 .. Len(list)
      PROVE  Written(list[n].records) /\ list[n].truncated \in BOOLEAN
  <2>1. PICK a : a = list[n] /\ a \in ToSet(list)
    BY <1>2 DEF ToSet
  <2>2. a.truncated \in BOOLEAN /\ a.records \in Seq(ToSet(a.records))
    BY <2>1, LifecycleAssumption
  <2>3. ASSUME NEW r \in ToSet(a.records)
        PROVE  IsWritten(r)
    <3>1. /\ DOMAIN r = {"named", "key", "template", "classification", "cdp", "playwright",
                         "details", "bytes"}
          /\ r.bytes \in Nat /\ IsFiniteSet(r.details)
          /\ r.cdp \in Offsets \cup {NoOffset} /\ r.playwright \in Offsets \cup {NoOffset}
      BY <2>1, LifecycleAssumption
    <3>2. r.cdp \in Nat /\ r.playwright \in Nat
      BY <3>1, BuilderAssumption
    <3> QED BY <3>1, <3>2 DEF IsWritten
  <2> QED BY <2>1, <2>2, <2>3 DEF Written
<1> QED BY <1>1, <1>2, <1>3

\* What is put together says that something is missing, or else it holds all of what the
\* attachments before it hold, which were whole.
IsWhole(all, list, m) ==
  /\ ~ParseAttachment(list[m]).truncated
  /\ ToSet(ParseAttachment(list[m]).records) \subseteq ToSet(all.records)

Tells(all, list, n) == all.truncated \/ \A m \in 1 .. n : IsWhole(all, list, m)

\* It does so with one more.
LEMMA TellsOfMore ==
  ASSUME NEW R, NEW list, NEW n \in Nat \ {0}, NEW all, all.records \in Seq(R),
         ParseAttachment(list[n]).records \in Seq(R), Tells(all, list, n - 1)
  PROVE  Tells(AddParsed(all, ParseAttachment(list[n])), list, n)
<1>1. PICK p, both, more : /\ p = ParseAttachment(list[n]) /\ both = all.records \o p.records
                           /\ more = AddParsed(all, p)
  OBVIOUS
<1>2. /\ p.records \in Seq(R) /\ both \in Seq(R) /\ Len(both) \in Nat
      /\ MaximumRecords \in Nat
  <2>1. p.records \in Seq(R)
    BY <1>1
  <2>2. both \in Seq(R)
    BY <1>1, <2>1
  <2>3. Len(both) \in Nat
    BY <2>2
  <2> QED BY <2>1, <2>2, <2>3, LifecycleAssumption
<1>3. /\ more.records = AtMost(both)
      /\ more.truncated = (all.truncated \/ p.truncated \/ Len(both) > MaximumRecords)
  BY <1>1 DEF AddParsed
<1>4. CASE more.truncated
  BY <1>1, <1>4 DEF Tells
<1>5. CASE ~more.truncated
  <2>1. ~all.truncated /\ ~p.truncated /\ Len(both) <= MaximumRecords
    <3>1. ~(all.truncated \/ p.truncated \/ Len(both) > MaximumRecords)
      BY <1>3, <1>5
    <3>2. ~all.truncated /\ ~p.truncated /\ ~(Len(both) > MaximumRecords)
      BY <3>1, Zenon
    <3>3. Len(both) <= MaximumRecords
      BY <1>2, <3>2
    <3> QED BY <3>2, <3>3, Zenon
  <2>2. more.records = both
    BY <1>2, <1>3, <2>1, AtMostFits
  <2>3. ToSet(all.records) \subseteq ToSet(more.records)
        /\ ToSet(p.records) \subseteq ToSet(more.records)
    BY <1>1, <1>2, <2>2, ListOfBoth
  <2>4. IsWhole(more, list, n)
    BY <1>1, <2>1, <2>3 DEF IsWhole
  <2>5. ASSUME NEW m \in 1 .. n - 1
        PROVE  IsWhole(more, list, m)
    <3>1. IsWhole(all, list, m)
      BY <2>1 DEF Tells
    <3> QED BY <2>3, <3>1 DEF IsWhole
  <2>6. \A m \in 1 .. n : m = n \/ m \in 1 .. n - 1
    OBVIOUS
  <2> QED BY <1>1, <2>4, <2>5, <2>6 DEF Tells
<1> QED BY <1>4, <1>5

\* The attachments are put together of records that have a start, and tell what is missing.
LEMMA AllParsed ==
  ASSUME NEW list \in OfferedAttachments
  PROVE  /\ Timed(ParseAttachments(list).records)
         /\ ParseAttachments(list).truncated \in BOOLEAN
         /\ Tells(ParseAttachments(list), list, Len(list))
<1>1. PICK N : N = Len(list) /\ N \in Nat
  BY OfferedWritten
<1>2. \A n \in 1 .. N : Timed(ParseAttachment(list[n]).records)
  BY <1>1, OfferedWritten, ParsedTimed
<1>3. PICK R : R = UNION {ToSet(ParseAttachment(list[n]).records) : n \in 1 .. N}
  OBVIOUS
<1>4. ASSUME NEW n \in 1 .. N
      PROVE  ParseAttachment(list[n]).records \in Seq(R)
  <2>1. PICK s : s = ParseAttachment(list[n]).records
    OBVIOUS
  <2>2. s \in Seq(ToSet(s)) /\ ToSet(s) \subseteq R
    BY <1>2, <1>3, <2>1 DEF Timed
  <2>3. PICK T : T = ToSet(s)
    OBVIOUS
  <2> QED BY <2>1, <2>2, <2>3, ListOfMore
<1>5. \A r \in R : r.started \in Nat
  BY <1>2, <1>3 DEF Timed
<1>6. PICK f \in [0 .. N -> [records : Seq(R), truncated : BOOLEAN]] : Parses(f, list)
  BY <1>1, <1>4, ParsesExist
<1>7. N \in 0 .. N /\ ParseAttachments(list) = f[N]
  BY <1>1, <1>6 DEF Parses
<1>8. f[N].records \in Seq(R) /\ f[N].truncated \in BOOLEAN
  BY <1>6, <1>7
<1>9. Timed(f[N].records)
  <2>1. PICK s : s = f[N].records /\ s \in Seq(R)
    BY <1>8
  <2>2. s \in Seq(ToSet(s)) /\ ToSet(s) \subseteq R
    BY <2>1, ListOfItsOwn
  <2> QED BY <1>5, <2>1, <2>2 DEF Timed
<1>10. PICK P : P = {n \in 0 .. N : Tells(f[n], list, n)}
  OBVIOUS
<1>11. 0 \in P
  BY <1>1, <1>10 DEF Tells
<1>12. ASSUME NEW n \in 1 .. N, n - 1 \in P
       PROVE  n \in P
  <2>1. n \in 0 .. N /\ n - 1 \in 0 .. N /\ n \in Nat \ {0}
    BY <1>1
  <2>2. PICK all : all = f[n - 1] /\ all.records \in Seq(R) /\ Tells(all, list, n - 1)
    BY <1>6, <1>10, <1>12, <2>1
  <2>3. Tells(AddParsed(all, ParseAttachment(list[n])), list, n)
    BY <1>4, <2>1, <2>2, TellsOfMore
  <2>4. f[n] = AddParsed(all, ParseAttachment(list[n]))
    BY <1>1, <1>6, <2>2 DEF Parses
  <2> QED BY <1>10, <2>1, <2>3, <2>4
<1>13. \A n \in 0 .. N : n \in P
  BY <1>1, <1>11, <1>12, UpTo
<1>14. Tells(f[N], list, N)
  BY <1>7, <1>10, <1>13
<1> QED BY <1>1, <1>7, <1>8, <1>9, <1>14

\* What of encoded attachments is not read is told.
LEMMA LostIsTold ==
  ASSUME NEW list \in OfferedAttachments, IsLost(list, ParseAttachments(list))
  PROVE  ParseAttachments(list).truncated
<1>1. PICK n \in DOMAIN list : list[n].kind = "encoded" /\ \E k \in DOMAIN list[n].records :
        LET r == list[n].records[k] IN
        \/ ~IsRecord(r)
        \/ ParseSharedLifecycleRecord(CopyRecordFields(r)) \notin
             ToSet(ParseAttachments(list).records)
  BY DEF IsLost
<1>2. PICK a : a = list[n]
  OBVIOUS
<1>3. PICK r \in ToSet(a.records) :
        \/ ~IsRecord(r)
        \/ ParseSharedLifecycleRecord(CopyRecordFields(r)) \notin
             ToSet(ParseAttachments(list).records)
  BY <1>1, <1>2 DEF ToSet
<1>4. n \in 1 .. Len(list) /\ Written(a.records) /\ a.truncated \in BOOLEAN
  BY <1>2, OfferedWritten
<1>5. PICK included : included = IncludedRecords(a.records)
  OBVIOUS
<1>6. WellEncoded(a.records, included)
  BY <1>4, <1>5, EncodesWell
<1>7. ParseAttachment(a) =
        [records |-> [k \in DOMAIN included |-> ParseSharedLifecycleRecord(included[k])],
         truncated |-> a.truncated \/ Len(included) < Len(a.records)]
  BY <1>1, <1>2, <1>4, <1>5, EncodedIsRead
<1>8. Tells(ParseAttachments(list), list, Len(list))
  BY AllParsed
<1>9. SUFFICES ASSUME ~ParseAttachments(list).truncated PROVE FALSE
  OBVIOUS
<1>10. IsWhole(ParseAttachments(list), list, n)
  BY <1>4, <1>8, <1>9 DEF Tells
<1>11. PICK s : s = [k \in DOMAIN included |-> ParseSharedLifecycleRecord(included[k])]
  OBVIOUS
<1>12. /\ ~(Len(included) < Len(a.records))
       /\ ToSet(s) \subseteq ToSet(ParseAttachments(list).records)
  <2>1. /\ ParseAttachment(a).truncated = (a.truncated \/ Len(included) < Len(a.records))
        /\ ParseAttachment(a).records = s
    BY <1>7, <1>11
  <2> QED BY <1>2, <1>10, <2>1 DEF IsWhole
<1>13. IsRecord(r) /\ CopyRecordFields(r) \in ToSet(included)
  BY <1>3, <1>6, <1>12 DEF WellEncoded
<1>14. PICK k \in DOMAIN included : included[k] = CopyRecordFields(r)
  BY <1>13 DEF ToSet
<1>15. s[k] = ParseSharedLifecycleRecord(CopyRecordFields(r)) /\ k \in DOMAIN s
  BY <1>11, <1>14
<1>16. s[k] \in ToSet(s)
  BY <1>15 DEF ToSet
<1> QED BY <1>3, <1>12, <1>13, <1>15, <1>16

\* What joinings may be, whatever the order.
Joinings(parsed) ==
  UNION {[D -> [source : 1 .. Len(parsed.records), record : ToSet(parsed.records),
                truncated : {parsed.truncated}]] : D \in SUBSET instances}

\* The loop of the join.
Joins(f, parsed) ==
  /\ f[0] = [i \in {} |-> {}]
  /\ \A n \in 1 .. Len(parsed.records) :
       f[n] = Join(f[n - 1], parsed, n)
  /\ JoinClientLifecycles(parsed) = f[Len(parsed.records)]

\* It is there, and goes through joinings.
LEMMA JoinsExist ==
  ASSUME NEW parsed, Timed(parsed.records)
  PROVE  \E f \in [0 .. Len(parsed.records) -> Joinings(parsed)] : Joins(f, parsed)
<1>1. PICK N, S : N = Len(parsed.records) /\ S = Joinings(parsed)
  OBVIOUS
<1>2. N \in Nat /\ [i \in {} |-> {}] \in S
  <2>1. PICK V : S = UNION {[D -> V] : D \in SUBSET instances}
    BY <1>1 DEF Joinings
  <2>2. [i \in {} |-> {}] \in [{} -> V] /\ {} \in SUBSET instances
    OBVIOUS
  <2>3. [i \in {} |-> {}] \in S
    BY <2>1, <2>2
  <2> QED BY <1>1, <2>3 DEF Timed
<1>3. \A n \in 1 .. N : \A v \in S : Join(v, parsed, n) \in S
  <2> TAKE n \in 1 .. N
  <2> TAKE v \in S
  <2>1. PICK V : /\ V = [source : 1 .. N, record : ToSet(parsed.records),
                         truncated : {parsed.truncated}]
                 /\ S = UNION {[D -> V] : D \in SUBSET instances}
    BY <1>1 DEF Joinings
  <2>2. PICK D \in SUBSET instances : v \in [D -> V]
    BY <2>1
  <2>3. PICK r, closest : /\ r = parsed.records[n]
                          /\ closest = PickClosestInstance(r, Candidates(v, r))
    OBVIOUS
  <2>4. closest \subseteq instances
    BY <2>3 DEF PickClosestInstance, Candidates
  <2>5. PICK joint : joint = [source |-> n, record |-> r, truncated |-> parsed.truncated]
    OBVIOUS
  <2>6. r \in ToSet(parsed.records)
    BY <1>1, <2>3 DEF Timed
  <2>7. joint \in V
    BY <2>1, <2>5, <2>6
  <2>8. Join(v, parsed, n) = [i \in D \cup closest |-> IF i \in closest THEN joint ELSE v[i]]
    BY <2>2, <2>3, <2>5 DEF Join
  <2>9. Join(v, parsed, n) \in [D \cup closest -> V]
    BY <2>2, <2>7, <2>8
  <2>10. D \cup closest \in SUBSET instances
    BY <2>4
  <2> QED BY <2>1, <2>9, <2>10
<1>4. PICK step : step = [n \in 1 .. N |-> [v \in S |->
                     Join(v, parsed, n)]]
  OBVIOUS
<1>5. /\ step \in [1 .. N -> [S -> S]]
      /\ \A n \in 1 .. N : \A v \in S :
           step[n][v] = Join(v, parsed, n)
  BY <1>3, <1>4
<1> DEFINE Turns(f) ==
             f = [n \in 0 .. N |->
                    IF n = 0 THEN [i \in {} |-> {}]
                    ELSE Join(f[n - 1], parsed, n)]
<1>6. \A n \in 0 .. N : n # 0 => n \in 1 .. N /\ n - 1 \in 0 .. N
  BY <1>2
<1>7. \E f : Turns(f)
  <2>1. PICK f \in [0 .. N -> S] : Loops(f, N, [i \in {} |-> {}], step)
    BY <1>2, <1>5, LoopExists
  <2>2. f[0] = [i \in {} |-> {}] /\ f = [n \in 0 .. N |-> f[n]]
    BY <2>1 DEF Loops
  <2>3. \A n \in 1 .. N : f[n] = Join(f[n - 1], parsed, n)
    <3> TAKE n \in 1 .. N
    <3>1. n - 1 \in 0 .. N
      BY <1>2
    <3>2. f[n - 1] \in S /\ f[n] = step[n][f[n - 1]]
      BY <2>1, <3>1 DEF Loops
    <3> QED BY <1>5, <3>2
  <2>4. \A n \in 0 .. N :
          f[n] = IF n = 0 THEN [i \in {} |-> {}]
                 ELSE Join(f[n - 1], parsed, n)
    BY <1>6, <2>2, <2>3
  <2>5. f = [n \in 0 .. N |-> IF n = 0 THEN [i \in {} |-> {}] ELSE Join(f[n - 1], parsed, n)]
    BY <2>2, <2>4, Zenon
  <2> QED BY <2>5
<1>8. PICK f : f = (CHOOSE g : Turns(g)) /\ Turns(f)
  <2> HIDE DEF Turns
  <2> QED BY <1>7
<1>9. JoinClientLifecycles(parsed) = f[N]
  BY <1>1, <1>8 DEF JoinClientLifecycles
<1>10. /\ f = [n \in 0 .. N |-> f[n]]
       /\ \A n \in 0 .. N :
            f[n] = IF n = 0 THEN [i \in {} |-> {}]
                   ELSE Join(f[n - 1], parsed, n)
  BY <1>8
<1> HIDE DEF Turns
<1>11. f[0] = [i \in {} |-> {}]
  <2>1. 0 \in 0 .. N
    BY <1>2
  <2> QED BY <1>10, <2>1
<1>12. \A n \in 1 .. N : f[n] = Join(f[n - 1], parsed, n)
  <2> TAKE n \in 1 .. N
  <2>1. n \in 0 .. N /\ n # 0
    BY <1>2
  <2> QED BY <1>10, <2>1
<1>13. LoopsIn(f, N, S, [i \in {} |-> {}], step)
  BY <1>5, <1>11, <1>12 DEF LoopsIn
<1>14. \A n \in 0 .. N : f[n] \in S
  BY <1>2, <1>5, <1>13, LoopStays
<1>15. f \in [0 .. N -> S]
  BY <1>10, <1>14
<1> QED BY <1>1, <1>9, <1>11, <1>12, <1>15 DEF Joins

-----------------------------------------------------------------------------
(* The join of records and instances. *)

\* Of two instances one is closer to a record, and what is closer than a closer one is closer.
LEMMA CloserIsStrict ==
  ASSUME NEW all, Ordered(all), NEW r, r.started \in Nat
  PROVE  /\ \A i \in all : ~IsCloser(r, i, i)
         /\ \A i, j \in all : i # j => IsCloser(r, i, j) \/ IsCloser(r, j, i)
         /\ \A i, j, k \in all : IsCloser(r, i, j) /\ IsCloser(r, j, k) => IsCloser(r, i, k)
<1>1. \A i \in all : Distance(r, i) \in Nat
  BY DEF Ordered, Distance
<1>2. \A i \in all : i.offset \in Nat /\ i.number \in Nat
  BY DEF Ordered
<1>3. \A i \in all : ~Before(i, i)
  BY OrderIsStrict
<1>4. \A i \in all : ~IsCloser(r, i, i)
  BY <1>1, <1>3 DEF IsCloser
<1>5. \A i, j \in all : i # j => Before(i, j) \/ Before(j, i)
  BY OrderIsStrict
<1>6. \A i, j \in all : i # j => IsCloser(r, i, j) \/ IsCloser(r, j, i)
  BY <1>1, <1>5 DEF IsCloser
<1>7. \A i, j, k \in all : Before(i, j) /\ Before(j, k) => Before(i, k)
  BY OrderIsStrict
<1>8. ASSUME NEW i \in all, NEW j \in all, NEW k \in all,
             IsCloser(r, i, j), IsCloser(r, j, k)
      PROVE  IsCloser(r, i, k)
  <2>1. CASE r.started = NoOffset
    BY <1>7, <1>8, <2>1 DEF IsCloser
  <2>2. CASE r.started # NoOffset
    <3>1. PICK a \in Nat, b \in Nat, c \in Nat :
            a = Distance(r, i) /\ b = Distance(r, j) /\ c = Distance(r, k)
      BY <1>1
    <3>2. Before(i, j) /\ Before(j, k) => Before(i, k)
      BY <1>7
    <3> QED BY <1>8, <2>2, <3>1, <3>2 DEF IsCloser
  <2> QED BY <2>1, <2>2
<1> QED BY <1>4, <1>6, <1>8

\* The closest instance is one, and there is one if there is any.
LEMMA ClosestInstance ==
  ASSUME NEW all, Ordered(all), NEW r, r.started \in Nat, NEW set \in SUBSET all, set # {}
  PROVE  \E i \in set : /\ PickClosestInstance(r, set) = {i}
                        /\ \A j \in set \ {i} : IsCloser(r, i, j)
<1>1. PICK R : R = {p \in all \X all : IsCloser(r, p[1], p[2])}
  OBVIOUS
<1>2. \A i, j \in all : <<i, j>> \in R <=> IsCloser(r, i, j)
  BY <1>1
<1>3. IsStrict(R, set)
  BY <1>2, CloserIsStrict DEF IsStrict
<1>4. IsFiniteSet(set)
  BY FS_Subset DEF Ordered
<1>5. PICK i \in set : \A j \in set \ {i} : <<i, j>> \in R
  BY <1>3, <1>4, FirstOf
<1>6. \A j \in set \ {i} : IsCloser(r, i, j)
  BY <1>2, <1>5
<1>7. ASSUME NEW k \in PickClosestInstance(r, set)
      PROVE  k = i
  <2>1. k \in set /\ (k # i => IsCloser(r, k, i))
    BY DEF PickClosestInstance
  <2>2. k # i => IsCloser(r, i, k)
    BY <1>6, <2>1
  <2>3. ~(IsCloser(r, k, i) /\ IsCloser(r, i, k))
    BY <2>1, CloserIsStrict
  <2> QED BY <2>1, <2>2, <2>3
<1>8. i \in PickClosestInstance(r, set)
  BY <1>6 DEF PickClosestInstance
<1> QED BY <1>6, <1>7, <1>8

\* A record that has been joined as well as could be.
Settled(joined, parsed, m) ==
  \A j \in instances :
    IsJoinCandidate(parsed.records[m], j) =>
      \/ j \in DOMAIN joined /\ joined[j].source <= m
      \/ \E i \in DOMAIN joined : /\ joined[i].source = m
                                  /\ IsCloser(parsed.records[m], i, j)

\* What the join has come to after a number of records.
Stable(joined, parsed, n) ==
  /\ DOMAIN joined \subseteq instances
  /\ \A i \in DOMAIN joined : /\ joined[i].source \in 1 .. n
                              /\ joined[i].record = parsed.records[joined[i].source]
                              /\ joined[i].truncated = parsed.truncated
                              /\ IsJoinCandidate(joined[i].record, i)
  /\ \A i, j \in DOMAIN joined : joined[i].source = joined[j].source => i = j
  /\ \A m \in 1 .. n : Settled(joined, parsed, m)

\* A record is joined as well as can be, and those before it stay so.
LEMMA JoinStable ==
  ASSUME Ordered(instances), NEW parsed, Timed(parsed.records),
         NEW n \in 1 .. Len(parsed.records),
         NEW joined, Stable(joined, parsed, n - 1)
  PROVE  Stable(Join(joined, parsed, n), parsed, n)
<1>1. PICK r, set, closest, after :
        /\ r = parsed.records[n] /\ set = Candidates(joined, r)
        /\ closest = PickClosestInstance(r, set) /\ after = Join(joined, parsed, n)
  OBVIOUS
<1>2. r.started \in Nat /\ n \in Nat /\ n >= 1
  <2>1. /\ parsed.records \in Seq(ToSet(parsed.records))
        /\ \A q \in ToSet(parsed.records) : q.started \in Nat
    BY DEF Timed
  <2> QED BY <1>1, <2>1
<1>3. set \in SUBSET instances /\ \A i \in set : i \notin DOMAIN joined /\ IsJoinCandidate(r, i)
  BY <1>1 DEF Candidates
<1>4. \A j \in instances : IsJoinCandidate(r, j) => j \in set \/ j \in DOMAIN joined
  BY <1>1 DEF Candidates
<1>5. closest \subseteq set
  BY <1>1 DEF PickClosestInstance
<1>6. /\ DOMAIN after = DOMAIN joined \cup closest
      /\ \A i \in closest : after[i] = [source |-> n, record |-> r, truncated |-> parsed.truncated]
      /\ \A i \in DOMAIN joined : after[i] = joined[i]
  BY <1>1, <1>3, <1>5 DEF Join
<1>7. \A i \in closest : /\ after[i].source = n /\ after[i].record = r
                          /\ after[i].truncated = parsed.truncated
  BY <1>6
<1>8. DOMAIN after \subseteq instances
  BY <1>3, <1>5, <1>6 DEF Stable
<1>9. ASSUME NEW i \in DOMAIN after
      PROVE  /\ after[i].source \in 1 .. n
             /\ after[i].record = parsed.records[after[i].source]
             /\ after[i].truncated = parsed.truncated
             /\ IsJoinCandidate(after[i].record, i)
  <2>1. CASE i \in closest
    BY <1>1, <1>2, <1>3, <1>5, <1>7, <2>1
  <2>2. CASE i \in DOMAIN joined
    <3>1. after[i] = joined[i] /\ joined[i].source \in 1 .. n - 1
      BY <1>6, <2>2 DEF Stable
    <3> QED BY <1>2, <2>2, <3>1 DEF Stable
  <2> QED BY <1>6, <2>1, <2>2
<1>10. \A i, j \in closest : i = j
  <2>1. CASE set = {}
    BY <1>5, <2>1
  <2>2. CASE set # {}
    BY <1>1, <1>2, <1>3, <2>2, ClosestInstance
  <2> QED BY <2>1, <2>2
<1>11. \A i \in DOMAIN joined : after[i].source # n
  BY <1>2, <1>6 DEF Stable
<1>12. ASSUME NEW i \in DOMAIN after, NEW j \in DOMAIN after, after[i].source = after[j].source
       PROVE  i = j
  <2>1. CASE i \in closest /\ j \in closest
    BY <1>10, <2>1
  <2>2. CASE i \in closest /\ j \in DOMAIN joined
    BY <1>7, <1>11, <1>12, <2>2
  <2>3. CASE i \in DOMAIN joined /\ j \in closest
    BY <1>7, <1>11, <1>12, <2>3
  <2>4. CASE i \in DOMAIN joined /\ j \in DOMAIN joined
    BY <1>6, <1>12, <2>4 DEF Stable
  <2> QED BY <1>6, <2>1, <2>2, <2>3, <2>4
<1>13. ASSUME NEW m \in 1 .. n - 1
       PROVE  Settled(after, parsed, m)
  <2>1. Settled(joined, parsed, m)
    BY DEF Stable
  <2> QED BY <1>6, <2>1 DEF Settled
<1>14. Settled(after, parsed, n)
  <2> SUFFICES ASSUME NEW j \in instances, IsJoinCandidate(r, j)
               PROVE  \/ j \in DOMAIN after /\ after[j].source <= n
                      \/ \E i \in DOMAIN after : after[i].source = n /\ IsCloser(r, i, j)
    BY <1>1 DEF Settled
  <2>1. CASE j \in DOMAIN joined
    BY <1>2, <1>6, <1>9, <2>1
  <2>2. CASE j \in set
    <3>1. PICK i \in set : closest = {i} /\ \A k \in set \ {i} : IsCloser(r, i, k)
      BY <1>1, <1>2, <1>3, <2>2, ClosestInstance
    <3>2. i \in DOMAIN after /\ after[i].source = n
      BY <1>6, <1>7, <3>1
    <3>3. CASE j = i
      BY <1>2, <3>2, <3>3
    <3>4. CASE j # i
      BY <2>2, <3>1, <3>2, <3>4
    <3> QED BY <3>3, <3>4
  <2> QED BY <1>4, <2>1, <2>2
<1>15. \A m \in 1 .. n : Settled(after, parsed, m)
  <2>1. \A m \in 1 .. n : m = n \/ m \in 1 .. n - 1
    BY <1>2
  <2> QED BY <1>13, <1>14, <2>1
<1> QED BY <1>1, <1>8, <1>9, <1>12, <1>15 DEF Stable

\* And so are all of them in the end.
LEMMA AllStable ==
  ASSUME Ordered(instances), NEW parsed, Timed(parsed.records)
  PROVE  Stable(JoinClientLifecycles(parsed), parsed, Len(parsed.records))
<1>1. PICK N : N = Len(parsed.records) /\ N \in Nat
  BY DEF Timed
<1>2. PICK f \in [0 .. N -> Joinings(parsed)] : Joins(f, parsed)
  BY <1>1, JoinsExist
<1>3. /\ JoinClientLifecycles(parsed) = f[N] /\ f[0] = [i \in {} |-> {}]
      /\ \A n \in 1 .. N : f[n] = Join(f[n - 1], parsed, n)
  BY <1>1, <1>2 DEF Joins
<1>4. PICK P : P = {n \in 0 .. N : Stable(f[n], parsed, n)}
  OBVIOUS
<1>5. 0 \in P
  <2>1. DOMAIN f[0] = {}
    BY <1>3
  <2>2. Stable(f[0], parsed, 0)
    BY <2>1 DEF Stable
  <2> QED BY <1>1, <1>4, <2>2
<1>6. ASSUME NEW n \in 1 .. N, n - 1 \in P
      PROVE  n \in P
  <2>1. Stable(f[n - 1], parsed, n - 1)
    BY <1>4, <1>6
  <2>2. Stable(Join(f[n - 1], parsed, n), parsed, n)
    BY <1>1, <2>1, JoinStable
  <2>3. f[n] = Join(f[n - 1], parsed, n)
    BY <1>3
  <2> QED BY <1>1, <1>4, <2>2, <2>3
<1>7. \A n \in 0 .. N : n \in P
  BY <1>1, <1>5, <1>6, UpTo
<1>8. N \in P
  BY <1>1, <1>7
<1> QED BY <1>1, <1>3, <1>4, <1>8

-----------------------------------------------------------------------------
(* The lifecycles of an attempt. *)

\* What is attached has been joined to the network as it is, which stays.
LifecycleInv ==
  IF attached
  THEN /\ finalized /\ attachments \in OfferedAttachments
       /\ LET parsed == ParseAttachments(attachments) IN
          Stable(lifecycles, parsed, Len(parsed.records))
  ELSE attachments = <<>> /\ DOMAIN lifecycles = {}

\* Every step of the network and of the join keeps the invariant.
LEMMA LifecycleStep ==
  ASSUME BuilderInv, ContentInv, LifecycleInv,
         \/ BuilderNext /\ UNCHANGED lifecycleVars
         \/ LifecycleNext
         \/ UNCHANGED <<builderVars, lifecycleVars>>
  PROVE  LifecycleInv'
<1>1. CASE BuilderNext /\ UNCHANGED lifecycleVars
  <2>1. ~finalized
    BY <1>1 DEF BuilderNext, DropStaticAsset, SuppressDuplicate, AdmitKnown, AdmitNew, MayAdmit,
                Finalize
  <2>2. ~attached /\ attachments = <<>> /\ DOMAIN lifecycles = {}
    BY <2>1 DEF LifecycleInv
  <2>3. ~attached' /\ attachments' = <<>> /\ DOMAIN lifecycles' = {}
    BY <1>1, <2>2 DEF lifecycleVars
  <2> QED BY <2>3 DEF LifecycleInv
<1>2. CASE LifecycleNext
  <2>1. PICK list \in OfferedAttachments : AttachClientLifecycles(list) /\ UNCHANGED builderVars
    BY <1>2 DEF LifecycleNext
  <2>2. PICK parsed, joined : /\ parsed = ParseAttachments(list)
                              /\ joined = JoinClientLifecycles(parsed)
    OBVIOUS
  <2>3. /\ finalized' /\ attached' /\ attachments' = list /\ lifecycles' = joined
        /\ instances' = instances
    BY <2>1, <2>2 DEF AttachClientLifecycles, builderVars
  <2>4. Stable(joined, parsed, Len(parsed.records))
    BY <2>2, AllParsed, AllStable, InstancesOrdered
  <2>5. Stable(lifecycles, parsed, Len(parsed.records))'
    BY <2>3, <2>4 DEF Stable, Settled
  <2> QED BY <2>2, <2>3, <2>5 DEF LifecycleInv
<1>3. CASE UNCHANGED <<builderVars, lifecycleVars>>
  <2>1. /\ instances' = instances /\ finalized' = finalized /\ attached' = attached
        /\ attachments' = attachments /\ lifecycles' = lifecycles
    BY <1>3 DEF builderVars, lifecycleVars
  <2> QED BY <2>1 DEF LifecycleInv, Stable, Settled
<1> QED BY <1>1, <1>2, <1>3

\* No record is given to two requests and no request to two records, and none to one while
\* a closer one, or one at all, was free.
LEMMA JoinsStable == LifecycleInv => JoinsAreStable
<1> SUFFICES ASSUME LifecycleInv PROVE JoinsAreStable
  OBVIOUS
<1>1. CASE ~attached
  BY <1>1 DEF LifecycleInv, JoinsAreStable
<1>2. CASE attached
  <2>1. PICK parsed : parsed = ParseAttachments(attachments)
    OBVIOUS
  <2>2. Timed(parsed.records) /\ Stable(lifecycles, parsed, Len(parsed.records))
    BY <1>2, <2>1, AllParsed DEF LifecycleInv
  <2>3. DOMAIN parsed.records = 1 .. Len(parsed.records)
    BY <2>2 DEF Timed
  <2> QED BY <2>1, <2>2, <2>3 DEF JoinsAreStable, Stable, Settled
<1> QED BY <1>1, <1>2

\* What the fixture saw is in the report, or each lifecycle says that something is missing,
\* and what is missing is never more telling than what took its place.
LEMMA LossesTold == LifecycleInv => NothingLostSilently
<1> SUFFICES ASSUME LifecycleInv PROVE NothingLostSilently
  OBVIOUS
<1>1. CASE ~attached
  <2>1. DOMAIN attachments = {} /\ DOMAIN lifecycles = {}
    BY <1>1 DEF LifecycleInv
  <2> QED BY <2>1 DEF NothingLostSilently, IsLost
<1>2. CASE attached
  <2>1. PICK list, parsed : /\ list = attachments /\ parsed = ParseAttachments(list)
                            /\ list \in OfferedAttachments
    BY <1>2 DEF LifecycleInv
  <2>2. ASSUME IsLost(list, parsed), NEW i \in DOMAIN lifecycles
        PROVE  lifecycles[i].truncated
    <3>1. parsed.truncated
      BY <2>1, <2>2, LostIsTold
    <3>2. lifecycles[i].truncated = parsed.truncated
      BY <1>2, <2>1, <2>2 DEF LifecycleInv, Stable
    <3> QED BY <3>1, <3>2
  <2>3. ASSUME NEW n \in DOMAIN list, list[n].kind = "encoded"
        PROVE  LET a == list[n]
                   content == EncodeBrowserLifecycleAttachment(a.records, a.truncated)
                   rank(r) == CHOOSE k \in 1 .. 4 : ClassificationPriority[k] = r.classification
               IN  /\ ParseAttachment(a).records =
                        [k \in DOMAIN content.records |->
                           ParseSharedLifecycleRecord(content.records[k])]
                   /\ \A r \in ToSet(SanitizeRecords(a.records)) \ ToSet(content.records) :
                        LET above == Among(content.records, {q \in ToSet(content.records) :
                                                               rank(q) <= rank(r)}) IN
                        \/ Len(above) = MaximumRecords
                        \/ ByteLength(Append(above, r)) > MaximumBytes
    <3>1. PICK a : a = list[n]
      OBVIOUS
    <3>2. Written(a.records) /\ a.truncated \in BOOLEAN /\ a.kind = "encoded"
      BY <2>1, <2>3, <3>1, OfferedWritten
    <3>3. PICK included, content :
            /\ included = IncludedRecords(a.records)
            /\ content = EncodeBrowserLifecycleAttachment(a.records, a.truncated)
            /\ content.records = included
      <4>1. EncodeBrowserLifecycleAttachment(a.records, a.truncated).records =
              IncludedRecords(a.records)
        BY DEF EncodeBrowserLifecycleAttachment, Content
      <4> QED BY <4>1
    <3>4. ParseAttachment(a).records =
            [k \in DOMAIN included |-> ParseSharedLifecycleRecord(included[k])]
      BY <3>2, <3>3, EncodedIsRead
    <3>5. WellEncoded(a.records, included)
      BY <3>2, <3>3, EncodesWell
    <3>6. ASSUME NEW r \in ToSet(SanitizeRecords(a.records)) \ ToSet(included)
          PROVE  LET above == Among(included, {q \in ToSet(included) : Rank(q) <= Rank(r)}) IN
                 \/ Len(above) = MaximumRecords
                 \/ ByteLength(Append(above, r)) > MaximumBytes
      BY <3>5 DEF WellEncoded
    <3> QED BY <3>1, <3>3, <3>4, <3>6 DEF Rank
  <2> QED BY <2>1, <2>2, <2>3 DEF NothingLostSilently
<1> QED BY <1>1, <1>2

\* What the report says of the browser's side is true for any attachments of any writers and
\* any requests: whatever the limits and the malformed records cost is admitted, and what is
\* left is said of the request it belongs to.
THEOREM LifecyclesTrue == LifecycleSpec => []LifecyclesAreTrue
<1>1. BuilderInit /\ LifecycleInit => LifecycleInv
  BY DEF LifecycleInit, LifecycleInv
<1>2. BuilderInv /\ ContentInv /\ LifecycleInv
        /\ [(BuilderNext /\ UNCHANGED lifecycleVars) \/ LifecycleNext]_<<builderVars,
                                                                        lifecycleVars>>
      => BuilderInv' /\ ContentInv' /\ LifecycleInv'
  <2> SUFFICES ASSUME BuilderInv, ContentInv, LifecycleInv,
                      [(BuilderNext /\ UNCHANGED lifecycleVars) \/ LifecycleNext]_<<builderVars,
                                                                                 lifecycleVars>>
               PROVE  BuilderInv' /\ ContentInv' /\ LifecycleInv'
    OBVIOUS
  <2>1. [BuilderNext]_builderVars
    BY DEF LifecycleNext
  <2> QED BY <2>1, InvStep, ContentStep, LifecycleStep
<1>3. LifecycleInv => LifecyclesAreTrue
  BY JoinsStable, LossesTold DEF LifecyclesAreTrue
<1> QED BY InvInit, ContentInit, <1>1, <1>2, <1>3, PTL DEF LifecycleSpec

-----------------------------------------------------------------------------
(* TraceDiagnostics: what is readable of an archive. *)

\* The events of the traces that there may be.
OfferedEvents == UNION {UNION {ToSet(e.events) : e \in ToSet(a.entries)} : a \in OfferedTraces}

\* What is read of an archive is all that could be.
LEMMA ReadableRead ==
  ASSUME NEW a \in OfferedTraces
  PROVE  /\ Events(a) = Readable(a) /\ Readable(a) \in Seq(OfferedEvents)
         /\ ReadZipArchiveEntries(a) \in Seq(ToSet(a.entries))
<1>1. PICK s, T, U, N : s = a.entries /\ T = ToSet(s) /\ U = OfferedEvents /\ N = Len(s)
  OBVIOUS
<1>2. s \in Seq(T) /\ N \in Nat /\ DOMAIN s = 1 .. N /\ \A n \in 1 .. N : s[n] \in T
  <2>1. s \in Seq(T)
    BY <1>1, TraceAssumption
  <2> QED BY <1>1, <2>1
<1>3. \A e \in T : LinesOf(e) \in Seq(U)
  <2> TAKE e \in T
  <2>1. PICK l, V : l = e.events /\ V = ToSet(l)
    OBVIOUS
  <2>2. l \in Seq(V) /\ V \subseteq U
    <3>1. l \in Seq(V)
      BY <1>1, <2>1, TraceAssumption
    <3>2. V \in {ToSet(d.events) : d \in ToSet(a.entries)}
      BY <1>1, <2>1
    <3>3. V \subseteq U
      BY <1>1, <3>2 DEF OfferedEvents
    <3> QED BY <3>1, <3>3
  <2>3. l \in Seq(U)
    BY <2>2, ListOfMore
  <2>4. <<>> \in Seq(U)
    OBVIOUS
  <2> QED BY <2>1, <2>3, <2>4 DEF LinesOf
<1>4. PICK g : g = [e \in T |-> LinesOf(e)]
  OBVIOUS
<1>5. g \in [T -> Seq(U)] /\ \A e \in T : g[e] = LinesOf(e)
  BY <1>3, <1>4
<1>6. PICK one : one = [n \in 1 .. N |-> IF IsEntryRead(a, n) THEN <<s[n]>> ELSE <<>>]
  OBVIOUS
<1>7. PICK two : two = [n \in 1 .. N |-> IF IsEntryRead(a, n) THEN LinesOf(s[n]) ELSE <<>>]
  OBVIOUS
<1>8. one \in Seq(Seq(T)) /\ Len(one) = N
  <2>1. \A n \in 1 .. N : <<s[n]>> \in Seq(T) /\ <<>> \in Seq(T)
    BY <1>2
  <2>2. one \in [1 .. N -> Seq(T)]
    BY <1>6, <2>1
  <2> QED BY <1>2, <2>2
<1>9. two \in Seq(Seq(U)) /\ Len(two) = N
  <2>1. \A n \in 1 .. N : LinesOf(s[n]) \in Seq(U) /\ <<>> \in Seq(U)
    BY <1>2, <1>3
  <2>2. two \in [1 .. N -> Seq(U)]
    BY <1>7, <2>1
  <2> QED BY <1>2, <2>2
<1>10. \A n \in 1 .. N : Gives(T, g, one[n], two[n])
  <2> TAKE n \in 1 .. N
  <2>1. PICK e \in T : e = s[n]
    BY <1>2
  <2>2. CASE IsEntryRead(a, n)
    <3>1. one[n] = <<e>> /\ two[n] = g[e]
      BY <1>5, <1>6, <1>7, <2>1, <2>2
    <3> QED BY <3>1 DEF Gives
  <2>3. CASE ~IsEntryRead(a, n)
    <3>1. one[n] = <<>> /\ two[n] = <<>>
      BY <1>6, <1>7, <2>3
    <3> QED BY <3>1 DEF Gives
  <2> QED BY <2>2, <2>3
<1>11. PICK read : read = Chained(one)
  OBVIOUS
<1>12. read \in Seq(T) /\ read = ReadZipArchiveEntries(a)
  <2>1. Chained(one) \in Seq(T)
    <3>1. PICK none : none = <<>>
      OBVIOUS
    <3>2. none \in Seq(T)
      BY <3>1
    <3> QED BY <1>8, <3>2, ChainedMore
  <2>2. Chained(one) = ReadZipArchiveEntries(a)
    BY <1>1, <1>2, <1>6 DEF ReadZipArchiveEntries
  <2> QED BY <1>11, <2>1, <2>2
<1>13. Chained(Each(g, read)) = Chained(two)
  <2>1. GiveAll(T, U, g, one, two)
    BY <1>3, <1>5, <1>8, <1>9, <1>10 DEF GiveAll
  <2> QED BY <1>11, <2>1, ChainedEach
<1>14. Each(g, read) = [n \in DOMAIN read |-> LinesOf(read[n])]
  <2>1. \A n \in DOMAIN read : read[n] \in T
    BY <1>12
  <2>2. \A n \in DOMAIN read : g[read[n]] = LinesOf(read[n])
    BY <1>5, <2>1
  <2> QED BY <2>2 DEF Each
<1>15. Events(a) = Chained(two)
  BY <1>12, <1>13, <1>14 DEF Events
<1>16. Readable(a) = Chained(two)
  BY <1>1, <1>2, <1>7 DEF Readable
<1>17. Chained(two) \in Seq(U)
  <2>1. PICK none : none = <<>>
    OBVIOUS
  <2>2. none \in Seq(U)
    BY <2>1
  <2> QED BY <1>9, <2>2, ChainedMore
<1> QED BY <1>1, <1>12, <1>15, <1>16, <1>17

-----------------------------------------------------------------------------
(* The messages that are kept. *)

High(T) == {m \in T : IsHighSignalConsoleEntry(m)}

\* A list without one of its places.
Without(s, p) == SubSeq(s, 1, p - 1) \o SubSeq(s, p + 1, Len(s))

LEMMA LeftOutOne ==
  ASSUME NEW T, NEW s \in Seq(T), NEW p \in 1 .. Len(s), NEW A
  PROVE  /\ Without(s, p) \in Seq(T) /\ Len(Without(s, p)) = Len(s) - 1 /\ Len(s) \in Nat
         /\ s[p] \notin A => Among(Without(s, p), A) = Among(s, A)
<1>1. PICK N, a, b, x : /\ N = Len(s) /\ a = SubSeq(s, 1, p - 1)
                        /\ b = SubSeq(s, p + 1, N) /\ x = s[p]
  OBVIOUS
<1>2. N \in Nat /\ p \in 1 .. N /\ x \in T /\ \A n \in 1 .. N : s[n] \in T
  BY <1>1
<1>3. a \in Seq(T) /\ Len(a) = p - 1 /\ \A n \in 1 .. p - 1 : a[n] = s[n]
  BY <1>1, <1>2
<1>4. b \in Seq(T) /\ Len(b) = N - p /\ \A n \in 1 .. N - p : b[n] = s[p + n]
  <2>1. CASE p = N
    <3>1. b = <<>>
      BY <1>1, <1>2, <2>1
    <3> QED BY <1>2, <2>1, <3>1
  <2>2. CASE p # N
    <3>1. p + 1 \in 1 .. N
      BY <1>2, <2>2
    <3>2. Len(b) = N - p
      BY <1>1, <1>2, <3>1
    <3>3. \A n \in 1 .. N - p : b[n] = s[p + n]
      <4> TAKE n \in 1 .. N - p
      <4>1. n + (p + 1) - 1 = p + n /\ n \in 1 .. N - (p + 1) + 1
        BY <1>2
      <4> QED BY <1>1, <1>2, <3>1, <4>1
    <3>4. b \in Seq(T)
      BY <1>1, <1>2, <3>1
    <3> QED BY <3>2, <3>3, <3>4
  <2> QED BY <2>1, <2>2
<1>5. PICK c : c = Append(a, x)
  OBVIOUS
<1>6. /\ c \in Seq(T) /\ Len(c) = p /\ \A n \in 1 .. p : c[n] = s[n]
  <2>1. c \in Seq(T) /\ Len(c) = p /\ c[p] = x /\ \A n \in 1 .. p - 1 : c[n] = a[n]
    BY <1>2, <1>3, <1>5
  <2>2. \A n \in 1 .. p : n = p \/ n \in 1 .. p - 1
    BY <1>2
  <2> QED BY <1>1, <1>3, <2>1, <2>2
<1>7. s = c \o b
  <2>1. c \o b \in Seq(T) /\ Len(c \o b) = N
    <3>1. c \in Seq(T) /\ b \in Seq(T) /\ Len(c) = p /\ Len(b) = N - p
      BY <1>4, <1>6
    <3>2. c \o b \in Seq(T) /\ Len(c \o b) = p + (N - p)
      BY <3>1
    <3> QED BY <1>2, <3>2
  <2>2. ASSUME NEW n \in 1 .. N PROVE (c \o b)[n] = s[n]
    <3>1. CASE n <= p
      <4>1. n \in 1 .. Len(c)
        BY <1>2, <1>6, <3>1
      <4>2. (c \o b)[n] = c[n]
        <5>1. c \in Seq(T) /\ b \in Seq(T)
          BY <1>4, <1>6
        <5> QED BY <4>1, <5>1
      <4> QED BY <1>6, <4>1, <4>2
    <3>2. CASE ~(n <= p)
      <4>1. PICK m : m = n - p
        OBVIOUS
      <4>2. m \in 1 .. N - p /\ n = p + m
        BY <1>2, <3>2, <4>1
      <4>3. (c \o b)[Len(c) + m] = b[m]
        <5>1. c \in Seq(T) /\ b \in Seq(T) /\ m \in 1 .. Len(b)
          BY <1>4, <1>6, <4>2
        <5> QED BY <5>1
      <4> QED BY <1>4, <1>6, <4>2, <4>3
    <3> QED BY <3>1, <3>2
  <2>3. s \in Seq(T) /\ Len(s) = N
    BY <1>1
  <2> QED BY <2>1, <2>2, <2>3, SameList
<1>8. a \o b \in Seq(T) /\ Len(a \o b) = N - 1
  <2>1. a \in Seq(T) /\ b \in Seq(T) /\ Len(a) = p - 1 /\ Len(b) = N - p
    BY <1>3, <1>4
  <2>2. a \o b \in Seq(T) /\ Len(a \o b) = (p - 1) + (N - p)
    <3>1. a \in Seq(T) /\ b \in Seq(T)
      BY <2>1
    <3>2. a \o b \in Seq(T) /\ Len(a \o b) = Len(a) + Len(b)
      BY <3>1
    <3> QED BY <2>1, <3>2
  <2> QED BY <1>2, <2>2
<1>9. ASSUME x \notin A PROVE Among(a \o b, A) = Among(s, A)
  <2>1. Among(s, A) = Among(c, A) \o Among(b, A)
    BY <1>4, <1>6, <1>7, AmongBoth
  <2>2. Among(c, A) = Among(a, A)
    BY <1>2, <1>3, <1>5, <1>9, AmongMore
  <2>3. Among(a \o b, A) = Among(a, A) \o Among(b, A)
    BY <1>3, <1>4, AmongBoth
  <2> QED BY <2>1, <2>2, <2>3
<1>10. Without(s, p) = a \o b
  BY <1>1 DEF Without
<1> QED BY <1>1, <1>2, <1>8, <1>9, <1>10

\* What one message more does to those that are kept, and to those of them that matter.
LEMMA RetainedOne ==
  ASSUME NEW T, NEW messages \in Seq(T), NEW entry \in T
  PROVE  LET r == AppendConsoleEntryWithPriority(messages, entry)
             kept == Among(messages, High(T))
         IN  /\ r \in Seq(T)
             /\ Len(messages) <= ConsoleCap =>
                  /\ Len(r) <= ConsoleCap
                  /\ Among(r, High(T)) = IF entry \in High(T) /\ Len(kept) < ConsoleCap
                                         THEN Append(kept, entry) ELSE kept
<1>1. PICK r, kept, N, H, C : /\ r = AppendConsoleEntryWithPriority(messages, entry)
                              /\ H = High(T) /\ kept = Among(messages, H)
                              /\ N = Len(messages) /\ C = ConsoleCap
  OBVIOUS
<1>2. /\ C \in Nat /\ N \in Nat /\ kept \in Seq(T) /\ Len(kept) \in Nat /\ Len(kept) <= N
      /\ DOMAIN messages = 1 .. N /\ \A n \in 1 .. N : messages[n] \in T
  <2>1. kept \in Seq(T)
    BY <1>1, AmongType
  <2>2. Len(kept) \in Nat /\ Len(kept) <= N
    BY <1>1, AmongWhat
  <2> QED BY <1>1, <2>1, <2>2, TraceAssumption
<1>3. \A m \in T : m \in H <=> IsHighSignalConsoleEntry(m)
  BY <1>1 DEF High
<1>4. PICK low : low = {n \in 1 .. N : ~IsHighSignalConsoleEntry(messages[n])}
  OBVIOUS
<1>5. CASE N < C
  <2>1. r = Append(messages, entry)
    <3>1. ~(N >= C)
      BY <1>2, <1>5
    <3> QED BY <1>1, <1>5, <3>1 DEF AppendConsoleEntryWithPriority
  <2>2. r \in Seq(T) /\ Len(r) = N + 1
    BY <1>1, <2>1
  <2>3. Among(r, H) = IF entry \in H THEN Append(kept, entry) ELSE kept
    BY <1>1, <2>1, AmongMore
  <2>4. Len(kept) < C /\ Len(r) <= C
    BY <1>2, <1>5, <2>2
  <2> QED BY <1>1, <2>2, <2>3, <2>4
<1>6. CASE N >= C /\ (~IsHighSignalConsoleEntry(entry) \/ low = {})
  <2>1. r = messages
    <3>1. ~(N < C)
      BY <1>2, <1>6
    <3> QED BY <1>1, <1>2, <1>4, <1>6, <3>1 DEF AppendConsoleEntryWithPriority
  <2>2. CASE entry \notin H
    BY <1>1, <2>1, <2>2
  <2>3. CASE entry \in H
    <3>1. \A n \in 1 .. N : messages[n] \in H
      BY <1>2, <1>3, <1>4, <1>6, <2>3
    <3>2. ToSet(messages) \subseteq H
      BY <1>2, <3>1 DEF ToSet
    <3>3. kept = messages
      BY <1>1, <3>2, AmongAll
    <3>4. ~(Len(kept) < C)
      BY <1>1, <1>2, <1>6, <3>3
    <3> QED BY <1>1, <2>1, <3>3, <3>4
  <2> QED BY <2>2, <2>3
<1>7. CASE ~(N < C) /\ IsHighSignalConsoleEntry(entry) /\ low # {}
  <2>1. PICK p : p = CHOOSE n \in low : \A k \in low : n <= k
    OBVIOUS
  <2>2. p \in low
    <3>1. low \in SUBSET Nat
      BY <1>2, <1>4
    <3>2. \E n \in low : \A k \in low : n <= k
      BY <1>7, <3>1, LeastNumber
    <3> QED BY <2>1, <3>2
  <2>3. p \in 1 .. N /\ messages[p] \notin H
    <3>1. p \in 1 .. N /\ ~IsHighSignalConsoleEntry(messages[p])
      BY <1>4, <2>2
    <3> QED BY <1>2, <1>3, <3>1
  <2>4. PICK s : s = SubSeq(messages, 1, p - 1) \o SubSeq(messages, p + 1, N)
               /\ s = Without(messages, p)
    BY <1>1 DEF Without
  <2>5. r = Append(s, entry)
    <3>1. ~(N >= C /\ (~IsHighSignalConsoleEntry(entry) \/ low = {}))
      BY <1>7
    <3> QED BY <1>1, <1>2, <1>4, <1>7, <2>1, <2>4, <3>1 DEF AppendConsoleEntryWithPriority
  <2>6. s \in Seq(T) /\ Len(s) = N - 1 /\ Among(s, H) = kept
    <3>1. p \in 1 .. Len(messages) /\ messages[p] \notin H /\ s = Without(messages, p)
      BY <1>1, <2>3, <2>4
    <3>2. /\ Without(messages, p) \in Seq(T)
          /\ Len(Without(messages, p)) = Len(messages) - 1
      BY <3>1, LeftOutOne
    <3>3. Among(Without(messages, p), H) = Among(messages, H)
      BY <3>1, LeftOutOne
    <3> QED BY <1>1, <3>1, <3>2, <3>3
  <2>7. r \in Seq(T) /\ Len(r) = N
    BY <1>2, <2>5, <2>6
  <2>8. entry \in H
    BY <1>3, <1>7
  <2>9. Among(r, H) = Append(kept, entry)
    BY <2>5, <2>6, <2>8, AmongMore
  <2>10. Len(kept) < N
    <3>1. messages[p] \in ToSet(messages)
      BY <1>2, <2>3 DEF ToSet
    <3> QED BY <1>1, <2>3, <3>1, AmongWhat
  <2>11. N <= C => Len(kept) < C /\ Len(r) <= C
    BY <1>2, <2>7, <2>10
  <2> QED BY <1>1, <2>7, <2>8, <2>9, <2>11
<1>8. N < C \/ (~(N < C) /\ N >= C)
  BY <1>2
<1> QED BY <1>5, <1>6, <1>7, <1>8

\* That one message more is put among messages.
LEMMA RetainedType ==
  ASSUME NEW T, NEW messages \in Seq(T), NEW entry \in T
  PROVE  AppendConsoleEntryWithPriority(messages, entry) \in Seq(T)
BY RetainedOne

\* The loop that offers messages one after the other.
Retains(f, messages, list) ==
  /\ f[0] = messages
  /\ \A n \in 1 .. Len(list) : f[n] = AppendConsoleEntryWithPriority(f[n - 1], list[n])
  /\ AppendConsoleEntries(messages, list) = f[Len(list)]

\* It is there, and goes through lists of messages.
LEMMA RetainsExist ==
  ASSUME NEW T, NEW messages \in Seq(T), NEW list \in Seq(T)
  PROVE  \E f \in [0 .. Len(list) -> Seq(T)] : Retains(f, messages, list)
<1>1. PICK N, S : N = Len(list) /\ S = Seq(T)
  OBVIOUS
<1>2. N \in Nat /\ messages \in S /\ \A n \in 1 .. N : list[n] \in T
  BY <1>1
<1>3. \A n \in 1 .. N : \A v \in S : AppendConsoleEntryWithPriority(v, list[n]) \in S
  BY <1>1, <1>2, RetainedType
<1>4. PICK step : step = [n \in 1 .. N |-> [v \in S |-> AppendConsoleEntryWithPriority(v, list[n])]]
  OBVIOUS
<1>5. /\ step \in [1 .. N -> [S -> S]]
      /\ \A n \in 1 .. N : \A v \in S : step[n][v] = AppendConsoleEntryWithPriority(v, list[n])
  BY <1>3, <1>4
<1> DEFINE Turns(f) ==
             f = [n \in 0 .. N |-> IF n = 0 THEN messages ELSE AppendConsoleEntryWithPriority(f[n - 1], list[n])]
<1>6. \A n \in 0 .. N : n # 0 => n \in 1 .. N /\ n - 1 \in 0 .. N
  BY <1>2
<1>7. \E f : Turns(f)
  <2>1. PICK f \in [0 .. N -> S] : Loops(f, N, messages, step)
    BY <1>2, <1>5, LoopExists
  <2>2. f[0] = messages /\ f = [n \in 0 .. N |-> f[n]]
    BY <2>1 DEF Loops
  <2>3. \A n \in 1 .. N : f[n] = AppendConsoleEntryWithPriority(f[n - 1], list[n])
    <3> TAKE n \in 1 .. N
    <3>1. n - 1 \in 0 .. N
      BY <1>2
    <3>2. f[n - 1] \in S /\ f[n] = step[n][f[n - 1]]
      BY <2>1, <3>1 DEF Loops
    <3> QED BY <1>5, <3>2
  <2>4. \A n \in 0 .. N : f[n] = IF n = 0 THEN messages ELSE AppendConsoleEntryWithPriority(f[n - 1], list[n])
    BY <1>6, <2>2, <2>3
  <2>5. f = [n \in 0 .. N |-> IF n = 0 THEN messages ELSE AppendConsoleEntryWithPriority(f[n - 1], list[n])]
    BY <2>2, <2>4, Zenon
  <2> QED BY <2>5
<1>8. PICK f : f = (CHOOSE g : Turns(g)) /\ Turns(f)
  <2> HIDE DEF Turns
  <2> QED BY <1>7
<1>9. AppendConsoleEntries(messages, list) = f[N]
  BY <1>1, <1>8 DEF AppendConsoleEntries
<1>10. /\ f = [n \in 0 .. N |-> f[n]]
       /\ \A n \in 0 .. N : f[n] = IF n = 0 THEN messages ELSE AppendConsoleEntryWithPriority(f[n - 1], list[n])
  BY <1>8
<1> HIDE DEF Turns
<1>11. f[0] = messages
  <2>1. 0 \in 0 .. N
    BY <1>2
  <2> QED BY <1>10, <2>1
<1>12. \A n \in 1 .. N : f[n] = AppendConsoleEntryWithPriority(f[n - 1], list[n])
  <2> TAKE n \in 1 .. N
  <2>1. n \in 0 .. N /\ n # 0
    BY <1>2
  <2> QED BY <1>10, <2>1
<1>13. LoopsIn(f, N, S, messages, step)
  BY <1>5, <1>11, <1>12 DEF LoopsIn
<1>14. \A n \in 0 .. N : f[n] \in S
  BY <1>2, <1>5, <1>13, LoopStays
<1>15. f \in [0 .. N -> S]
  BY <1>10, <1>14
<1> QED BY <1>1, <1>9, <1>11, <1>12, <1>15 DEF Retains

\* One more is offered behind the others.
LEMMA RetainsMore ==
  ASSUME NEW T, NEW messages \in Seq(T), NEW list \in Seq(T), NEW x \in T
  PROVE  /\ AppendConsoleEntries(messages, list) \in Seq(T)
         /\ AppendConsoleEntries(messages, <<>>) = messages
         /\ AppendConsoleEntries(messages, Append(list, x)) = AppendConsoleEntryWithPriority(AppendConsoleEntries(messages, list), x)
<1>1. PICK more, none, N, S : more = Append(list, x) /\ none = <<>> /\ N = Len(list) /\ S = Seq(T)
  OBVIOUS
<1>2. /\ more \in Seq(T) /\ none \in Seq(T) /\ Len(none) = 0
      /\ Len(more) = N + 1 /\ N \in Nat
      /\ more[N + 1] = x /\ \A n \in 1 .. N : more[n] = list[n]
  BY <1>1, OneMore
<1>3. PICK f \in [0 .. Len(list) -> Seq(T)] : Retains(f, messages, list)
  BY RetainsExist
<1>4. PICK g \in [0 .. Len(more) -> Seq(T)] : Retains(g, messages, more)
  BY <1>2, RetainsExist
<1>5. PICK h \in [0 .. Len(none) -> Seq(T)] : Retains(h, messages, none)
  BY <1>2, RetainsExist
<1>6. PICK P : P = {n \in 0 .. N : f[n] = g[n]}
  OBVIOUS
<1>7. 0 \in P
  BY <1>2, <1>3, <1>4, <1>6 DEF Retains
<1>8. ASSUME NEW n \in 1 .. N, n - 1 \in P
      PROVE  n \in P
  <2>1. f[n - 1] = g[n - 1] /\ n \in 0 .. N /\ n \in 1 .. N + 1
    BY <1>2, <1>6, <1>8
  <2>2. f[n] = AppendConsoleEntryWithPriority(f[n - 1], list[n])
    BY <1>1, <1>3 DEF Retains
  <2>3. g[n] = AppendConsoleEntryWithPriority(g[n - 1], more[n])
    BY <1>2, <1>4, <2>1 DEF Retains
  <2> QED BY <1>2, <1>6, <2>1, <2>2, <2>3
<1>9. N \in P
  <2>1. \A n \in 0 .. N : n \in P
    BY <1>2, <1>7, <1>8, UpTo
  <2> QED BY <1>2, <2>1
<1>10. AppendConsoleEntries(messages, list) = g[N] /\ AppendConsoleEntries(messages, list) \in S
  <2>1. N \in 0 .. N
    BY <1>2
  <2> QED BY <1>1, <1>3, <1>6, <1>9, <2>1 DEF Retains
<1>11. AppendConsoleEntries(messages, more) = g[N + 1]
  BY <1>2, <1>4 DEF Retains
<1>12. g[N + 1] = AppendConsoleEntryWithPriority(g[N], more[N + 1])
  <2>1. N + 1 \in 1 .. Len(more) /\ (N + 1) - 1 = N
    BY <1>2
  <2> QED BY <1>4, <2>1 DEF Retains
<1>13. AppendConsoleEntries(messages, none) = messages
  BY <1>2, <1>5 DEF Retains
<1> QED BY <1>1, <1>2, <1>10, <1>11, <1>12, <1>13

\* What comes of it when none are offered.
LEMMA RetainsNone ==
  ASSUME NEW T, NEW messages \in Seq(T), NEW list \in Seq(T)
  PROVE  AppendConsoleEntries(messages, list) \in Seq(T) /\ AppendConsoleEntries(messages, <<>>) = messages
<1>1. PICK none : none = <<>>
  OBVIOUS
<1>2. none \in Seq(T) /\ Len(none) = 0
  BY <1>1
<1>3. PICK f \in [0 .. Len(list) -> Seq(T)] : Retains(f, messages, list)
  BY RetainsExist
<1>4. PICK h \in [0 .. Len(none) -> Seq(T)] : Retains(h, messages, none)
  BY <1>2, RetainsExist
<1>5. AppendConsoleEntries(messages, list) = f[Len(list)] /\ Len(list) \in 0 .. Len(list)
  BY <1>3 DEF Retains
<1>6. AppendConsoleEntries(messages, none) = messages
  BY <1>2, <1>4 DEF Retains
<1> QED BY <1>1, <1>3, <1>5, <1>6

\* The first of the messages that matter are kept, in their order, as far as there is room.
KeepsFirst(T, messages, could) ==
  /\ messages \in Seq(T) /\ Len(messages) <= ConsoleCap
  /\ Len(Among(messages, High(T))) = IF Len(could) < ConsoleCap THEN Len(could) ELSE ConsoleCap
  /\ \A n \in 1 .. Len(Among(messages, High(T))) :
       Among(messages, High(T))[n].type = could[n].text

\* They still are after one more.
LEMMA KeptOne ==
  ASSUME NEW T, NEW U, NEW messages, NEW could \in Seq(U), KeepsFirst(T, messages, could),
         NEW entry \in T, NEW e \in U, entry.type = e.text
  PROVE  LET r == AppendConsoleEntryWithPriority(messages, entry)
         IN  /\ entry \in High(T) => KeepsFirst(T, r, Append(could, e))
             /\ entry \notin High(T) => KeepsFirst(T, r, could)
<1>1. PICK r, kept, M, C, H, more :
        /\ r = AppendConsoleEntryWithPriority(messages, entry) /\ kept = Among(messages, H)
        /\ M = Len(could) /\ C = ConsoleCap /\ H = High(T) /\ more = Append(could, e)
  OBVIOUS
<1>2. /\ messages \in Seq(T) /\ Len(messages) <= C /\ C \in Nat /\ M \in Nat
      /\ Len(kept) = (IF M < C THEN M ELSE C)
      /\ \A n \in 1 .. Len(kept) : kept[n].type = could[n].text
  BY <1>1, TraceAssumption DEF KeepsFirst
<1>3. /\ r \in Seq(T) /\ Len(r) <= C
      /\ Among(r, H) = IF entry \in H /\ Len(kept) < C THEN Append(kept, entry) ELSE kept
  BY <1>1, <1>2, RetainedOne
<1>4. kept \in Seq(T)
  BY <1>1, <1>2, AmongType
<1>5. Len(more) = M + 1 /\ more[M + 1] = e /\ \A n \in 1 .. M : more[n] = could[n]
  BY <1>1, <1>2
<1>6. CASE entry \notin H
  BY <1>1, <1>2, <1>3, <1>6 DEF KeepsFirst
<1>7. CASE entry \in H /\ M < C
  <2>1. PICK now : now = Append(kept, entry)
    OBVIOUS
  <2>2. Len(kept) = M /\ Among(r, H) = now
    BY <1>2, <1>3, <1>7, <2>1
  <2>3. Len(now) = M + 1 /\ now[M + 1] = entry /\ \A n \in 1 .. M : now[n] = kept[n]
    BY <1>4, <2>1, <2>2
  <2>4. \A n \in 1 .. M + 1 : now[n].type = more[n].text
    <3> TAKE n \in 1 .. M + 1
    <3>1. n = M + 1 \/ n \in 1 .. M
      BY <1>2
    <3> QED BY <1>2, <1>5, <2>2, <2>3, <3>1
  <2>5. M + 1 = IF Len(more) < C THEN Len(more) ELSE C
    <3>1. M \in Nat /\ C \in Nat /\ M < C /\ Len(more) = M + 1
      BY <1>2, <1>5, <1>7
    <3> QED BY <3>1
  <2>6. KeepsFirst(T, r, more)
    BY <1>1, <1>3, <2>2, <2>3, <2>4, <2>5 DEF KeepsFirst
  <2> QED BY <1>1, <1>7, <2>6
<1>8. CASE entry \in H /\ ~(M < C)
  <2>1. Len(kept) = C /\ Among(r, H) = kept
    BY <1>2, <1>3, <1>8
  <2>2. ~(Len(more) < C)
    BY <1>2, <1>5, <1>8
  <2>3. \A n \in 1 .. C : kept[n].type = more[n].text
    <3> TAKE n \in 1 .. C
    <3>1. n \in 1 .. M
      BY <1>2, <1>8
    <3> QED BY <1>2, <1>5, <2>1, <3>1
  <2>4. KeepsFirst(T, r, more)
    BY <1>1, <1>3, <2>1, <2>2, <2>3 DEF KeepsFirst
  <2> QED BY <1>1, <1>8, <2>4
<1> QED BY <1>6, <1>7, <1>8

ConsoleEvents == {e \in OfferedEvents : IsConsoleEvent(e)}

SignalEvents ==
  {e \in OfferedEvents : e.kind = "console" /\ e.text \in {"warning", "error", "pageerror"}}

Clocks == Nat \cup {NoAnchor}

Messages == {ConsoleEntry(e, clock) : e \in OfferedEvents, clock \in Clocks}

\* No events, no messages.
LEMMA EntriesNone ==
  ASSUME NEW clock
  PROVE  ConsoleEntries(<<>>, clock) = <<>>
<1>1. PICK none, A : none = <<>> /\ A = {d \in ToSet(none) : IsConsoleEvent(d)}
  OBVIOUS
<1>2. DOMAIN none = {} /\ ToSet(none) = {} /\ none \in Seq({})
  BY <1>1 DEF ToSet
<1>3. Among(none, A) = none
  <2>1. ToSet(none) \subseteq A
    BY <1>2
  <2> QED BY <1>2, <2>1, AmongAll
<1>4. none = [n \in {} |-> ConsoleEntry(none[n], clock)]
  BY <1>1
<1> QED BY <1>1, <1>2, <1>3, <1>4 DEF ConsoleEntries

\* The messages of events, and of one more.
LEMMA EntriesMore ==
  ASSUME NEW list \in Seq(OfferedEvents), NEW e \in OfferedEvents, NEW clock \in Clocks
  PROVE  /\ ConsoleEntries(list, clock) \in Seq(Messages)
         /\ ConsoleEntries(Append(list, e), clock) =
              IF IsConsoleEvent(e)
              THEN Append(ConsoleEntries(list, clock), ConsoleEntry(e, clock))
              ELSE ConsoleEntries(list, clock)
<1>1. PICK U, V, g : /\ U = OfferedEvents /\ V = Messages
                     /\ g = [d \in U |-> ConsoleEntry(d, clock)]
  OBVIOUS
<1>2. \A d \in U : g[d] = ConsoleEntry(d, clock) /\ g[d] \in V
  BY <1>1 DEF Messages
<1>3. \A l \in Seq(U) : ConsoleEntries(l, clock) = Each(g, Among(l, ConsoleEvents))
  <2> TAKE l \in Seq(U)
  <2>1. PICK k : k = Among(l, ConsoleEvents)
    OBVIOUS
  <2>2. k \in Seq(U)
    BY <2>1, AmongType
  <2>3. Among(l, {d \in ToSet(l) : IsConsoleEvent(d)}) = k
    <3>1. ToSet(l) \subseteq U
      BY ListOfItsOwn
    <3>2. \A r \in ToSet(l) : r \in {d \in ToSet(l) : IsConsoleEvent(d)} <=> r \in ConsoleEvents
      BY <1>1, <3>1 DEF ConsoleEvents
    <3> QED BY <2>1, <3>2, AmongSame
  <2>4. \A n \in DOMAIN k : g[k[n]] = ConsoleEntry(k[n], clock)
    <3>1. \A n \in DOMAIN k : k[n] \in U
      BY <2>2
    <3> QED BY <1>2, <3>1
  <2> QED BY <2>1, <2>3, <2>4 DEF ConsoleEntries, Each
<1>4. PICK k, more : k = Among(list, ConsoleEvents) /\ more = Append(list, e)
  OBVIOUS
<1>5. k \in Seq(U) /\ more \in Seq(U) /\ e \in U /\ list \in Seq(U)
  BY <1>1, <1>4, AmongType
<1>6. ConsoleEntries(list, clock) = Each(g, k) /\ Each(g, k) \in Seq(V)
  BY <1>2, <1>3, <1>4, <1>5, EachType
<1>7. Among(more, ConsoleEvents) = IF e \in ConsoleEvents THEN Append(k, e) ELSE k
  BY <1>4, <1>5, AmongMore
<1>8. e \in ConsoleEvents <=> IsConsoleEvent(e)
  BY DEF ConsoleEvents
<1>9. Each(g, Append(k, e)) = Append(Each(g, k), g[e])
  BY <1>5, EachMore
<1>10. ConsoleEntries(more, clock) = Each(g, Among(more, ConsoleEvents))
  BY <1>3, <1>5
<1> QED BY <1>1, <1>2, <1>4, <1>5, <1>6, <1>7, <1>8, <1>9, <1>10

\* A trace keeps the first of its messages that matter behind those of the traces before.
LEMMA TraceKeepsFirst ==
  ASSUME NEW messages, NEW could \in Seq(OfferedEvents), KeepsFirst(Messages, messages, could),
         NEW list \in Seq(OfferedEvents), NEW clock \in Clocks
  PROVE  KeepsFirst(Messages, AppendConsoleEntries(messages, ConsoleEntries(list, clock)),
                    could \o Among(list, SignalEvents))
<1>1. PICK U, V, R : /\ U = OfferedEvents /\ V = Messages
                     /\ R = [l \in Seq(U) |->
                               AppendConsoleEntries(messages, ConsoleEntries(l, clock))]
  OBVIOUS
<1>2. PICK B : B = [l \in Seq(U) |-> could \o Among(l, SignalEvents)]
  OBVIOUS
<1>3. PICK P : P = {l \in Seq(U) : KeepsFirst(V, R[l], B[l])}
  OBVIOUS
<1>4. messages \in Seq(V) /\ could \in Seq(U) /\ list \in Seq(U)
  BY <1>1 DEF KeepsFirst
<1>5. <<>> \in P
  <2>1. PICK none : none = <<>>
    OBVIOUS
  <2>2. none \in Seq(U) /\ none \in Seq(V) /\ ToSet(none) \subseteq SignalEvents
    BY <2>1 DEF ToSet
  <2>3. Among(none, SignalEvents) = none
    BY <2>2, AmongAll
  <2>4. R[none] = messages
    <3>1. R[none] = AppendConsoleEntries(messages, <<>>)
      BY <1>1, <2>1, <2>2, EntriesNone
    <3> QED BY <1>4, <2>2, <3>1, RetainsNone
  <2>5. B[none] = could
    BY <1>2, <1>4, <2>1, <2>2, <2>3
  <2> QED BY <1>1, <1>3, <2>1, <2>2, <2>4, <2>5
<1>6. ASSUME NEW l \in Seq(U), l \in P, NEW e \in U
      PROVE  Append(l, e) \in P
  <2>1. PICK k, r, b, x, m : /\ k = ConsoleEntries(l, clock) /\ r = R[l] /\ b = B[l]
                             /\ x = ConsoleEntry(e, clock) /\ m = Append(l, e)
    OBVIOUS
  <2>2. k \in Seq(V) /\ x \in V /\ m \in Seq(U)
    <3>1. k \in Seq(V)
      BY <1>1, <2>1, EntriesMore
    <3>2. x \in V
      BY <1>1, <2>1 DEF Messages
    <3> QED BY <2>1, <3>1, <3>2
  <2>3. r = AppendConsoleEntries(messages, k) /\ b = could \o Among(l, SignalEvents)
    BY <1>1, <1>2, <2>1
  <2>4. b \in Seq(U) /\ KeepsFirst(V, r, b)
    <3>1. Among(l, SignalEvents) \in Seq(U)
      BY AmongType
    <3>2. b \in Seq(U)
      BY <1>4, <2>3, <3>1
    <3>3. KeepsFirst(V, r, b)
      BY <1>3, <1>6, <2>1
    <3> QED BY <3>2, <3>3
  <2>5. R[m] = AppendConsoleEntries(messages, ConsoleEntries(m, clock))
        /\ B[m] = could \o Among(m, SignalEvents)
    BY <1>1, <1>2, <2>2
  <2>6. ConsoleEntries(m, clock) = IF IsConsoleEvent(e) THEN Append(k, x) ELSE k
    BY <1>1, <2>1, EntriesMore
  <2>7. B[m] = IF e \in SignalEvents THEN Append(b, e) ELSE b
    <3>1. PICK s : s = Among(l, SignalEvents)
      OBVIOUS
    <3>2. s \in Seq(U)
      BY <3>1, AmongType
    <3>3. Among(m, SignalEvents) = IF e \in SignalEvents THEN Append(s, e) ELSE s
      BY <2>1, <3>1, AmongMore
    <3>4. could \o Append(s, e) = Append(could \o s, e)
      BY <1>4, <3>2, JoinedMore
    <3> QED BY <2>3, <2>5, <3>1, <3>3, <3>4
  <2>8. e \in SignalEvents <=> IsConsoleEvent(e) /\ x \in High(V)
    <3>1. x.type = e.text
      BY <2>1 DEF ConsoleEntry
    <3>2. x \in High(V) <=> e.text \in {"warning", "error", "pageerror"}
      BY <2>2, <3>1 DEF High, IsHighSignalConsoleEntry
    <3>3. e \in OfferedEvents
      BY <1>1
    <3> QED BY <3>2, <3>3 DEF SignalEvents, IsConsoleEvent, ConsoleTypes
  <2>9. KeepsFirst(V, R[m], B[m])
    <3>1. CASE ~IsConsoleEvent(e)
      BY <2>3, <2>4, <2>5, <2>6, <2>7, <2>8, <3>1
    <3>2. CASE IsConsoleEvent(e)
      <4>1. AppendConsoleEntries(messages, Append(k, x)) = AppendConsoleEntryWithPriority(r, x)
        BY <1>4, <2>2, <2>3, RetainsMore
      <4>2. R[m] = AppendConsoleEntryWithPriority(r, x)
        BY <2>5, <2>6, <3>2, <4>1
      <4>3. x.type = e.text
        BY <2>1 DEF ConsoleEntry
      <4>4. /\ x \in High(V) => KeepsFirst(V, R[m], Append(b, e))
            /\ x \notin High(V) => KeepsFirst(V, R[m], b)
        BY <2>2, <2>4, <4>2, <4>3, KeptOne
      <4> QED BY <2>7, <2>8, <3>2, <4>4
    <3> QED BY <3>1, <3>2
  <2> QED BY <1>3, <2>1, <2>2, <2>9
<1>7. list \in P
  BY <1>4, <1>5, <1>6, ListInduction
<1> QED BY <1>1, <1>2, <1>3, <1>4, <1>7

-----------------------------------------------------------------------------
(* The records of actions. *)

Texts == {e.text : e \in OfferedEvents}

ActionRecords ==
  [call : {e.call : e \in OfferedEvents} \cup {"none"}, error : Texts \cup {"none"},
   ended : BOOLEAN, log : Seq(Texts)]

Admitted == {e \in OfferedEvents : e.kind \in {"before", "log", "after"}}

FailureEvents == {e \in OfferedEvents : e.kind = "after" /\ e.text # "none"}

HasFailed(records) == \E n \in 1 .. Len(records) : records[n].error # "none"

\* There is a record for the call afterwards, and none less that failed.
LEMMA RecordThere ==
  ASSUME NEW records \in Seq(ActionRecords), NEW e \in OfferedEvents
  PROVE  /\ WithRecord(records, e.call) \in Seq(ActionRecords)
         /\ HasFailed(records) => HasFailed(WithRecord(records, e.call))
         /\ \E n \in 1 .. Len(WithRecord(records, e.call)) :
              WithRecord(records, e.call)[n].call = e.call
<1>1. PICK N, all : N = Len(records) /\ all = WithRecord(records, e.call)
  OBVIOUS
<1>2. N \in Nat /\ DOMAIN records = 1 .. N /\ \A n \in 1 .. N : records[n] \in ActionRecords
  BY <1>1
<1>3. CASE \E n \in 1 .. N : records[n].call = e.call
  <2>1. all = records
    BY <1>1, <1>2, <1>3 DEF WithRecord
  <2> QED BY <1>1, <1>3, <2>1
<1>4. CASE ~\E n \in 1 .. N : records[n].call = e.call
  <2>1. PICK r : r = [call |-> e.call, error |-> "none", ended |-> FALSE, log |-> <<>>]
    OBVIOUS
  <2>2. all = Append(records, r)
    BY <1>1, <1>2, <1>4, <2>1 DEF WithRecord
  <2>3. r \in ActionRecords /\ r.call = e.call
    <3>1. <<>> \in Seq(Texts)
      OBVIOUS
    <3> QED BY <2>1, <3>1 DEF ActionRecords
  <2>4. /\ all \in Seq(ActionRecords) /\ Len(all) = N + 1
        /\ all[N + 1] = r /\ \A n \in 1 .. N : all[n] = records[n]
    BY <1>1, <2>2, <2>3
  <2>5. HasFailed(records) => HasFailed(all)
    <3>1. \A n \in 1 .. N : n \in 1 .. N + 1
      BY <1>2
    <3> QED BY <1>1, <2>4, <3>1 DEF HasFailed
  <2>6. \E n \in 1 .. Len(all) : all[n].call = e.call
    <3>1. N + 1 \in 1 .. Len(all)
      BY <1>2, <2>4
    <3> QED BY <2>3, <2>4, <3>1
  <2> QED BY <1>1, <2>4, <2>5, <2>6
<1> QED BY <1>3, <1>4

\* The n-th of some records, once an event ended its call.
WithEnd(records, n, e) ==
  [records EXCEPT ![n].error = IF e.text # "none" THEN e.text ELSE @,
                  ![n].ended = @ \/ e.time # NoOffset]

\* An event leaves records that say of a failure if they did, or if it is one.
LEMMA AdmittedOne ==
  ASSUME NEW records \in Seq(ActionRecords), NEW e \in Admitted
  PROVE  /\ AdmitAction(records, e) \in Seq(ActionRecords)
         /\ HasFailed(records) \/ e \in FailureEvents => HasFailed(AdmitAction(records, e))
<1>1. PICK all, N, n : /\ all = WithRecord(records, e.call) /\ N = Len(all)
                       /\ n = CHOOSE k \in DOMAIN all : all[k].call = e.call
  OBVIOUS
<1>2. PICK after : after = AdmitAction(records, e)
  OBVIOUS
<1>3. e \in OfferedEvents /\ e.text \in Texts /\ e.kind \in {"before", "log", "after"}
  BY DEF Admitted, Texts
<1>4. /\ all \in Seq(ActionRecords)
      /\ HasFailed(records) => HasFailed(all)
      /\ \E k \in 1 .. N : all[k].call = e.call
  BY <1>1, <1>3, RecordThere
<1>5. /\ N \in Nat /\ DOMAIN all = 1 .. N /\ all \in [1 .. N -> ActionRecords]
  BY <1>1, <1>4
<1>6. n \in 1 .. N
  BY <1>1, <1>4, <1>5
<1>7. PICK r : r = all[n]
  OBVIOUS
<1>8. /\ r \in ActionRecords /\ r.log \in Seq(Texts) /\ Append(r.log, e.text) \in Seq(Texts)
      /\ r.error \in Texts \cup {"none"} /\ r.ended \in BOOLEAN
  <2>1. r \in ActionRecords
    BY <1>5, <1>6, <1>7
  <2>2. /\ r.log \in Seq(Texts) /\ r.error \in Texts \cup {"none"} /\ r.ended \in BOOLEAN
    BY <2>1 DEF ActionRecords
  <2> QED BY <1>3, <2>1, <2>2
<1>9. PICK p : p = after[n]
  OBVIOUS
<1>10. /\ after = [all EXCEPT ![n] = p] /\ p \in ActionRecords
       /\ r.error # "none" \/ e \in FailureEvents => p.error # "none"
  <2>1. CASE e.kind = "before" /\ e.text # "none"
    <3>1. after = [all EXCEPT ![n].log = Append(@, e.text)]
      BY <1>1, <1>2, <2>1 DEF AdmitAction
    <3>2. p = [r EXCEPT !.log = Append(@, e.text)]
      BY <1>5, <1>6, <1>7, <1>9, <3>1
    <3>3. p \in ActionRecords /\ p.error = r.error
      BY <1>8, <3>2 DEF ActionRecords
    <3>4. e \notin FailureEvents
      BY <2>1 DEF FailureEvents
    <3> QED BY <1>5, <1>6, <1>7, <3>1, <3>2, <3>3, <3>4
  <2>2. CASE e.kind = "before" /\ e.text = "none"
    <3>1. after = [all EXCEPT ![n].log = @]
      BY <1>1, <1>2, <2>2 DEF AdmitAction
    <3>2. p = [r EXCEPT !.log = @]
      BY <1>5, <1>6, <1>7, <1>9, <3>1
    <3>3. p \in ActionRecords /\ p.error = r.error
      BY <1>8, <3>2 DEF ActionRecords
    <3>4. e \notin FailureEvents
      BY <2>2 DEF FailureEvents
    <3> QED BY <1>5, <1>6, <1>7, <3>1, <3>2, <3>3, <3>4
  <2>3. CASE e.kind = "log"
    <3>1. after = [all EXCEPT ![n].log = Append(@, e.text)]
      BY <1>1, <1>2, <2>3 DEF AdmitAction
    <3>2. p = [r EXCEPT !.log = Append(@, e.text)]
      BY <1>5, <1>6, <1>7, <1>9, <3>1
    <3>3. p \in ActionRecords /\ p.error = r.error
      BY <1>8, <3>2 DEF ActionRecords
    <3>4. e \notin FailureEvents
      BY <2>3 DEF FailureEvents
    <3> QED BY <1>5, <1>6, <1>7, <3>1, <3>2, <3>3, <3>4
  <2>4. CASE e.kind = "after"
    <3>1. after = [all EXCEPT ![n].error = IF e.text # "none" THEN e.text ELSE @,
                              ![n].ended = @ \/ e.time # NoOffset]
      <4>1. after = WithEnd(WithRecord(records, e.call),
                            CHOOSE k \in DOMAIN WithRecord(records, e.call) :
                              WithRecord(records, e.call)[k].call = e.call, e)
        BY <1>2, <2>4 DEF AdmitAction, WithEnd
      <4>2. after = WithEnd(all, n, e)
        BY <1>1, <4>1
      <4> QED BY <4>2 DEF WithEnd
    <3>2. p = [r EXCEPT !.error = IF e.text # "none" THEN e.text ELSE @,
                        !.ended = @ \/ e.time # NoOffset]
      BY <1>5, <1>6, <1>7, <1>9, <3>1
    <3>3. p \in ActionRecords /\ p.error = IF e.text # "none" THEN e.text ELSE r.error
      BY <1>3, <1>8, <3>2 DEF ActionRecords
    <3>4. e \in FailureEvents <=> e.text # "none"
      BY <1>3, <2>4 DEF FailureEvents
    <3>5. after = [all EXCEPT ![n] = p]
      BY <1>5, <1>6, <1>7, <3>1, <3>2
    <3> QED BY <3>3, <3>4, <3>5
  <2> QED BY <1>3, <2>1, <2>2, <2>3, <2>4
<1>11. after \in [1 .. N -> ActionRecords]
  BY <1>5, <1>10
<1>12. after \in Seq(ActionRecords) /\ Len(after) = N
  BY <1>5, <1>11
<1>13. ASSUME HasFailed(records) \/ e \in FailureEvents
       PROVE  HasFailed(after)
  <2>1. CASE e \in FailureEvents
    <3>1. after[n].error # "none"
      BY <1>9, <1>10, <2>1
    <3> QED BY <1>6, <1>12, <3>1 DEF HasFailed
  <2>2. CASE HasFailed(records)
    <3>1. PICK k \in 1 .. N : all[k].error # "none"
      BY <1>1, <1>4, <2>2 DEF HasFailed
    <3>2. CASE k = n
      <4>1. after[n].error # "none"
        BY <1>7, <1>9, <1>10, <3>1, <3>2
      <4> QED BY <1>6, <1>12, <4>1 DEF HasFailed
    <3>3. CASE k # n
      <4>1. after[k] = all[k]
        BY <1>5, <1>10, <3>3
      <4> QED BY <1>12, <3>1, <4>1 DEF HasFailed
    <3> QED BY <3>2, <3>3
  <2> QED BY <1>13, <2>1, <2>2
<1> QED BY <1>2, <1>12, <1>13

\* The loop that admits events one after the other.
Admits(f, records, list) ==
  /\ f[0] = records
  /\ \A n \in 1 .. Len(list) : f[n] = AdmitAction(f[n - 1], list[n])
  /\ AdmitActions(records, list) = f[Len(list)]

\* It is there, and goes through lists of records.
LEMMA AdmitsExist ==
  ASSUME NEW records \in Seq(ActionRecords), NEW list \in Seq(Admitted)
  PROVE  \E f \in [0 .. Len(list) -> Seq(ActionRecords)] : Admits(f, records, list)
<1>1. PICK N, S : N = Len(list) /\ S = Seq(ActionRecords)
  OBVIOUS
<1>2. N \in Nat /\ records \in S /\ \A n \in 1 .. N : list[n] \in Admitted
  BY <1>1
<1>3. \A n \in 1 .. N : \A v \in S : AdmitAction(v, list[n]) \in S
  BY <1>1, <1>2, AdmittedOne
<1>4. PICK step : step = [n \in 1 .. N |-> [v \in S |-> AdmitAction(v, list[n])]]
  OBVIOUS
<1>5. /\ step \in [1 .. N -> [S -> S]]
      /\ \A n \in 1 .. N : \A v \in S : step[n][v] = AdmitAction(v, list[n])
  BY <1>3, <1>4
<1> DEFINE Turns(f) ==
             f = [n \in 0 .. N |-> IF n = 0 THEN records ELSE AdmitAction(f[n - 1], list[n])]
<1>6. \A n \in 0 .. N : n # 0 => n \in 1 .. N /\ n - 1 \in 0 .. N
  BY <1>2
<1>7. \E f : Turns(f)
  <2>1. PICK f \in [0 .. N -> S] : Loops(f, N, records, step)
    BY <1>2, <1>5, LoopExists
  <2>2. f[0] = records /\ f = [n \in 0 .. N |-> f[n]]
    BY <2>1 DEF Loops
  <2>3. \A n \in 1 .. N : f[n] = AdmitAction(f[n - 1], list[n])
    <3> TAKE n \in 1 .. N
    <3>1. n - 1 \in 0 .. N
      BY <1>2
    <3>2. f[n - 1] \in S /\ f[n] = step[n][f[n - 1]]
      BY <2>1, <3>1 DEF Loops
    <3> QED BY <1>5, <3>2
  <2>4. \A n \in 0 .. N : f[n] = IF n = 0 THEN records ELSE AdmitAction(f[n - 1], list[n])
    BY <1>6, <2>2, <2>3
  <2>5. f = [n \in 0 .. N |-> IF n = 0 THEN records ELSE AdmitAction(f[n - 1], list[n])]
    BY <2>2, <2>4, Zenon
  <2> QED BY <2>5
<1>8. PICK f : f = (CHOOSE g : Turns(g)) /\ Turns(f)
  <2> HIDE DEF Turns
  <2> QED BY <1>7
<1>9. AdmitActions(records, list) = f[N]
  BY <1>1, <1>8 DEF AdmitActions
<1>10. /\ f = [n \in 0 .. N |-> f[n]]
       /\ \A n \in 0 .. N : f[n] = IF n = 0 THEN records ELSE AdmitAction(f[n - 1], list[n])
  BY <1>8
<1> HIDE DEF Turns
<1>11. f[0] = records
  <2>1. 0 \in 0 .. N
    BY <1>2
  <2> QED BY <1>10, <2>1
<1>12. \A n \in 1 .. N : f[n] = AdmitAction(f[n - 1], list[n])
  <2> TAKE n \in 1 .. N
  <2>1. n \in 0 .. N /\ n # 0
    BY <1>2
  <2> QED BY <1>10, <2>1
<1>13. LoopsIn(f, N, S, records, step)
  BY <1>5, <1>11, <1>12 DEF LoopsIn
<1>14. \A n \in 0 .. N : f[n] \in S
  BY <1>2, <1>5, <1>13, LoopStays
<1>15. f \in [0 .. N -> S]
  BY <1>10, <1>14
<1> QED BY <1>1, <1>9, <1>11, <1>12, <1>15 DEF Admits

\* One more is admitted behind the others.
LEMMA AdmitsMore ==
  ASSUME NEW records \in Seq(ActionRecords), NEW list \in Seq(Admitted), NEW x \in Admitted
  PROVE  /\ AdmitActions(records, list) \in Seq(ActionRecords)
         /\ AdmitActions(records, <<>>) = records
         /\ AdmitActions(records, Append(list, x)) = AdmitAction(AdmitActions(records, list), x)
<1>1. PICK more, none, N, S : more = Append(list, x) /\ none = <<>> /\ N = Len(list) /\ S = Seq(ActionRecords)
  OBVIOUS
<1>2. /\ more \in Seq(Admitted) /\ none \in Seq(Admitted) /\ Len(none) = 0
      /\ Len(more) = N + 1 /\ N \in Nat
      /\ more[N + 1] = x /\ \A n \in 1 .. N : more[n] = list[n]
  BY <1>1, OneMore
<1>3. PICK f \in [0 .. Len(list) -> Seq(ActionRecords)] : Admits(f, records, list)
  BY AdmitsExist
<1>4. PICK g \in [0 .. Len(more) -> Seq(ActionRecords)] : Admits(g, records, more)
  BY <1>2, AdmitsExist
<1>5. PICK h \in [0 .. Len(none) -> Seq(ActionRecords)] : Admits(h, records, none)
  BY <1>2, AdmitsExist
<1>6. PICK P : P = {n \in 0 .. N : f[n] = g[n]}
  OBVIOUS
<1>7. 0 \in P
  BY <1>2, <1>3, <1>4, <1>6 DEF Admits
<1>8. ASSUME NEW n \in 1 .. N, n - 1 \in P
      PROVE  n \in P
  <2>1. f[n - 1] = g[n - 1] /\ n \in 0 .. N /\ n \in 1 .. N + 1
    BY <1>2, <1>6, <1>8
  <2>2. f[n] = AdmitAction(f[n - 1], list[n])
    BY <1>1, <1>3 DEF Admits
  <2>3. g[n] = AdmitAction(g[n - 1], more[n])
    BY <1>2, <1>4, <2>1 DEF Admits
  <2> QED BY <1>2, <1>6, <2>1, <2>2, <2>3
<1>9. N \in P
  <2>1. \A n \in 0 .. N : n \in P
    BY <1>2, <1>7, <1>8, UpTo
  <2> QED BY <1>2, <2>1
<1>10. AdmitActions(records, list) = g[N] /\ AdmitActions(records, list) \in S
  <2>1. N \in 0 .. N
    BY <1>2
  <2> QED BY <1>1, <1>3, <1>6, <1>9, <2>1 DEF Admits
<1>11. AdmitActions(records, more) = g[N + 1]
  BY <1>2, <1>4 DEF Admits
<1>12. g[N + 1] = AdmitAction(g[N], more[N + 1])
  <2>1. N + 1 \in 1 .. Len(more) /\ (N + 1) - 1 = N
    BY <1>2
  <2> QED BY <1>4, <2>1 DEF Admits
<1>13. AdmitActions(records, none) = records
  BY <1>2, <1>5 DEF Admits
<1> QED BY <1>1, <1>2, <1>10, <1>11, <1>12, <1>13

\* What comes of it when none are admitted.
LEMMA AdmitsNone ==
  ASSUME NEW records \in Seq(ActionRecords), NEW list \in Seq(Admitted)
  PROVE  AdmitActions(records, list) \in Seq(ActionRecords) /\ AdmitActions(records, <<>>) = records
<1>1. PICK none : none = <<>>
  OBVIOUS
<1>2. none \in Seq(Admitted) /\ Len(none) = 0
  BY <1>1
<1>3. PICK f \in [0 .. Len(list) -> Seq(ActionRecords)] : Admits(f, records, list)
  BY AdmitsExist
<1>4. PICK h \in [0 .. Len(none) -> Seq(ActionRecords)] : Admits(h, records, none)
  BY <1>2, AdmitsExist
<1>5. AdmitActions(records, list) = f[Len(list)] /\ Len(list) \in 0 .. Len(list)
  BY <1>3 DEF Admits
<1>6. AdmitActions(records, none) = records
  BY <1>2, <1>4 DEF Admits
<1> QED BY <1>1, <1>3, <1>5, <1>6

\* The events of actions, among all.
LEMMA ActionEventsAmong ==
  ASSUME NEW list \in Seq(OfferedEvents)
  PROVE  ActionEvents(list) = Among(list, Admitted) /\ ActionEvents(list) \in Seq(Admitted)
<1>1. PICK k : k = Among(list, Admitted)
  OBVIOUS
<1>2. k \in Seq(ToSet(k)) /\ ToSet(k) \subseteq Admitted
  <2>1. k \in Seq(OfferedEvents)
    BY <1>1, AmongType
  <2>2. ToSet(k) = ToSet(list) \cap Admitted
    BY <1>1, AmongWhat
  <2> QED BY <2>1, <2>2, ListOfItsOwn
<1>3. k \in Seq(Admitted)
  BY <1>2, ListOfMore
<1>4. ActionEvents(list) = k
  <2>1. PICK A : A = {e \in ToSet(list) : e.kind \in {"before", "log", "after"}}
    OBVIOUS
  <2>2. ToSet(list) \subseteq OfferedEvents
    BY ListOfItsOwn
  <2>3. \A r \in ToSet(list) : r \in A <=> r \in Admitted
    BY <2>1, <2>2 DEF Admitted
  <2>4. Among(list, A) = k
    BY <1>1, <2>3, AmongSame
  <2> QED BY <2>1, <2>4 DEF ActionEvents
<1> QED BY <1>1, <1>3, <1>4

\* After a trace, the records say of a failure if they did before or if it holds one.
LEMMA TraceKeepsFailure ==
  ASSUME NEW records \in Seq(ActionRecords), NEW list \in Seq(OfferedEvents)
  PROVE  /\ AdmitActions(records, ActionEvents(list)) \in Seq(ActionRecords)
         /\ HasFailed(records) \/ (ToSet(list) \cap FailureEvents # {})
              => HasFailed(AdmitActions(records, ActionEvents(list)))
<1>1. PICK U, R : /\ U = OfferedEvents
                  /\ R = [l \in Seq(U) |-> AdmitActions(records, ActionEvents(l))]
  OBVIOUS
<1>2. PICK P : P = {l \in Seq(U) : HasFailed(records) \/ (ToSet(l) \cap FailureEvents # {})
                                      => HasFailed(R[l])}
  OBVIOUS
<1>3. \A l \in Seq(U) : R[l] = AdmitActions(records, ActionEvents(l)) /\ R[l] \in Seq(ActionRecords)
  <2> TAKE l \in Seq(U)
  <2>1. ActionEvents(l) \in Seq(Admitted)
    BY <1>1, ActionEventsAmong
  <2> QED BY <1>1, <2>1, AdmitsNone
<1>4. <<>> \in P
  <2>1. PICK none : none = <<>>
    OBVIOUS
  <2>2. none \in Seq(U) /\ none \in Seq(Admitted) /\ ToSet(none) = {}
    BY <2>1 DEF ToSet
  <2>3. ActionEvents(none) = none
    <3>1. Among(none, Admitted) = none
      BY <2>2, AmongAll
    <3> QED BY <1>1, <2>2, <3>1, ActionEventsAmong
  <2>4. AdmitActions(records, <<>>) = records
    BY <2>2, AdmitsNone
  <2>5. R[none] = records
    BY <1>3, <2>1, <2>2, <2>3, <2>4
  <2> QED BY <1>2, <2>1, <2>2, <2>5
<1>5. ASSUME NEW l \in Seq(U), l \in P, NEW e \in U
      PROVE  Append(l, e) \in P
  <2>1. PICK m, k, r : m = Append(l, e) /\ k = ActionEvents(l) /\ r = R[l]
    OBVIOUS
  <2>2. m \in Seq(U) /\ ToSet(m) = ToSet(l) \cup {e}
    BY <2>1, OneMore
  <2>3. /\ r = AdmitActions(records, k) /\ r \in Seq(ActionRecords)
        /\ R[m] = AdmitActions(records, ActionEvents(m))
    BY <1>3, <2>1, <2>2
  <2>4. k = Among(l, Admitted) /\ k \in Seq(Admitted)
    BY <1>1, <2>1, ActionEventsAmong
  <2>5. ActionEvents(m) = Among(m, Admitted)
    BY <1>1, <2>2, ActionEventsAmong
  <2>6. Among(m, Admitted) = IF e \in Admitted THEN Append(k, e) ELSE k
    BY <2>1, <2>4, AmongMore
  <2>7. CASE e \notin Admitted
    <3>1. R[m] = r /\ e \notin FailureEvents
      BY <2>3, <2>5, <2>6, <2>7 DEF Admitted, FailureEvents
    <3> QED BY <1>2, <1>5, <2>1, <2>2, <3>1
  <2>8. CASE e \in Admitted
    <3>1. AdmitActions(records, Append(k, e)) = AdmitAction(r, e)
      BY <2>3, <2>4, <2>8, AdmitsMore
    <3>2. R[m] = AdmitAction(r, e)
      BY <2>3, <2>5, <2>6, <2>8, <3>1
    <3>3. HasFailed(r) \/ e \in FailureEvents => HasFailed(R[m])
      BY <2>3, <2>8, <3>2, AdmittedOne
    <3> QED BY <1>2, <1>5, <2>1, <2>2, <3>3
  <2> QED BY <2>7, <2>8
<1>6. list \in P
  <2>1. list \in Seq(U)
    BY <1>1
  <2> QED BY <1>4, <1>5, <2>1, ListInduction
<1> QED BY <1>1, <1>2, <1>3, <1>6

\* A log that is compacted is no longer than the limit.
LEMMA CompactedFits ==
  ASSUME NEW log \in Seq(Texts)
  PROVE  Len(CompactActionLog(log)) <= LogCap
<1>1. LogHead \in Nat /\ LogCap \in Nat /\ LogCap > LogHead + 1
  BY TraceAssumption
<1>2. PICK N, T, tail : N = Len(log) /\ T = Texts \cup {"omitted"} /\ tail = LogCap - LogHead - 1
  OBVIOUS
<1>3. N \in Nat /\ tail \in Nat /\ log \in Seq(T) /\ <<"omitted">> \in Seq(T)
  BY <1>1, <1>2
<1>4. CASE N <= LogCap
  BY <1>2, <1>4 DEF CompactActionLog
<1>5. CASE ~(N <= LogCap)
  <2>1. PICK a, b : a = SubSeq(log, 1, LogHead) /\ b = SubSeq(log, N - tail + 1, N)
    OBVIOUS
  <2>2. a \in Seq(T) /\ Len(a) = LogHead
    BY <1>1, <1>2, <1>3, <1>5, <2>1
  <2>3. b \in Seq(T) /\ Len(b) = tail
    <3>1. PICK m : m = N - tail + 1
      OBVIOUS
    <3>2. m \in 1 .. N /\ N - m + 1 = tail
      BY <1>1, <1>2, <1>3, <1>5, <3>1
    <3>3. m \in Int /\ N \in Int /\ m <= N /\ \A i \in m .. N : log[i] \in T
      BY <1>2, <1>3, <3>2
    <3>4. /\ SubSeq(log, m, N) \in Seq(T)
          /\ Len(SubSeq(log, m, N)) = IF m <= N THEN N - m + 1 ELSE 0
      BY <3>3, SubSeqProperties
    <3> QED BY <2>1, <3>1, <3>2, <3>3, <3>4
  <2>4. CompactActionLog(log) = a \o <<"omitted">> \o b
    BY <1>2, <1>5, <2>1 DEF CompactActionLog
  <2>5. PICK c : c = a \o <<"omitted">>
    OBVIOUS
  <2>6. c \in Seq(T) /\ Len(c) = LogHead + 1
    BY <1>3, <2>2, <2>5
  <2>7. Len(c \o b) = (LogHead + 1) + tail
    BY <2>3, <2>6
  <2> QED BY <1>1, <1>2, <2>4, <2>5, <2>7
<1> QED BY <1>4, <1>5

\* The action that failed is one that did, if any did, and its log is within the limit.
LEMMA FailingActionFound ==
  ASSUME actions \in Seq(ActionRecords)
  PROVE  /\ HasFailed(actions) => FindFailingAction.error # "none"
         /\ Len(FindFailingAction.log) <= LogCap
<1>1. PICK failed, ended : /\ failed = Among(actions, {r \in ToSet(actions) : r.error # "none"})
                           /\ ended = Among(actions, {r \in ToSet(actions) : r.ended})
  OBVIOUS
<1>2. PICK found : found = CASE failed # <<>>                  -> failed[Len(failed)]
                             [] failed = <<>> /\ ended # <<>> -> ended[Len(ended)]
                             [] OTHER                          -> NoAction
  OBVIOUS
<1>3. FindFailingAction = [found EXCEPT !.log = CompactActionLog(@)]
  BY <1>1, <1>2 DEF FindFailingAction
<1>4. failed \in Seq(ActionRecords) /\ ended \in Seq(ActionRecords)
  BY <1>1, AmongType
<1>5. \A n \in 1 .. Len(failed) : failed[n].error # "none"
  <2>1. ToSet(failed) = ToSet(actions) \cap {r \in ToSet(actions) : r.error # "none"}
    BY <1>1, AmongWhat
  <2>2. \A n \in 1 .. Len(failed) : failed[n] \in ToSet(failed)
    BY <1>4 DEF ToSet
  <2> QED BY <2>1, <2>2
<1>6. HasFailed(actions) => failed # <<>>
  <2> SUFFICES ASSUME HasFailed(actions) PROVE failed # <<>>
    OBVIOUS
  <2>1. PICK n \in 1 .. Len(actions) : actions[n].error # "none"
    BY DEF HasFailed
  <2>2. actions[n] \in ToSet(actions)
    BY <2>1 DEF ToSet
  <2>3. ToSet(failed) = ToSet(actions) \cap {r \in ToSet(actions) : r.error # "none"}
    BY <1>1, AmongWhat
  <2>4. ToSet(failed) # {}
    BY <2>1, <2>2, <2>3
  <2>5. ToSet(<<>>) = {}
    BY DEF ToSet
  <2> QED BY <2>4, <2>5
<1>7. /\ found \in ActionRecords
      /\ failed # <<>> => found.error # "none"
  <2>1. CASE failed # <<>>
    <3>1. Len(failed) \in 1 .. Len(failed)
      BY <1>4, <2>1
    <3>2. found = failed[Len(failed)]
      BY <1>2, <2>1
    <3>3. found \in ActionRecords
      BY <1>4, <3>1, <3>2
    <3> QED BY <1>5, <3>1, <3>2, <3>3
  <2>2. CASE failed = <<>> /\ ended # <<>>
    <3>1. Len(ended) \in 1 .. Len(ended)
      BY <1>4, <2>2
    <3>2. found = ended[Len(ended)]
      BY <1>2, <2>2
    <3> QED BY <1>4, <2>2, <3>1, <3>2
  <2>3. CASE failed = <<>> /\ ended = <<>>
    <3>1. found = NoAction
      BY <1>2, <2>3
    <3>2. <<>> \in Seq(Texts)
      OBVIOUS
    <3>3. NoAction \in ActionRecords
      BY <3>2 DEF NoAction, ActionRecords
    <3> QED BY <2>3, <3>1, <3>3
  <2> QED BY <2>1, <2>2, <2>3
<1>8. FindFailingAction.error = found.error /\ FindFailingAction.log = CompactActionLog(found.log)
  BY <1>3, <1>7 DEF ActionRecords
<1>9. found.log \in Seq(Texts)
  BY <1>7 DEF ActionRecords
<1> QED BY <1>6, <1>7, <1>8, <1>9, CompactedFits

-----------------------------------------------------------------------------
(* The timeline. *)

Timely(s) == \A m, n \in 1 .. Len(s) : m < n => s[m].offset <= s[n].offset

HasTimes(T) == \A x \in T : x.offset \in Nat

\* One more at the end of a list in the order of time.
LEMMA TimelyMore ==
  ASSUME NEW T, HasTimes(T), NEW s \in Seq(T), NEW x \in T
  PROVE  Timely(Append(s, x)) <=> Timely(s) /\ \A y \in ToSet(s) : y.offset <= x.offset
<1>1. PICK t, N : t = Append(s, x) /\ N = Len(s)
  OBVIOUS
<1>2. /\ N \in Nat /\ DOMAIN s = 1 .. N /\ Len(t) = N + 1 /\ t[N + 1] = x
      /\ \A n \in 1 .. N : t[n] = s[n] /\ s[n] \in T
  BY <1>1
<1>3. ASSUME Timely(t) PROVE Timely(s) /\ \A y \in ToSet(s) : y.offset <= x.offset
  <2>1. Timely(s)
    <3> SUFFICES ASSUME NEW m \in 1 .. N, NEW n \in 1 .. N, m < n
                 PROVE  s[m].offset <= s[n].offset
      BY <1>1 DEF Timely
    <3>1. m \in 1 .. N + 1 /\ n \in 1 .. N + 1
      BY <1>2
    <3> QED BY <1>2, <1>3, <3>1 DEF Timely
  <2>2. ASSUME NEW y \in ToSet(s) PROVE y.offset <= x.offset
    <3>1. PICK n \in 1 .. N : y = s[n]
      BY <1>2 DEF ToSet
    <3>2. n \in 1 .. N + 1 /\ N + 1 \in 1 .. N + 1 /\ n < N + 1
      BY <1>2
    <3>3. t[n].offset <= t[N + 1].offset
      BY <1>2, <1>3, <3>2 DEF Timely
    <3> QED BY <1>2, <3>1, <3>3
  <2> QED BY <2>1, <2>2
<1>4. ASSUME Timely(s), \A y \in ToSet(s) : y.offset <= x.offset
      PROVE  Timely(t)
  <2> SUFFICES ASSUME NEW m \in 1 .. N + 1, NEW n \in 1 .. N + 1, m < n
               PROVE  t[m].offset <= t[n].offset
    BY <1>2 DEF Timely
  <2>1. m \in 1 .. N /\ (n = N + 1 \/ n \in 1 .. N)
    BY <1>2
  <2>2. CASE n = N + 1
    <3>1. s[m] \in ToSet(s)
      BY <1>2, <2>1 DEF ToSet
    <3> QED BY <1>2, <1>4, <2>1, <2>2, <3>1
  <2>3. CASE n \in 1 .. N
    <3>1. s[m].offset <= s[n].offset
      BY <1>1, <1>4, <2>1, <2>3 DEF Timely
    <3> QED BY <1>2, <2>1, <2>3, <3>1
  <2> QED BY <2>1, <2>2, <2>3
<1> QED BY <1>1, <1>3, <1>4

\* A list of nothing is in the order of time.
LEMMA TimelyNone == Timely(<<>>)
BY DEF Timely

\* What is in a set, of a list in the order of time, is in that order.
LEMMA TimelyAmong ==
  ASSUME NEW T, HasTimes(T), NEW s \in Seq(T), NEW A, Timely(s)
  PROVE  Timely(Among(s, A))
<1>1. PICK P : P = {l \in Seq(T) : Timely(l) => Timely(Among(l, A))}
  OBVIOUS
<1>2. <<>> \in P
  <2>1. PICK none : none = <<>>
    OBVIOUS
  <2>2. none \in Seq(T) /\ ToSet(none) \subseteq A
    BY <2>1 DEF ToSet
  <2>3. Among(none, A) = none
    BY <2>2, AmongAll
  <2> QED BY <1>1, <2>1, <2>2, <2>3
<1>3. ASSUME NEW l \in Seq(T), l \in P, NEW x \in T
      PROVE  Append(l, x) \in P
  <2>1. PICK m, k : m = Append(l, x) /\ k = Among(l, A)
    OBVIOUS
  <2>2. m \in Seq(T) /\ k \in Seq(T)
    BY <2>1, AmongType
  <2>3. ToSet(k) \subseteq ToSet(l)
    BY <2>1, AmongWhat
  <2>4. Among(m, A) = IF x \in A THEN Append(k, x) ELSE k
    BY <2>1, AmongMore
  <2> SUFFICES ASSUME Timely(m) PROVE Timely(Among(m, A))
    BY <1>1, <2>1, <2>2
  <2>5. Timely(l) /\ \A y \in ToSet(l) : y.offset <= x.offset
    BY <2>1, TimelyMore
  <2>6. Timely(k)
    BY <1>1, <1>3, <2>1, <2>5
  <2>7. Timely(Append(k, x))
    BY <2>2, <2>3, <2>5, <2>6, TimelyMore
  <2> QED BY <2>4, <2>6, <2>7
<1>4. s \in P
  BY <1>2, <1>3, ListInduction
<1> QED BY <1>1, <1>4

\* Two lists in the order of time, the second of them later.
LEMMA TimelyBoth ==
  ASSUME NEW T, HasTimes(T), NEW s \in Seq(T), NEW t \in Seq(T), Timely(s), Timely(t),
         \A x \in ToSet(s), y \in ToSet(t) : x.offset <= y.offset
  PROVE  Timely(s \o t)
<1>1. PICK P : P = {l \in Seq(T) :
                     /\ Timely(l)
                     /\ \A y \in ToSet(l) : \A x \in ToSet(s) : x.offset <= y.offset
                     => Timely(s \o l)}
  OBVIOUS
<1>2. <<>> \in P
  <2>1. <<>> \in Seq(T) /\ s \o <<>> = s
    OBVIOUS
  <2> QED BY <1>1, <2>1
<1>3. ASSUME NEW l \in Seq(T), l \in P, NEW e \in T
      PROVE  Append(l, e) \in P
  <2>1. PICK m, k : m = Append(l, e) /\ k = s \o l
    OBVIOUS
  <2>2. m \in Seq(T) /\ k \in Seq(T) /\ s \o m = Append(k, e)
    BY <2>1
  <2>3. ToSet(m) = ToSet(l) \cup {e} /\ ToSet(k) = ToSet(s) \cup ToSet(l)
    BY <2>1, OneMore, Joined
  <2> SUFFICES ASSUME Timely(m),
                      \A y \in ToSet(m) : \A x \in ToSet(s) : x.offset <= y.offset
               PROVE  Timely(s \o m)
    BY <1>1, <2>1, <2>2
  <2>4. Timely(l) /\ \A y \in ToSet(l) : y.offset <= e.offset
    BY <2>1, TimelyMore
  <2>5. \A y \in ToSet(l) : \A x \in ToSet(s) : x.offset <= y.offset
    BY <2>3
  <2>6. Timely(k)
    BY <1>1, <1>3, <2>1, <2>4, <2>5
  <2>7. \A y \in ToSet(k) : y.offset <= e.offset
    BY <2>3, <2>4
  <2>8. Timely(Append(k, e))
    BY <2>2, <2>6, <2>7, TimelyMore
  <2> QED BY <2>2, <2>8
<1>4. t \in P
  BY <1>2, <1>3, ListInduction
<1> QED BY <1>1, <1>4

\* An entry is put where its time is, and nothing else changes.
LEMMA InsertedWhat ==
  ASSUME NEW T, NEW s \in Seq(T), NEW e \in T
  PROVE  /\ InsertByTime(s, e) \in Seq(T)
         /\ HasTimes(T) => /\ ToSet(InsertByTime(s, e)) = ToSet(s) \cup {e}
                           /\ Timely(s) => Timely(InsertByTime(s, e))
<1>1. PICK A, B, a, b, c :
        /\ A = {x \in ToSet(s) : x.offset <= e.offset} /\ B = {x \in ToSet(s) : x.offset > e.offset}
        /\ a = Among(s, A) /\ b = Among(s, B) /\ c = a \o <<e>>
  OBVIOUS
<1>2. a \in Seq(T) /\ b \in Seq(T)
  BY <1>1, AmongType
<1>3. c \in Seq(T) /\ c = Append(a, e) /\ c \o b \in Seq(T)
  BY <1>1, <1>2
<1>4. InsertByTime(s, e) = c \o b
  BY <1>1 DEF InsertByTime
<1>5. ASSUME HasTimes(T)
      PROVE  /\ ToSet(c \o b) = ToSet(s) \cup {e}
             /\ Timely(s) => Timely(c \o b)
  <2>1. \A x \in ToSet(s) : x \in T /\ x.offset \in Nat
    <3>1. ToSet(s) \subseteq T
      BY ListOfItsOwn
    <3> QED BY <1>5, <3>1 DEF HasTimes
  <2>2. e.offset \in Nat
    BY <1>5 DEF HasTimes
  <2>3. A \subseteq ToSet(s) /\ B \subseteq ToSet(s) /\ ToSet(s) = A \cup B
    BY <1>1, <2>1, <2>2
  <2>4. ToSet(a) = A /\ ToSet(b) = B
    <3>1. ToSet(a) = ToSet(s) \cap A /\ ToSet(b) = ToSet(s) \cap B
      BY <1>1, AmongWhat
    <3> QED BY <2>3, <3>1
  <2>5. ToSet(c) = A \cup {e}
    BY <1>2, <1>3, <2>4, OneMore
  <2>6. ToSet(c \o b) = ToSet(c) \cup ToSet(b)
    <3>1. c \in Seq(T) /\ b \in Seq(T)
      BY <1>2, <1>3
    <3> QED BY <3>1, Joined
  <2>7. ASSUME Timely(s) PROVE Timely(c \o b)
    <3>1. Timely(a) /\ Timely(b)
      BY <1>1, <1>5, <2>7, TimelyAmong
    <3>2. \A y \in ToSet(a) : y.offset <= e.offset
      BY <1>1, <2>4
    <3>3. Timely(c)
      BY <1>2, <1>3, <1>5, <3>1, <3>2, TimelyMore
    <3>4. \A x \in ToSet(c), y \in ToSet(b) : x.offset <= y.offset
      <4> SUFFICES ASSUME NEW x \in ToSet(c), NEW y \in ToSet(b) PROVE x.offset <= y.offset
        OBVIOUS
      <4>1. x.offset \in Nat /\ x.offset <= e.offset
        <5>1. CASE x = e
          BY <2>2, <5>1
        <5>2. CASE x # e
          <6>1. x \in A
            BY <2>5, <5>2
          <6> QED BY <1>1, <2>1, <6>1
        <5> QED BY <5>1, <5>2
      <4>2. y.offset \in Nat /\ y.offset > e.offset
        BY <1>1, <2>1, <2>4
      <4> QED BY <2>2, <4>1, <4>2
    <3> QED BY <1>2, <1>3, <1>5, <3>1, <3>3, <3>4, TimelyBoth
  <2> QED BY <2>3, <2>4, <2>5, <2>6, <2>7
<1> QED BY <1>3, <1>4, <1>5

\* The loop that inserts entries one after the other.
Sorts(f, list) ==
  /\ f[0] = <<>>
  /\ \A n \in 1 .. Len(list) : f[n] = InsertByTime(f[n - 1], list[n])
  /\ SortedByTime(list) = f[Len(list)]

\* It is there, and goes through lists of entries.
LEMMA SortsExist ==
  ASSUME NEW T, NEW list \in Seq(T)
  PROVE  \E f \in [0 .. Len(list) -> Seq(T)] : Sorts(f, list)
<1>1. PICK N, S : N = Len(list) /\ S = Seq(T)
  OBVIOUS
<1>2. N \in Nat /\ <<>> \in S /\ \A n \in 1 .. N : list[n] \in T
  BY <1>1
<1>3. \A n \in 1 .. N : \A v \in S : InsertByTime(v, list[n]) \in S
  BY <1>1, <1>2, InsertedWhat
<1>4. PICK step : step = [n \in 1 .. N |-> [v \in S |-> InsertByTime(v, list[n])]]
  OBVIOUS
<1>5. /\ step \in [1 .. N -> [S -> S]]
      /\ \A n \in 1 .. N : \A v \in S : step[n][v] = InsertByTime(v, list[n])
  BY <1>3, <1>4
<1> DEFINE Turns(f) ==
             f = [n \in 0 .. N |-> IF n = 0 THEN <<>> ELSE InsertByTime(f[n - 1], list[n])]
<1>6. \A n \in 0 .. N : n # 0 => n \in 1 .. N /\ n - 1 \in 0 .. N
  BY <1>2
<1>7. \E f : Turns(f)
  <2>1. PICK f \in [0 .. N -> S] : Loops(f, N, <<>>, step)
    BY <1>2, <1>5, LoopExists
  <2>2. f[0] = <<>> /\ f = [n \in 0 .. N |-> f[n]]
    BY <2>1 DEF Loops
  <2>3. \A n \in 1 .. N : f[n] = InsertByTime(f[n - 1], list[n])
    <3> TAKE n \in 1 .. N
    <3>1. n - 1 \in 0 .. N
      BY <1>2
    <3>2. f[n - 1] \in S /\ f[n] = step[n][f[n - 1]]
      BY <2>1, <3>1 DEF Loops
    <3> QED BY <1>5, <3>2
  <2>4. \A n \in 0 .. N : f[n] = IF n = 0 THEN <<>> ELSE InsertByTime(f[n - 1], list[n])
    BY <1>6, <2>2, <2>3
  <2>5. f = [n \in 0 .. N |-> IF n = 0 THEN <<>> ELSE InsertByTime(f[n - 1], list[n])]
    BY <2>2, <2>4, Zenon
  <2> QED BY <2>5
<1>8. PICK f : f = (CHOOSE g : Turns(g)) /\ Turns(f)
  <2> HIDE DEF Turns
  <2> QED BY <1>7
<1>9. SortedByTime(list) = f[N]
  BY <1>1, <1>8 DEF SortedByTime
<1>10. /\ f = [n \in 0 .. N |-> f[n]]
       /\ \A n \in 0 .. N : f[n] = IF n = 0 THEN <<>> ELSE InsertByTime(f[n - 1], list[n])
  BY <1>8
<1> HIDE DEF Turns
<1>11. f[0] = <<>>
  <2>1. 0 \in 0 .. N
    BY <1>2
  <2> QED BY <1>10, <2>1
<1>12. \A n \in 1 .. N : f[n] = InsertByTime(f[n - 1], list[n])
  <2> TAKE n \in 1 .. N
  <2>1. n \in 0 .. N /\ n # 0
    BY <1>2
  <2> QED BY <1>10, <2>1
<1>13. LoopsIn(f, N, S, <<>>, step)
  BY <1>5, <1>11, <1>12 DEF LoopsIn
<1>14. \A n \in 0 .. N : f[n] \in S
  BY <1>2, <1>5, <1>13, LoopStays
<1>15. f \in [0 .. N -> S]
  BY <1>10, <1>14
<1> QED BY <1>1, <1>9, <1>11, <1>12, <1>15 DEF Sorts

\* One more is inserted behind the others.
LEMMA SortsMore ==
  ASSUME NEW T, NEW list \in Seq(T), NEW x \in T
  PROVE  /\ SortedByTime(list) \in Seq(T)
         /\ SortedByTime(<<>>) = <<>>
         /\ SortedByTime(Append(list, x)) = InsertByTime(SortedByTime(list), x)
<1>1. PICK more, none, N, S : more = Append(list, x) /\ none = <<>> /\ N = Len(list) /\ S = Seq(T)
  OBVIOUS
<1>2. /\ more \in Seq(T) /\ none \in Seq(T) /\ Len(none) = 0
      /\ Len(more) = N + 1 /\ N \in Nat
      /\ more[N + 1] = x /\ \A n \in 1 .. N : more[n] = list[n]
  BY <1>1, OneMore
<1>3. PICK f \in [0 .. Len(list) -> Seq(T)] : Sorts(f, list)
  BY SortsExist
<1>4. PICK g \in [0 .. Len(more) -> Seq(T)] : Sorts(g, more)
  BY <1>2, SortsExist
<1>5. PICK h \in [0 .. Len(none) -> Seq(T)] : Sorts(h, none)
  BY <1>2, SortsExist
<1>6. PICK P : P = {n \in 0 .. N : f[n] = g[n]}
  OBVIOUS
<1>7. 0 \in P
  BY <1>2, <1>3, <1>4, <1>6 DEF Sorts
<1>8. ASSUME NEW n \in 1 .. N, n - 1 \in P
      PROVE  n \in P
  <2>1. f[n - 1] = g[n - 1] /\ n \in 0 .. N /\ n \in 1 .. N + 1
    BY <1>2, <1>6, <1>8
  <2>2. f[n] = InsertByTime(f[n - 1], list[n])
    BY <1>1, <1>3 DEF Sorts
  <2>3. g[n] = InsertByTime(g[n - 1], more[n])
    BY <1>2, <1>4, <2>1 DEF Sorts
  <2> QED BY <1>2, <1>6, <2>1, <2>2, <2>3
<1>9. N \in P
  <2>1. \A n \in 0 .. N : n \in P
    BY <1>2, <1>7, <1>8, UpTo
  <2> QED BY <1>2, <2>1
<1>10. SortedByTime(list) = g[N] /\ SortedByTime(list) \in S
  <2>1. N \in 0 .. N
    BY <1>2
  <2> QED BY <1>1, <1>3, <1>6, <1>9, <2>1 DEF Sorts
<1>11. SortedByTime(more) = g[N + 1]
  BY <1>2, <1>4 DEF Sorts
<1>12. g[N + 1] = InsertByTime(g[N], more[N + 1])
  <2>1. N + 1 \in 1 .. Len(more) /\ (N + 1) - 1 = N
    BY <1>2
  <2> QED BY <1>4, <2>1 DEF Sorts
<1>13. SortedByTime(none) = <<>>
  BY <1>2, <1>5 DEF Sorts
<1> QED BY <1>1, <1>2, <1>10, <1>11, <1>12, <1>13

\* What comes of it when none are inserted.
LEMMA SortsNone ==
  ASSUME NEW T, NEW list \in Seq(T)
  PROVE  SortedByTime(list) \in Seq(T) /\ SortedByTime(<<>>) = <<>>
<1>1. PICK none : none = <<>>
  OBVIOUS
<1>2. none \in Seq(T) /\ Len(none) = 0
  BY <1>1
<1>3. PICK f \in [0 .. Len(list) -> Seq(T)] : Sorts(f, list)
  BY SortsExist
<1>4. PICK h \in [0 .. Len(none) -> Seq(T)] : Sorts(h, none)
  BY <1>2, SortsExist
<1>5. SortedByTime(list) = f[Len(list)] /\ Len(list) \in 0 .. Len(list)
  BY <1>3 DEF Sorts
<1>6. SortedByTime(none) = <<>>
  BY <1>2, <1>4 DEF Sorts
<1> QED BY <1>1, <1>3, <1>5, <1>6

\* Sorting a list loses nothing of it, adds nothing, and brings it into the order of time.
LEMMA SortedWhat ==
  ASSUME NEW T, HasTimes(T), NEW list \in Seq(T)
  PROVE  /\ SortedByTime(list) \in Seq(T)
         /\ ToSet(SortedByTime(list)) = ToSet(list)
         /\ Timely(SortedByTime(list))
<1>1. PICK P : P = {l \in Seq(T) : /\ ToSet(SortedByTime(l)) = ToSet(l)
                                   /\ Timely(SortedByTime(l))}
  OBVIOUS
<1>2. <<>> \in P
  <2>1. <<>> \in Seq(T)
    OBVIOUS
  <2>2. SortedByTime(<<>>) = <<>>
    BY SortsNone
  <2> QED BY <1>1, <2>1, <2>2, TimelyNone
<1>3. ASSUME NEW l \in Seq(T), l \in P, NEW x \in T
      PROVE  Append(l, x) \in P
  <2>1. PICK m, k : m = Append(l, x) /\ k = SortedByTime(l)
    OBVIOUS
  <2>2. m \in Seq(T) /\ ToSet(m) = ToSet(l) \cup {x}
    BY <2>1, OneMore
  <2>3. k \in Seq(T) /\ SortedByTime(m) = InsertByTime(k, x)
    BY <2>1, SortsMore
  <2>4. ToSet(k) = ToSet(l) /\ Timely(k)
    BY <1>1, <1>3, <2>1
  <2>5. ToSet(InsertByTime(k, x)) = ToSet(k) \cup {x} /\ Timely(InsertByTime(k, x))
    BY <2>3, <2>4, InsertedWhat
  <2> QED BY <1>1, <2>1, <2>2, <2>3, <2>4, <2>5
<1>4. list \in P
  BY <1>2, <1>3, ListInduction
<1> QED BY <1>1, <1>4, SortsNone

\* The instance that comes first.
FirstIn(left) == CHOOSE i \in left : \A j \in left \ {i} : Before(i, j)

\* It is one of them.
LEMMA FirstIsOne ==
  ASSUME NEW all, Ordered(all), NEW set \in SUBSET all, set # {}
  PROVE  FirstIn(set) \in set
<1>1. PICK R : R = {p \in all \X all : Before(p[1], p[2])}
  OBVIOUS
<1>2. \A i, j \in all : <<i, j>> \in R <=> Before(i, j)
  BY <1>1
<1>3. IsStrict(R, set)
  BY <1>2, OrderIsStrict DEF IsStrict
<1>4. IsFiniteSet(set)
  BY FS_Subset DEF Ordered
<1>5. PICK i \in set : \A j \in set \ {i} : <<i, j>> \in R
  BY <1>3, <1>4, FirstOf
<1>6. \A j \in set \ {i} : Before(i, j)
  BY <1>2, <1>5
<1> QED BY <1>6 DEF FirstIn

\* The loop that lists the instances.
Lists(f, all) ==
  /\ f[0] = <<>>
  /\ \A n \in 1 .. Cardinality(instances) : f[n] = Append(f[n - 1], FirstIn(instances \ ToSet(f[n - 1])))
  /\ ListedInstances = f[Cardinality(instances)]

\* It is there, and goes through lists of instances.
LEMMA ListsExist ==
  ASSUME NEW all, all = instances, Ordered(all)
  PROVE  \E f \in [0 .. Cardinality(instances) -> Seq(all \cup {FirstIn({})})] : Lists(f, all)
<1>1. PICK N, S : N = Cardinality(instances) /\ S = Seq(all \cup {FirstIn({})})
  OBVIOUS
<1>0. \A left \in SUBSET all : left # {} => FirstIn(left) \in all
  BY FirstIsOne
<1>2. N \in Nat /\ <<>> \in S
  BY <1>1, FS_CardinalityType DEF Ordered
<1>3. \A n \in 1 .. N : \A v \in S : Append(v, FirstIn(instances \ ToSet(v))) \in S
  <2> TAKE n \in 1 .. N
  <2> TAKE v \in S
  <2>1. \A left \in SUBSET all : left # {} => FirstIn(left) \in all
    BY <1>0
  <2>2. PICK i : i = FirstIn(instances \ ToSet(v))
    OBVIOUS
  <2>3. i \in all \cup {FirstIn({})}
    <3>1. CASE instances \ ToSet(v) = {}
      BY <2>2, <3>1
    <3>2. CASE instances \ ToSet(v) # {}
      <4>1. instances \ ToSet(v) \in SUBSET all
        OBVIOUS
      <4> QED BY <2>1, <2>2, <3>2, <4>1
    <3> QED BY <3>1, <3>2
  <2> QED BY <1>1, <2>2, <2>3
<1>4. PICK step : step = [n \in 1 .. N |-> [v \in S |-> Append(v, FirstIn(instances \ ToSet(v)))]]
  OBVIOUS
<1>5. /\ step \in [1 .. N -> [S -> S]]
      /\ \A n \in 1 .. N : \A v \in S : step[n][v] = Append(v, FirstIn(instances \ ToSet(v)))
  BY <1>3, <1>4
<1> DEFINE Turns(f) ==
             f = [n \in 0 .. N |-> IF n = 0 THEN <<>> ELSE Append(f[n - 1], FirstIn(instances \ ToSet(f[n - 1])))]
<1>6. \A n \in 0 .. N : n # 0 => n \in 1 .. N /\ n - 1 \in 0 .. N
  BY <1>2
<1>7. \E f : Turns(f)
  <2>1. PICK f \in [0 .. N -> S] : Loops(f, N, <<>>, step)
    BY <1>2, <1>5, LoopExists
  <2>2. f[0] = <<>> /\ f = [n \in 0 .. N |-> f[n]]
    BY <2>1 DEF Loops
  <2>3. \A n \in 1 .. N : f[n] = Append(f[n - 1], FirstIn(instances \ ToSet(f[n - 1])))
    <3> TAKE n \in 1 .. N
    <3>1. n - 1 \in 0 .. N
      BY <1>2
    <3>2. f[n - 1] \in S /\ f[n] = step[n][f[n - 1]]
      BY <2>1, <3>1 DEF Loops
    <3> QED BY <1>5, <3>2
  <2>4. \A n \in 0 .. N : f[n] = IF n = 0 THEN <<>> ELSE Append(f[n - 1], FirstIn(instances \ ToSet(f[n - 1])))
    BY <1>6, <2>2, <2>3
  <2>5. f = [n \in 0 .. N |-> IF n = 0 THEN <<>> ELSE Append(f[n - 1], FirstIn(instances \ ToSet(f[n - 1])))]
    BY <2>2, <2>4, Zenon
  <2> QED BY <2>5
<1>8. PICK f : f = (CHOOSE g : Turns(g)) /\ Turns(f)
  <2> HIDE DEF Turns
  <2> QED BY <1>7
<1>9. ListedInstances = f[N]
  BY <1>1, <1>8 DEF ListedInstances, FirstIn
<1>10. /\ f = [n \in 0 .. N |-> f[n]]
       /\ \A n \in 0 .. N : f[n] = IF n = 0 THEN <<>> ELSE Append(f[n - 1], FirstIn(instances \ ToSet(f[n - 1])))
  BY <1>8
<1> HIDE DEF Turns
<1>11. f[0] = <<>>
  <2>1. 0 \in 0 .. N
    BY <1>2
  <2> QED BY <1>10, <2>1
<1>12. \A n \in 1 .. N : f[n] = Append(f[n - 1], FirstIn(instances \ ToSet(f[n - 1])))
  <2> TAKE n \in 1 .. N
  <2>1. n \in 0 .. N /\ n # 0
    BY <1>2
  <2> QED BY <1>10, <2>1
<1>13. LoopsIn(f, N, S, <<>>, step)
  BY <1>5, <1>11, <1>12 DEF LoopsIn
<1>14. \A n \in 0 .. N : f[n] \in S
  BY <1>2, <1>5, <1>13, LoopStays
<1>15. f \in [0 .. N -> S]
  BY <1>10, <1>14
<1> QED BY <1>1, <1>9, <1>11, <1>12, <1>15 DEF Lists

\* All of them are listed.
LEMMA ListedWhat ==
  ASSUME Ordered(instances)
  PROVE  ListedInstances \in Seq(instances) /\ ToSet(ListedInstances) = instances
<1>1. PICK all, E, N : all = instances /\ E = all \cup {FirstIn({})} /\ N = Cardinality(instances)
  OBVIOUS
<1>2. PICK f \in [0 .. Cardinality(instances) -> Seq(E)] : Lists(f, all)
  BY <1>1, ListsExist
<1>3. N \in Nat /\ IsFiniteSet(all)
  BY <1>1, FS_CardinalityType DEF Ordered
<1>4. /\ f[0] = <<>> /\ ListedInstances = f[N]
      /\ \A n \in 1 .. N : f[n] = Append(f[n - 1], FirstIn(all \ ToSet(f[n - 1])))
  BY <1>1, <1>2 DEF Lists
<1>5. \A n \in 0 .. N : f[n] \in Seq(E)
  BY <1>1, <1>2
<1>6. PICK P : P = {n \in 0 .. N : /\ ToSet(f[n]) \subseteq all
                                   /\ Cardinality(all \ ToSet(f[n])) = N - n}
  OBVIOUS
<1>7. 0 \in P
  <2>1. ToSet(f[0]) = {}
    BY <1>4 DEF ToSet
  <2>2. all \ ToSet(f[0]) = all /\ 0 \in 0 .. N /\ N - 0 = N
    BY <1>3, <2>1
  <2> QED BY <1>1, <1>6, <2>1, <2>2
<1>8. ASSUME NEW n \in 1 .. N, n - 1 \in P
      PROVE  n \in P
  <2>1. PICK s, left, i : s = f[n - 1] /\ left = all \ ToSet(s) /\ i = FirstIn(left)
    OBVIOUS
  <2>2. n - 1 \in 0 .. N /\ n \in 0 .. N /\ (N - (n - 1)) - 1 = N - n /\ N - (n - 1) # 0
    BY <1>3
  <2>3. ToSet(s) \subseteq all /\ Cardinality(left) = N - (n - 1)
    BY <1>6, <1>8, <2>1
  <2>4. IsFiniteSet(left) /\ left \in SUBSET all
    BY <1>3, <2>1, FS_Subset
  <2>5. left # {}
    BY <2>2, <2>3, FS_EmptySet
  <2>6. i \in left
    BY <1>1, <2>1, <2>4, <2>5, FirstIsOne
  <2>7. f[n] = Append(s, i)
    BY <1>4, <2>1
  <2>8. s \in Seq(E) /\ i \in E
    BY <1>1, <1>5, <2>1, <2>2, <2>6
  <2>9. ToSet(f[n]) = ToSet(s) \cup {i}
    BY <2>7, <2>8, OneMore
  <2>10. all \ ToSet(f[n]) = left \ {i}
    BY <2>1, <2>9
  <2>11. Cardinality(left \ {i}) = Cardinality(left) - 1
    BY <2>4, <2>6, FS_RemoveElement
  <2>12. ToSet(f[n]) \subseteq all /\ Cardinality(all \ ToSet(f[n])) = N - n
    BY <2>1, <2>2, <2>3, <2>6, <2>9, <2>10, <2>11
  <2> QED BY <1>6, <2>2, <2>12
<1>9. N \in P /\ N \in 0 .. N
  <2>1. \A n \in 0 .. N : n \in P
    BY <1>3, <1>7, <1>8, UpTo
  <2> QED BY <1>3, <2>1
<1>10. PICK s : s = f[N]
  OBVIOUS
<1>11. s \in Seq(E) /\ ToSet(s) \subseteq all /\ Cardinality(all \ ToSet(s)) = 0
  <2>1. N - N = 0
    BY <1>3
  <2> QED BY <1>5, <1>6, <1>9, <1>10, <2>1
<1>12. all \ ToSet(s) = {}
  <2>1. IsFiniteSet(all \ ToSet(s))
    BY <1>3, FS_Subset
  <2> QED BY <1>11, <2>1, FS_EmptySet
<1>13. s \in Seq(ToSet(s)) /\ ToSet(s) = all
  BY <1>11, <1>12, ListOfItsOwn
<1> QED BY <1>1, <1>4, <1>10, <1>13

TimelineEntries ==
  [kind : {"step", "network", "console"}, offset : Nat, of : Nat]

\* The timeline runs forward, and has all the requests with a time.
LEMMA TimelineWhat ==
  ASSUME Ordered(instances), consoleMessages \in Seq(Messages)
  PROVE  /\ Timely(Timeline) /\ DOMAIN Timeline = 1 .. Len(Timeline)
         /\ {e \in ToSet(Timeline) : e.kind = "network"} =
              {TimelineEntry("network", i.offset, i.number) :
                 i \in {j \in instances : j.offset # NoOffset}}
<1>1. PICK listed, T, a, b, c :
        /\ listed = ListedInstances /\ T = TimelineEntries
        /\ a = [n \in DOMAIN Steps |-> TimelineEntry("step", Steps[n], n)]
        /\ b = [n \in DOMAIN listed |->
                  TimelineEntry("network", listed[n].offset, listed[n].number)]
        /\ c = [n \in DOMAIN consoleMessages |->
                  TimelineEntry("console", consoleMessages[n].offset, n)]
  OBVIOUS
<1>2. \A k \in {"step", "network", "console"} : \A o \in Nat : \A n \in Nat :
        TimelineEntry(k, o, n) \in T
  BY <1>1 DEF TimelineEntry, TimelineEntries
<1>3. a \in Seq(T) /\ \A x \in ToSet(a) : x.kind = "step"
  <2>1. PICK M \in Nat : M = Len(Steps) /\ DOMAIN Steps = 1 .. M
                        /\ \A n \in 1 .. M : Steps[n] \in Offsets
    BY TraceAssumption
  <2>2. \A n \in 1 .. M : Steps[n] \in Nat /\ n \in Nat
    <3>1. Offsets \subseteq Nat
      BY BuilderAssumption
    <3>2. \A n \in 1 .. M : Steps[n] \in Offsets
      BY <2>1
    <3>3. \A n \in 1 .. M : Steps[n] \in Nat
      BY <3>1, <3>2
    <3> QED BY <3>3
  <2>3. \A n \in 1 .. M : TimelineEntry("step", Steps[n], n) \in T
    BY <1>2, <2>2
  <2>4. a \in [1 .. M -> T]
    BY <1>1, <2>1, <2>3
  <2>5. \A n \in 1 .. M : a[n].kind = "step"
    BY <1>1, <2>1 DEF TimelineEntry
  <2>6. DOMAIN a = 1 .. M
    BY <2>4
  <2> QED BY <2>4, <2>5, <2>6 DEF ToSet
<1>4. listed \in Seq(instances) /\ ToSet(listed) = instances
  BY <1>1, ListedWhat
<1>5. \A i \in instances : i.offset \in Nat /\ i.number \in Nat
  BY DEF Ordered
<1>6. /\ b \in Seq(T) /\ \A x \in ToSet(b) : x.kind = "network"
      /\ ToSet(b) = {TimelineEntry("network", i.offset, i.number) : i \in instances}
  <2>1. PICK M \in Nat : M = Len(listed) /\ DOMAIN listed = 1 .. M
                        /\ \A n \in 1 .. M : listed[n] \in instances
    BY <1>4
  <2>2. \A i \in instances : TimelineEntry("network", i.offset, i.number) \in T
    BY <1>2, <1>5
  <2>3. b \in [1 .. M -> T]
    BY <1>1, <2>1, <2>2
  <2>4. \A n \in 1 .. M : b[n] = TimelineEntry("network", listed[n].offset, listed[n].number)
    BY <1>1, <2>1
  <2>5. \A n \in 1 .. M : b[n].kind = "network"
    <3> TAKE n \in 1 .. M
    <3>1. TimelineEntry("network", listed[n].offset, listed[n].number).kind = "network"
      BY DEF TimelineEntry
    <3>2. b[n] = TimelineEntry("network", listed[n].offset, listed[n].number)
      BY <2>4
    <3> QED BY <3>1, <3>2
  <2>6. DOMAIN b = 1 .. M
    BY <2>3
  <2>7. ToSet(b) = {b[n] : n \in 1 .. M} /\ instances = {listed[n] : n \in 1 .. M}
    BY <1>4, <2>1, <2>6 DEF ToSet
  <2>8. ToSet(b) = {TimelineEntry("network", i.offset, i.number) : i \in instances}
    BY <2>4, <2>7
  <2>9. b \in Seq(T)
    BY <2>1, <2>3
  <2>10. \A x \in ToSet(b) : x.kind = "network"
    BY <2>5, <2>7
  <2> QED BY <2>8, <2>9, <2>10
<1>7. c \in Seq(T) /\ \A x \in ToSet(c) : x.kind = "console"
  <2>1. PICK M \in Nat : M = Len(consoleMessages) /\ DOMAIN consoleMessages = 1 .. M
                        /\ \A n \in 1 .. M : consoleMessages[n] \in Messages
    OBVIOUS
  <2>2. \A m \in Messages : m.offset \in Nat
    <3> SUFFICES ASSUME NEW e \in OfferedEvents, NEW clock \in Clocks
                 PROVE  ConsoleEntry(e, clock).offset \in Nat
      BY DEF Messages
    <3>1. e.time \in Nat \cup {NoOffset}
      <4>1. PICK d \in OfferedTraces : e \in UNION {ToSet(x.events) : x \in ToSet(d.entries)}
        BY DEF OfferedEvents
      <4>2. PICK x \in ToSet(d.entries) : e \in ToSet(x.events)
        BY <4>1
      <4> QED BY <4>2, TraceAssumption
    <3>2. NoOffset \in Nat
      BY BuilderAssumption
    <3>3. clock # NoAnchor => clock \in Nat
      BY DEF Clocks
    <3>4. CASE e.time = NoOffset \/ clock = NoAnchor
      BY <3>2, <3>4 DEF ConsoleEntry
    <3>5. CASE ~(e.time = NoOffset \/ clock = NoAnchor)
      <4>1. ConsoleEntry(e, clock).offset = e.time + clock
        BY <3>5 DEF ConsoleEntry
      <4>2. e.time \in Nat /\ clock \in Nat
        BY <3>1, <3>3, <3>5
      <4> QED BY <4>1, <4>2
    <3> QED BY <3>4, <3>5
  <2>3. \A n \in 1 .. M : TimelineEntry("console", consoleMessages[n].offset, n) \in T
    <3> TAKE n \in 1 .. M
    <3>1. consoleMessages[n].offset \in Nat /\ n \in Nat
      BY <2>1, <2>2
    <3> QED BY <1>2, <3>1
  <2>4. c \in [1 .. M -> T]
    BY <1>1, <2>1, <2>3
  <2>5. \A n \in 1 .. M : c[n].kind = "console"
    BY <1>1, <2>1 DEF TimelineEntry
  <2>6. DOMAIN c = 1 .. M
    BY <2>4
  <2> QED BY <2>4, <2>5, <2>6 DEF ToSet
<1>8. PICK all, timed : all = a \o b \o c /\ timed = Among(all, {e \in ToSet(all) : e.offset # NoOffset})
  OBVIOUS
<1>9. all \in Seq(T) /\ ToSet(all) = ToSet(a) \cup ToSet(b) \cup ToSet(c)
  <2>1. PICK d : d = a \o b
    OBVIOUS
  <2>2. d \in Seq(T) /\ ToSet(d) = ToSet(a) \cup ToSet(b)
    BY <1>3, <1>6, <2>1, Joined
  <2>3. d \o c \in Seq(T) /\ ToSet(d \o c) = ToSet(d) \cup ToSet(c)
    BY <1>7, <2>2, Joined
  <2> QED BY <1>8, <2>1, <2>2, <2>3
<1>10. timed \in Seq(T) /\ ToSet(timed) = {e \in ToSet(all) : e.offset # NoOffset}
  <2>1. timed \in Seq(T)
    BY <1>8, <1>9, AmongType
  <2>2. ToSet(timed) = ToSet(all) \cap {e \in ToSet(all) : e.offset # NoOffset}
    BY <1>8, <1>9, AmongWhat
  <2> QED BY <2>1, <2>2
<1>11. PICK timeline : timeline = SortedByTime(timed)
  OBVIOUS
<1>12. Timeline = timeline
  BY <1>1, <1>8, <1>11 DEF Timeline
<1>13. HasTimes(T)
  BY <1>1 DEF HasTimes, TimelineEntries
<1>14. timeline \in Seq(T) /\ ToSet(timeline) = ToSet(timed) /\ Timely(timeline)
  BY <1>10, <1>11, <1>13, SortedWhat
<1>15. {e \in ToSet(timeline) : e.kind = "network"} = {e \in ToSet(b) : e.offset # NoOffset}
  <2>1. \A x \in ToSet(a) \cup ToSet(c) : x.kind # "network"
    BY <1>3, <1>7
  <2> QED BY <1>6, <1>9, <1>10, <1>14, <2>1
<1>16. {e \in ToSet(b) : e.offset # NoOffset} =
         {TimelineEntry("network", i.offset, i.number) : i \in {j \in instances : j.offset # NoOffset}}
  <2>1. \A i \in instances : TimelineEntry("network", i.offset, i.number).offset = i.offset
    BY DEF TimelineEntry
  <2> QED BY <1>6, <2>1
<1>17. DOMAIN timeline = 1 .. Len(timeline)
  BY <1>14
<1> QED BY <1>12, <1>14, <1>15, <1>16, <1>17

-----------------------------------------------------------------------------
(* The traces of an attempt. *)

\* The clock of a trace is a number, if it has one.
LEMMA AnchorType ==
  ASSUME NEW a \in OfferedTraces
  PROVE  Anchor(ReadZipArchiveEntries(a)) \in Clocks
<1>1. PICK T, s, A, k : /\ T = ToSet(a.entries) /\ s = ReadZipArchiveEntries(a)
                        /\ A = {e \in ToSet(s) : e.kind = "trace" /\ e.anchor # NoAnchor}
                        /\ k = Among(s, A)
  OBVIOUS
<1>2. s \in Seq(T) /\ k \in Seq(T)
  BY <1>1, ReadableRead, AmongType
<1>3. \A e \in T : e.anchor \in Clocks
  BY <1>1, TraceAssumption DEF Clocks
<1>4. Anchor(s) = IF k = <<>> THEN NoAnchor ELSE k[1].anchor
  BY <1>1 DEF Anchor
<1>5. CASE k = <<>>
  BY <1>1, <1>4, <1>5 DEF Clocks
<1>6. CASE k # <<>>
  <2>1. k[1] \in T
    BY <1>2, <1>6
  <2> QED BY <1>1, <1>3, <1>4, <1>6, <2>1
<1> QED BY <1>5, <1>6

\* What could be read of some traces.
ReadOf(list) == Chained([n \in DOMAIN list |-> Readable(list[n])])

\* It is events, and those of one trace more are put behind the others.
LEMMA ReadOfMore ==
  ASSUME NEW list \in Seq(OfferedTraces), NEW a \in OfferedTraces
  PROVE  /\ ReadOf(list) \in Seq(OfferedEvents)
         /\ ReadOf(Append(list, a)) = ReadOf(list) \o Readable(a)
<1>1. PICK U, g : U = Seq(OfferedEvents) /\ g = [d \in OfferedTraces |-> Readable(d)]
  OBVIOUS
<1>2. \A d \in OfferedTraces : g[d] = Readable(d) /\ g[d] \in U
  <2> TAKE d \in OfferedTraces
  <2>1. Readable(d) \in Seq(OfferedEvents)
    BY ReadableRead
  <2> QED BY <1>1, <2>1
<1>3. \A l \in Seq(OfferedTraces) : ReadOf(l) = Chained(Each(g, l))
  <2> TAKE l \in Seq(OfferedTraces)
  <2>1. \A n \in DOMAIN l : l[n] \in OfferedTraces
    OBVIOUS
  <2>2. \A n \in DOMAIN l : Readable(l[n]) = g[l[n]]
    BY <1>2, <2>1
  <2>3. [n \in DOMAIN l |-> Readable(l[n])] = [n \in DOMAIN l |-> g[l[n]]]
    BY <2>2
  <2> QED BY <2>3 DEF ReadOf, Each
<1>4. PICK k, r : k = Each(g, list) /\ r = Readable(a)
  OBVIOUS
<1>5. k \in Seq(U)
  BY <1>2, <1>4, EachType
<1>6. g[a] = r /\ r \in U
  BY <1>2, <1>4
<1>7. Each(g, Append(list, a)) = Append(k, r)
  BY <1>4, <1>6, EachMore
<1>8. Chained(k) \in U /\ Chained(Append(k, r)) = Chained(k) \o r
  <2>1. k \in Seq(Seq(OfferedEvents)) /\ r \in Seq(OfferedEvents)
    BY <1>1, <1>5, <1>6
  <2> QED BY <1>1, <2>1, ChainedMore
<1>9. ReadOf(list) = Chained(k)
  BY <1>3, <1>4
<1>10. ReadOf(Append(list, a)) = Chained(Append(k, r))
  <2>1. PICK m : m = Append(list, a)
    OBVIOUS
  <2>2. m \in Seq(OfferedTraces)
    BY <2>1
  <2>3. ReadOf(m) = Chained(Each(g, m))
    BY <1>3, <2>2
  <2>4. Each(g, m) = Append(k, r)
    BY <1>7, <2>1
  <2> QED BY <2>1, <2>3, <2>4
<1> QED BY <1>1, <1>4, <1>8, <1>9, <1>10

LEMMA ReadOfNone == ReadOf(<<>>) = <<>>
<1>1. PICK none : none = <<>>
  OBVIOUS
<1>2. DOMAIN none = {} /\ none \in Seq(Seq({})) /\ none \in Seq({})
  BY <1>1
<1>3. [n \in DOMAIN none |-> Readable(none[n])] = none
  BY <1>1, <1>2
<1>4. Chained(<<>>) = <<>>
  BY <1>2, ChainedMore
<1> QED BY <1>1, <1>3, <1>4 DEF ReadOf

\* What has been taken from what could be read so far.
TakenFrom(all, messages, records) ==
  /\ all \in Seq(OfferedEvents)
  /\ KeepsFirst(Messages, messages, Among(all, SignalEvents))
  /\ records \in Seq(ActionRecords)
  /\ ToSet(all) \cap FailureEvents # {} => HasFailed(records)

TraceInv == traces \in Seq(OfferedTraces) /\ TakenFrom(ReadOf(traces), consoleMessages, actions)

LEMMA TraceInvInit == TraceInit => TraceInv
<1> SUFFICES ASSUME TraceInit PROVE TraceInv
  OBVIOUS
<1>1. PICK none : none = <<>>
  OBVIOUS
<1>2. traces = none /\ consoleMessages = none /\ actions = none /\ ReadOf(traces) = none
  BY <1>1, ReadOfNone DEF TraceInit
<1>3. /\ none \in Seq(OfferedTraces) /\ none \in Seq(OfferedEvents) /\ none \in Seq(Messages)
      /\ none \in Seq(ActionRecords) /\ Len(none) = 0 /\ ToSet(none) = {}
  BY <1>1 DEF ToSet
<1>4. Among(none, SignalEvents) = none /\ Among(none, High(Messages)) = none
  <2>1. ToSet(none) \subseteq SignalEvents /\ ToSet(none) \subseteq High(Messages)
    BY <1>3
  <2> QED BY <1>3, <2>1, AmongAll
<1>5. KeepsFirst(Messages, none, none)
  <2>1. ConsoleCap \in Nat
    BY TraceAssumption
  <2> QED BY <1>3, <1>4, <2>1 DEF KeepsFirst
<1> QED BY <1>2, <1>3, <1>4, <1>5 DEF TraceInv, TakenFrom

\* A trace more.
LEMMA TraceInvStep ==
  ASSUME TraceInv, NEW a \in OfferedTraces, ParseTrace(a)
  PROVE  TraceInv'
<1>1. PICK all, r, clock, messages, records :
        /\ all = ReadOf(traces) /\ r = Readable(a) /\ clock = Anchor(ReadZipArchiveEntries(a))
        /\ messages = AppendConsoleEntries(consoleMessages, ConsoleEntries(r, clock))
        /\ records = AdmitActions(actions, ActionEvents(r))
  OBVIOUS
<1>2. /\ traces \in Seq(OfferedTraces) /\ all \in Seq(OfferedEvents)
      /\ KeepsFirst(Messages, consoleMessages, Among(all, SignalEvents))
      /\ actions \in Seq(ActionRecords)
      /\ ToSet(all) \cap FailureEvents # {} => HasFailed(actions)
  BY <1>1 DEF TraceInv, TakenFrom
<1>3. r = Events(a) /\ r \in Seq(OfferedEvents)
  BY <1>1, ReadableRead
<1>4. traces' = Append(traces, a) /\ consoleMessages' = messages /\ actions' = records
  BY <1>1, <1>3 DEF ParseTrace
<1>5. traces' \in Seq(OfferedTraces) /\ ReadOf(traces') = all \o r
  <2>1. PICK s, m : s = traces /\ m = Append(s, a)
    OBVIOUS
  <2>2. s \in Seq(OfferedTraces)
    BY <1>2, <2>1
  <2>3. m \in Seq(OfferedTraces)
    BY <2>1, <2>2
  <2>4. ReadOf(m) = ReadOf(s) \o Readable(a)
    BY <2>1, <2>2, ReadOfMore
  <2>5. traces' = m
    BY <1>4, <2>1
  <2>6. ReadOf(s) = all
    BY <1>1, <2>1
  <2>7. ReadOf(m) = all \o r
    BY <1>1, <2>4, <2>6
  <2> QED BY <2>3, <2>5, <2>7
<1>6. /\ all \o r \in Seq(OfferedEvents) /\ ToSet(all \o r) = ToSet(all) \cup ToSet(r)
      /\ Among(all \o r, SignalEvents) = Among(all, SignalEvents) \o Among(r, SignalEvents)
  <2>1. all \in Seq(OfferedEvents) /\ r \in Seq(OfferedEvents)
    BY <1>2, <1>3
  <2>2. all \o r \in Seq(OfferedEvents)
    BY <2>1
  <2>3. ToSet(all \o r) = ToSet(all) \cup ToSet(r)
    BY <2>1, Joined
  <2>4. Among(all \o r, SignalEvents) = Among(all, SignalEvents) \o Among(r, SignalEvents)
    BY <2>1, AmongBoth
  <2> QED BY <2>2, <2>3, <2>4
<1>7. KeepsFirst(Messages, messages, Among(all \o r, SignalEvents))
  <2>1. clock \in Clocks
    BY <1>1, AnchorType
  <2>2. Among(all, SignalEvents) \in Seq(OfferedEvents)
    BY <1>2, AmongType
  <2> QED BY <1>1, <1>2, <1>3, <1>6, <2>1, <2>2, TraceKeepsFirst
<1>8. /\ records \in Seq(ActionRecords)
      /\ HasFailed(actions) \/ (ToSet(r) \cap FailureEvents # {}) => HasFailed(records)
  BY <1>1, <1>2, <1>3, TraceKeepsFailure
<1>9. ToSet(all \o r) \cap FailureEvents # {} => HasFailed(records)
  BY <1>2, <1>6, <1>8
<1>10. TakenFrom(ReadOf(traces'), consoleMessages', actions')
  BY <1>4, <1>5, <1>6, <1>7, <1>8, <1>9 DEF TakenFrom
<1> QED BY <1>5, <1>10 DEF TraceInv

\* What the report then says.
LEMMA SignalTold ==
  ASSUME TraceInv, Ordered(instances)
  PROVE  SignalSurvives
<1>1. PICK all, could, kept :
        /\ all = ReadOf(traces) /\ could = Among(all, SignalEvents)
        /\ kept = Among(consoleMessages, High(Messages))
  OBVIOUS
<1>2. /\ all \in Seq(OfferedEvents) /\ consoleMessages \in Seq(Messages)
      /\ Len(consoleMessages) <= ConsoleCap
      /\ Len(kept) = (IF Len(could) < ConsoleCap THEN Len(could) ELSE ConsoleCap)
      /\ \A n \in 1 .. Len(kept) : kept[n].type = could[n].text
      /\ actions \in Seq(ActionRecords)
      /\ ToSet(all) \cap FailureEvents # {} => HasFailed(actions)
  BY <1>1 DEF TraceInv, TakenFrom, KeepsFirst
<1>3. WhatCouldBeRead = all
  BY <1>1 DEF WhatCouldBeRead, ReadOf
<1>4. ToSet(all) \subseteq OfferedEvents /\ ToSet(consoleMessages) \subseteq Messages
  BY <1>2, ListOfItsOwn
<1>5. could = Among(all, {e \in ToSet(all) :
                            e.kind = "console" /\ e.text \in {"warning", "error", "pageerror"}})
  <2>1. PICK A : A = {e \in ToSet(all) :
                        e.kind = "console" /\ e.text \in {"warning", "error", "pageerror"}}
    OBVIOUS
  <2>2. \A e \in ToSet(all) : e \in A <=> e \in SignalEvents
    BY <1>4, <2>1 DEF SignalEvents
  <2>3. Among(all, A) = Among(all, SignalEvents)
    BY <1>2, <2>2, AmongSame
  <2> QED BY <1>1, <2>1, <2>3
<1>6. kept = Among(consoleMessages, {m \in ToSet(consoleMessages) : IsHighSignalConsoleEntry(m)})
  <2>1. PICK A : A = {m \in ToSet(consoleMessages) : IsHighSignalConsoleEntry(m)}
    OBVIOUS
  <2>2. \A m \in ToSet(consoleMessages) : m \in A <=> m \in High(Messages)
    BY <1>4, <2>1 DEF High
  <2>3. Among(consoleMessages, A) = Among(consoleMessages, High(Messages))
    BY <1>2, <2>2, AmongSame
  <2> QED BY <1>1, <2>1, <2>3
<1>7. DOMAIN kept = 1 .. Len(kept)
  <2>1. kept \in Seq(Messages)
    BY <1>1, <1>2, AmongType
  <2> QED BY <2>1
<1>8. (\E e \in ToSet(all) : e.kind = "after" /\ e.text # "none")
        => FindFailingAction.error # "none"
  <2> SUFFICES ASSUME NEW e \in ToSet(all), e.kind = "after", e.text # "none"
               PROVE  FindFailingAction.error # "none"
    OBVIOUS
  <2>1. e \in FailureEvents
    BY <1>4 DEF FailureEvents
  <2>2. HasFailed(actions)
    BY <1>2, <2>1
  <2> QED BY <1>2, <2>2, FailingActionFound
<1>9. Len(FindFailingAction.log) <= LogCap
  BY <1>2, FailingActionFound
<1>10. PICK timeline : timeline = Timeline
  OBVIOUS
<1>11. /\ Timely(timeline) /\ DOMAIN timeline = 1 .. Len(timeline)
       /\ {e \in ToSet(timeline) : e.kind = "network"} =
            {TimelineEntry("network", i.offset, i.number) :
               i \in {j \in instances : j.offset # NoOffset}}
  BY <1>2, <1>10, TimelineWhat
<1>12. \A m, n \in DOMAIN timeline : m < n => timeline[m].offset <= timeline[n].offset
  BY <1>11 DEF Timely
<1> QED BY <1>2, <1>3, <1>5, <1>6, <1>7, <1>8, <1>9, <1>10, <1>11, <1>12 DEF SignalSurvives

\* What the report says of the traces of an attempt, for any traces, whatever of them is
\* damaged, any requests and any limits: the first warnings and errors are kept in their
\* order, a failure is told, and the timeline runs forward with every request that has a
\* time.
THEOREM AttemptSignalSurvives == TraceSpec => []SignalSurvives
<1>1. BuilderInit /\ LifecycleInit /\ TraceInit => BuilderInv /\ ContentInv /\ TraceInv
  BY InvInit, ContentInit, TraceInvInit
<1>2. BuilderInv /\ ContentInv /\ TraceInv
        /\ [\/ BuilderNext /\ UNCHANGED <<lifecycleVars, traceVars>>
            \/ LifecycleNext /\ UNCHANGED traceVars
            \/ TraceNext]_<<builderVars, lifecycleVars, traceVars>>
      => BuilderInv' /\ ContentInv' /\ TraceInv'
  <2> SUFFICES ASSUME BuilderInv, ContentInv, TraceInv,
                      [\/ BuilderNext /\ UNCHANGED <<lifecycleVars, traceVars>>
                       \/ LifecycleNext /\ UNCHANGED traceVars
                       \/ TraceNext]_<<builderVars, lifecycleVars, traceVars>>
               PROVE  BuilderInv' /\ ContentInv' /\ TraceInv'
    OBVIOUS
  <2>1. [BuilderNext]_builderVars
    BY DEF LifecycleNext, TraceNext
  <2>2. CASE UNCHANGED traceVars
    <3>1. traces' = traces /\ consoleMessages' = consoleMessages /\ actions' = actions
      BY <2>2 DEF traceVars
    <3>2. TraceInv'
      BY <3>1 DEF TraceInv
    <3> QED BY <2>1, <3>2, InvStep, ContentStep
  <2>3. CASE TraceNext
    <3>1. PICK a \in OfferedTraces : ParseTrace(a)
      BY <2>3 DEF TraceNext
    <3>2. TraceInv'
      BY <3>1, TraceInvStep
    <3> QED BY <2>1, <3>2, InvStep, ContentStep
  <2>4. UNCHANGED traceVars \/ TraceNext
    OBVIOUS
  <2> QED BY <2>2, <2>3, <2>4
<1>3. BuilderInv /\ ContentInv /\ TraceInv => SignalSurvives
  BY InstancesOrdered, SignalTold
<1> QED BY <1>1, <1>2, <1>3, PTL DEF TraceSpec
=============================================================================

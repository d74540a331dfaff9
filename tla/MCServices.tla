----------------------------- MODULE MCServices -----------------------------
\* Small instances of what talks to remote services: NotificationClient and Release.
\* They share nothing, nor do notifications and the apps' requests share anything of the
\* provider, so a behaviour has one of the three.
EXTENDS NotificationClient, Release

CONSTANTS p1, p2, run1, run2, a1, a2, e1, e2, e3, r1, r2, t0, t1, t2

\* One chunk, and the same in another order, two chunks of which the first is like it, or
\* nobody.
MCLists ==
  [e \in {e1, e2, e3} |->
     {<<r1, r2>>} \cup CASE e = e1 -> {<<r2, r1>>}
                        [] e = e2 -> {<<r1, r2, r1>>}
                        [] e = e3 -> {<<>>}]
MCWorkplace == [e \in {e1, e2, e3} |-> "w1"]

MCOperations ==
  [a \in {a1, a2} |->
     {"append"} \cup IF a = a1 THEN {"cancel", "sign"} ELSE {"preferences", "workplace"}]
MCTokenOf == [a \in {a1, a2} |-> IF a = a1 THEN t1 ELSE t2]

MCSymmetry == Permutations(Workers) \cup Permutations(Variables)

EventAtRest(e) == e \notin expired /\ lists[e] = {}
JobsAtRest == \A e \in Events : EventAtRest(e)
OneEvent == \A e, f \in Events : EventAtRest(e) \/ EventAtRest(f) \/ e = f
AppsAtRest ==
  /\ contended = {} /\ appended = {} /\ tokens = OldTokens
  /\ \A a \in Apps : calls[a].at = "idle"
  /\ \A f \in flying : f.op = "trigger"

ClientAtRest == JobsAtRest /\ AppsAtRest
ReleaseAtRest == commits = 0 /\ \A r \in ReleaseRuns : runs[r].at = "waiting"

MCInit == Init /\ ReleaseInit
MCNext ==
  \/ ReleaseAtRest /\ Next /\ (JobsAtRest' \/ AppsAtRest') /\ OneEvent' /\ UNCHANGED releaseVars
  \/ ClientAtRest /\ ReleaseNext /\ UNCHANGED vars
MCSpec == MCInit /\ [][MCNext]_<<vars, releaseVars>>
=============================================================================

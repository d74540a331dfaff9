------------------------ MODULE NotificationDelivery ------------------------
(***************************************************************************)
(* What a notification job promises its recipients, without queues, chunks,  *)
(* retries or clocks: they are notified in the order of the request, each of *)
(* them at most once, and a job that reports success has notified them all.  *)
(* A job that was dropped or gave up may still have notified some, and a      *)
(* request it lost track of may reach the provider after that.               *)
(***************************************************************************)
EXTENDS Naturals

CONSTANT Positions   \* recipients are named by their place in the request

VARIABLES
  size,       \* recipients of the request
  notified,   \* how often each recipient has been notified
  outcome     \* "pending" until the job is settled

delivery == <<size, notified, outcome>>

Dropped == {"dryRun", "expired", "clientError", "exhausted"}

Init ==
  /\ size \in {0} \cup Positions
  /\ notified = [i \in Positions |-> 0]
  /\ outcome = "pending"

\* The recipients up to the first one that has not been notified are followed
\* by one or more others.
Notify ==
  \E first, last \in Positions :
    /\ first <= last /\ last <= size
    /\ \A i \in Positions : notified[i] = IF i < first THEN 1 ELSE 0
    /\ notified' = [i \in Positions |-> IF i <= last THEN 1 ELSE 0]
    /\ UNCHANGED <<size, outcome>>

Succeed ==
  /\ outcome = "pending"
  /\ \A i \in Positions : i <= size => notified[i] = 1
  /\ outcome' = "sent"
  /\ UNCHANGED <<size, notified>>

Drop ==
  /\ outcome = "pending"
  /\ outcome' \in Dropped
  /\ UNCHANGED <<size, notified>>

Next == Notify \/ Succeed \/ Drop

Spec == Init /\ [][Next]_delivery
=============================================================================

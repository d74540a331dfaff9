---------------------- MODULE MCTriggerNotificationJob ----------------------
(* Small instances of TriggerNotificationJob for TLC. *)
EXTENDS TriggerNotificationJob

\* A request is broken, or expires soon enough to meet retries.
MCExpiryTimes == {1}
=============================================================================

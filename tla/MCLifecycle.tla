---------------------------- MODULE MCLifecycle ----------------------------
(* A daemon whose notifier carries one alert per report.                   *)
EXTENDS Lifecycle

OnePriority == {1}
OneTarget == {1}
=============================================================================

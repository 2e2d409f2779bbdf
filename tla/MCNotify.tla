------------------------------ MODULE MCNotify ------------------------------
(* A notifier that carries two alerts per report.                          *)
EXTENDS Notify

WarningAndHigh == {1, 2}
TwoTargets == {1, 2}
OneTarget == {1}
=============================================================================

---------------------------- MODULE Publication ----------------------------
(***************************************************************************)
(* What the API promises its readers about /api/state: attempts are        *)
(* numbered upwards, a successful attempt replaces the evidence, and a     *)
(* failed attempt only reports itself, keeping the evidence and the time   *)
(* of the last success.                                                    *)
(***************************************************************************)
EXTENDS Naturals

VARIABLES evidence, lastSuccess, attempt, outcome

vars == <<evidence, lastSuccess, attempt, outcome>>

Init ==
  /\ lastSuccess = 0
  /\ attempt = 0
  /\ outcome = "initializing"

Succeed ==
  /\ attempt' > attempt
  /\ outcome' = "success"
  /\ lastSuccess' = attempt'

Fail ==
  /\ attempt' > attempt
  /\ outcome' = "failed"
  /\ UNCHANGED <<evidence, lastSuccess>>

Next == Succeed \/ Fail

Spec == Init /\ [][Next]_vars
=============================================================================

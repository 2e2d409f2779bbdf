----------------------------- MODULE AlertQueue -----------------------------
(***************************************************************************)
(* What the notifier promises about a cycle report: of everything raised   *)
(* since the last report was taken, it carries the first Capacity alerts   *)
(* in report order and the number of those it leaves out.                  *)
(***************************************************************************)
EXTENDS Integers, FiniteSets

CONSTANTS
  Alerts,            \* what may be raised
  Capacity,          \* alerts a report carries
  Before(_, _)       \* report order

VARIABLES offered, reported

vars == <<offered, reported>>

\* The Capacity first elements of a set of alerts, or all of them.
Best(S) ==
  CHOOSE T \in SUBSET S :
    /\ T = S \/ Cardinality(T) = Capacity
    /\ Cardinality(T) <= Capacity
    /\ \A a \in T, b \in S \ T : Before(a, b)

Init == offered = {} /\ reported = [items |-> {}, omitted |-> 0]

Raise(alert) ==
  /\ offered' = offered \cup {alert}
  /\ UNCHANGED reported

Report ==
  /\ offered # {}
  /\ reported' = [items |-> Best(offered),
                  omitted |-> Cardinality(offered) - Cardinality(Best(offered))]
  /\ offered' = {}

Next == (\E alert \in Alerts : Raise(alert)) \/ Report

Spec == Init /\ [][Next]_vars
=============================================================================

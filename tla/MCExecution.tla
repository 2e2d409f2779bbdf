---------------------------- MODULE MCExecution ----------------------------
(* What checks run on: either a pool of few workers, for every portfolio   *)
(* up to a small size, or one call of the retry loop (the pool then has    *)
(* nothing to do).  Calls are made by callers with and without a deadline; *)
(* headers ask for no delay, for one within the bound, for one beyond it,  *)
(* and for one too long for a duration: a second is 8 units, and a         *)
(* duration has 9 bits.                                                    *)
EXTENDS WorkPool, HTTPRetry

Header(form, value) == [form |-> form, value |-> value]

AllPolicies == {"transient", "status only"}
SomeDeadlines == {NoDeadline, 6, 30, 90}
SomeTimes == {0, 20}

\* 32 seconds overflow to a negative delay, 65 to one of a second, and 300 are no integer.
SomeHeaders ==
  {NoHeader} \cup {Header("seconds", s) : s \in {-1, 1, 5, 6, 32, 65, 300}}
             \cup {Header("date", ahead) : ahead \in {-8, 16, 300}}

OfPool == count > 0

ExecutionInit ==
  /\ Init
  /\ RetryInit
  /\ OfPool => policy = "transient" /\ deadline = NoDeadline

ExecutionNext ==
  \/ OfPool /\ Step /\ UNCHANGED retryVars
  \/ ~OfPool /\ RetryNext /\ UNCHANGED vars

ExecutionSpec ==
  ExecutionInit /\ [][ExecutionNext]_<<vars, retryVars>> /\ WF_vars(OfPool /\ Step)
=============================================================================

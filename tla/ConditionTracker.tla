-------------------------- MODULE ConditionTracker --------------------------
(***************************************************************************)
(* ConditionTracker (types.go): an evaluator raises findings in a fixed    *)
(* order; the worst status and the first finding of it make the condition  *)
(* of the check.                                                           *)
(***************************************************************************)
EXTENDS Integers, Sequences

Finding(when, status, code) == [when |-> when, status |-> status, code |-> code]

Raised(findings, status) ==
  {i \in DOMAIN findings : findings[i].when /\ findings[i].status = status}

PromotedStatus(findings) ==
  IF Raised(findings, "failed") # {} THEN "failed"
  ELSE IF Raised(findings, "warning") # {} THEN "warning" ELSE "ok"

PromotedCode(findings) ==
  LET raised == Raised(findings, PromotedStatus(findings))
      first == CHOOSE i \in raised : \A j \in raised : i <= j
  IN  IF raised = {} THEN "success" ELSE findings[first].code
=============================================================================

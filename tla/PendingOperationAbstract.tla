----------------------- MODULE PendingOperationAbstract -----------------------
(***************************************************************************)
(* What a PendingOperation promises its users (spec: "a future-like       *)
(* object carrying success/error completion"): it completes once, with    *)
(* success or with an error, runs the callback of that outcome and then   *)
(* the finished callback, and its outcome never changes afterwards.       *)
(***************************************************************************)
EXTENDS Sequences

VARIABLES
  outcome,  \* "pending", "success" or "error"
  fired     \* the callbacks run so far, in order

Outcomes == {"success", "error"}

Init == outcome = "pending" /\ fired = <<>>

Complete(o) ==
  /\ outcome = "pending"
  /\ outcome' = o
  /\ fired' = <<o, "finished">>

Next == \E o \in Outcomes : Complete(o)

Spec == Init /\ [][Next]_<<outcome, fired>>
=============================================================================

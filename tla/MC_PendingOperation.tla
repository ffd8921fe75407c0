------------------------- MODULE MC_PendingOperation -------------------------
(* Any subclass calling finishWithError / finishWithSuccess up to MaxCalls  *)
(* times, with messages from Messages.                                     *)
EXTENDS PendingOperation, Naturals

CONSTANTS
  Messages,  \* error messages callers pass ("" is the empty string)
  MaxCalls   \* finish calls one operation receives

VARIABLE calls

vars == <<opVars, calls>>

Init == InitOperation /\ calls = 0

Next ==
  /\ calls < MaxCalls
  /\ calls' = calls + 1
  /\ \/ \E m \in Messages : finishWithError(m)
     \/ finishWithSuccess

Spec == Init /\ [][Next]_vars
=============================================================================

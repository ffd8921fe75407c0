------------------------------ MODULE ByteQueue ------------------------------
(***************************************************************************)
(* A FIFO of bytes, as spec 4.1 describes each direction of the pipe:     *)
(* bytes are put at the back and taken from the front, never lost,         *)
(* reordered or duplicated.  taken records every byte taken, in order.     *)
(***************************************************************************)
EXTENDS Naturals, Sequences

VARIABLES
  q,      \* bytes put and not yet taken
  taken   \* bytes taken so far

Init == q = <<>> /\ taken = <<>>

Put(bs) == q' = q \o bs /\ UNCHANGED taken

Take(k) ==
  /\ 0 < k /\ k <= Len(q)
  /\ taken' = taken \o SubSeq(q, 1, k)
  /\ q' = SubSeq(q, k + 1, Len(q))

\* Any step that changes the queue puts some bytes or takes some.
Next ==
  \/ \E n \in 1 .. Len(q') : Put(SubSeq(q', Len(q') - n + 1, Len(q')))
  \/ \E k \in 1 .. Len(q) : Take(k)

Spec == Init /\ [][Next]_<<q, taken>>
=============================================================================

--------------------------------- MODULE Fifo ---------------------------------
(***************************************************************************)
(* What a channel between two clock domains promises: words come out in    *)
(* the order they went in, none lost and none twice, and at most Depth are *)
(* inside.  The two sides may act in one instant.                          *)
(***************************************************************************)
EXTENDS Naturals, Sequences

CONSTANTS Data, Depth

VARIABLES
  q,       \* the words inside
  inp,     \* the last transfer of the sender's client
  out      \* the last transfer of the receiver's client

\* A transfer is told from the one before it by a bit that alternates.
Transfers == [bit : BOOLEAN, dat : Data]
Another(t, d) == [bit |-> ~t.bit, dat |-> d]

Put(d) ==
  Len(q) < Depth /\ q' = Append(q, d) /\ inp' = Another(inp, d) /\ UNCHANGED out

Get == q # <<>> /\ q' = Tail(q) /\ out' = Another(out, Head(q)) /\ UNCHANGED inp

PutGet(d) ==
  /\ q # <<>> /\ q' = Append(Tail(q), d)
  /\ inp' = Another(inp, d) /\ out' = Another(out, Head(q))

Init == q = <<>> /\ inp \in Transfers /\ out \in Transfers
Next == Get \/ \E d \in Data : Put(d) \/ PutGet(d)
Spec == Init /\ [][Next]_<<q, inp, out>>
=============================================================================

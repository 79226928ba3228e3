-------------------------------- MODULE Fifo --------------------------------
(* What the global queue promises to Dispatch: a FIFO that any thread may  *)
(* append to and take from in one step.                                    *)
EXTENDS Sequences

CONSTANT Item

VARIABLE content

Init == content \in Seq(Item)

Push(x) == content' = Append(content, x)

Pop == content # <<>> /\ content' = Tail(content)

Next == Pop \/ \E x \in Item: Push(x)

Spec == Init /\ [][Next]_content
=============================================================================

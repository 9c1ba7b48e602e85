------------------------------ MODULE ByteQueue ------------------------------
(***************************************************************************)
(* What a connection's send queue promises to the code that writes to it:  *)
(* bytes leave in the order they were asked for, and after the first byte  *)
(* that was refused none is taken any more, so that the peer never sees a  *)
(* gap.  Bytes are numbered in the order sendq_add() is given them.        *)
(***************************************************************************)
EXTENDS Integers, Sequences

CONSTANT Lengths  \* lengths of what is written

VARIABLES
    asked,   \* how many bytes the queue was asked to send
    queue,   \* the bytes it holds
    wire,    \* the bytes the kernel was given
    shut     \* it takes no more

vars == <<asked, queue, wire, shut>>

\* The bytes n+1 to m.
Bytes(n, m) == [i \in 1..(m - n) |-> n + i]

Put(k) ==
    /\ ~shut
    /\ asked' = asked + k
    /\ queue' = queue \o Bytes(asked, asked + k)
    /\ UNCHANGED <<wire, shut>>

\* A request is refused, because the queue is full or was shut before.
Refuse(k) ==
    /\ asked' = asked + k
    /\ shut' = TRUE
    /\ UNCHANGED <<queue, wire>>

Send(k) ==
    /\ k <= Len(queue)
    /\ wire' = wire \o SubSeq(queue, 1, k)
    /\ queue' = SubSeq(queue, k + 1, Len(queue))
    /\ shut' \in {shut, TRUE}
    /\ UNCHANGED asked

\* The connection is closed: what it holds is lost.
Drop ==
    /\ queue' = <<>> /\ shut' = TRUE
    /\ UNCHANGED <<asked, wire>>

Init == asked = 0 /\ queue = <<>> /\ wire = <<>> /\ shut = FALSE

Next ==
    \/ \E k \in Lengths : Put(k) \/ Refuse(k)
    \/ \E k \in 0..Len(queue) : Send(k)
    \/ Drop

Spec == Init /\ [][Next]_vars

\* The peer gets the bytes sendq_add() was given, from the first on, in order
\* and without a gap, and the queue holds the ones that follow.
NoGap ==
    /\ \A i \in 1..Len(wire) : wire[i] = i
    /\ \A i \in 1..Len(queue) : queue[i] = Len(wire) + i
=============================================================================

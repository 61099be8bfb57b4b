------------------------------- MODULE TokenLog -------------------------------
(***************************************************************************)
(* What a token channel promises: the two friends share one log of         *)
(* operations.  They take turns; the side whose turn it is catches up with *)
(* the log and may extend it, and then it is the other side's turn.        *)
(***************************************************************************)
EXTENDS Naturals, Sequences

CONSTANTS Node, Entry

VARIABLES
    log,   \* the operations on which the channel was built
    seen,  \* seen[n]: how many of them n has applied
    turn   \* the side that will extend the log next

Init ==
    /\ log = <<>>
    /\ seen = [n \in Node |-> 0]
    /\ turn \in Node

(* The side whose turn it is applies what the other side wrote. *)
Learn(n) ==
    /\ turn = n
    /\ seen' = [seen EXCEPT ![n] = Len(log)]
    /\ UNCHANGED <<log, turn>>

(* It writes, having learned everything, and passes the turn. *)
Write(n) ==
    /\ turn = n
    /\ log' \in Seq(Entry)
    /\ Len(log) <= Len(log') /\ log = SubSeq(log', 1, Len(log))
    /\ seen' = [seen EXCEPT ![n] = Len(log')]
    /\ turn' \in Node \ {n}

Next == \E n \in Node : Learn(n) \/ Write(n)

Spec == Init /\ [][Next]_<<log, seen, turn>>
===============================================================================

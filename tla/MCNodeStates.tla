---------------------------- MODULE MCNodeStates ----------------------------
(***************************************************************************)
(* Instances of NodeStates for TLC: clusters of two nodes with two kinds   *)
(* of trouble at a time.                                                   *)
(***************************************************************************)
EXTENDS NodeStates, TLC

Faults(s, c, r, f, o) ==
    "stop" :> s @@ "cut" :> c @@ "restart" :> r @@ "refused" :> f @@ "overlap" :> o

CONSTANTS n1, n2
Both(b) == [alive |-> {n1, n2}, budget |-> b]
SecondJoins(b) == [alive |-> {n1}, budget |-> b]

Trouble == {Both(Faults(1, 0, 0, 0, 1)), Both(Faults(2, 0, 0, 0, 0)), Both(Faults(0, 1, 0, 0, 2)),
            Both(Faults(0, 0, 1, 1, 1)), SecondJoins(Faults(0, 1, 1, 0, 0))}
=============================================================================

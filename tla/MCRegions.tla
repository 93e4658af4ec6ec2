----------------------------- MODULE MCRegions -----------------------------
(***************************************************************************)
(* Instances of Regions for TLC: a region of one DC and one of two DCs.    *)
(***************************************************************************)
EXTENDS Regions, TLC

TwoRegions == (1 :> {11} @@ 2 :> {21, 22})

\* The regions that run, and the fault that may happen once.
Start(running, fault) ==
    [running |-> running, budget |-> [k \in FaultKinds |-> IF k = fault THEN 1 ELSE 0]]

\* Both regions are new, or one of them joins the other.
AnyStart ==
    {Start({}, k) : k \in {"restart", "lost", "refused"}}
    \cup {Start({1}, k) : k \in {"lost", "refused"}}
    \cup {Start({2}, k) : k \in FaultKinds}

\* A region joins another one, whose prober is restarted.
JoinWithRestart == {Start({1}, "restart")}
=============================================================================

----------------------------- MODULE MCPodsInit -----------------------------
(***************************************************************************)
(* Instances of PodsInit for TLC: first deployments and running clusters   *)
(* of one or two DCs that are resized meanwhile.                           *)
(***************************************************************************)
EXTENDS PodsInit, TLC

Faults(e, c, l, n, a) ==
    "edit" :> e @@ "crash" :> c @@ "lose" :> l @@ "loseNew" :> n @@ "abort" :> a

Sizes(a, b) == (1 :> a @@ 2 :> b)
Two == Sizes(2, 0)

DeployOrResize == {[spec |-> Two, deployed |-> FALSE, budget |-> Faults(1, 1, 0, 0, 1)],
                   [spec |-> Two, deployed |-> TRUE, budget |-> Faults(1, 0, 1, 0, 0)]}
OtherSizes == {<<Two, new>> : new \in {Sizes(1, 0), Sizes(3, 0), Sizes(2, 2)}}

\* The first of two DCs loses two nodes, while a pod is evicted.
ThreeAndOne == {[spec |-> Sizes(3, 1), deployed |-> TRUE, budget |-> Faults(1, 0, 1, 0, 0)]}
ThreeToOne == {<<Sizes(3, 1), Sizes(1, 1)>>}
=============================================================================

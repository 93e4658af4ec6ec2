----------------------------- MODULE MCScaling -----------------------------
(***************************************************************************)
(* Instances of Scaling for TLC: clusters of two DCs that start from some  *)
(* spec, each with the edits and the faults the question about it needs.   *)
(***************************************************************************)
EXTENDS Scaling, TLC

Faults(e, a, c, j, m, q, i, r) ==
    "edit" :> e @@ "alter" :> a @@ "crash" :> c @@ "jmx" :> j @@ "miss" :> m
    @@ "cql" :> q @@ "api" :> i @@ "restart" :> r

Start(s, b) == [spec |-> s, budget |-> b]

TwoByTwo == (1 :> 2 @@ 2 :> 2)
TwoAndOne == (1 :> 2 @@ 2 :> 1)
OneAndOne == (1 :> 1 @@ 2 :> 1)
OnlyFirst == (1 :> 2 @@ 2 :> 0)

\* The webhook keeps at least one DC.
Valid == {s \in Specs : DesiredDCs(s) # {}}
OnlyShrink == {e \in Valid \X Valid : e[1] # e[2] /\ \A d \in DCs : e[2][d] <= e[1][d]}

\* At least two pods stay, so that podDecommissioned has a quorum to ask.
Size(s) == Cardinality({p \in Pods : Ord(p) < s[DCof(p)]})
KeepTwo == {e \in OnlyShrink : Size(e[2]) >= 2}
\* Not TwoAndOne first, after which DC 1 may shrink while DC 2 still has a pod that
\* was decommissioned, and not OnlyFirst, after which DC 2 may be brought back: see
\* the README.
Shrink == KeepTwo \ ({TwoByTwo} \X {OnlyFirst, TwoAndOne})
\* A DC grows, shrinks or leaves; a DC is added.
Resize == {TwoAndOne} \X {TwoByTwo, OneAndOne, OnlyFirst}
AllEdits == Shrink \cup Resize \cup {<<OnlyFirst, TwoAndOne>>}

\* Two shrinking edits; a DC that grows, shrinks or leaves; a DC that is added,
\* and then grows or leaves, maybe before all of it is made.
Shrinking == Start(TwoByTwo, Faults(2, 1, 0, 1, 0, 1, 0, 1))
Resizing == Start(TwoAndOne, Faults(1, 1, 1, 0, 1, 0, 1, 1))
Adding == Start(OnlyFirst, Faults(2, 0, 1, 0, 0, 1, 1, 1))
AllStarts == {Shrinking, Resizing, Adding}

\* Two pods and one JMX request that fails.
NoQuorum == {Start(OneAndOne, Faults(1, 0, 0, 1, 0, 0, 0, 0))}
=============================================================================

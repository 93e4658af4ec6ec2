---------------------------- MODULE MCAdminAuth ----------------------------
(***************************************************************************)
(* Instances of AdminAuth for TLC: two role names and three passwords.     *)
(***************************************************************************)
EXTENDS AdminAuth, TLC

Faults(e, b, r, p, d) ==
    "edit" :> e @@ "early" :> b @@ "restart" :> r @@ "propagation" :> p
    @@ "down" :> d

Cred(r, p) == [role |-> r, password |-> p]

\* A new cluster, one on existing storage, and one that runs.
AllStarts == {"fresh", "storage", "running"}
Bases == "fresh" :> Cred("b", "p1") @@ "storage" :> Cred("b", "p2") @@ "running" :> Cred("a", "p1")

\* One change of the password, of the role, or of both, or to the default role.
OneChange == {e \in Creds \X Creds : e[1] = Cred("a", "p1") /\ e[2] # e[1]}

ChangeFaults == Faults(1, 0, 2, 1, 1)
=============================================================================

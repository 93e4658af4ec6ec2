----------------------------- MODULE MCRepairs -----------------------------
(***************************************************************************)
(* Instances of Repairs for TLC: one or two DCs and one user keyspace.     *)
(***************************************************************************)
EXTENDS Repairs, TLC

MCBuiltIn == <<Auth>>

Sched(k, c) == [ks |-> k, cfg |-> c]

\* A new DC, another schedule, options of the user's own, no schedules at all.
One == [dcs |-> <<"dc1">>, replicas |-> "dc1" :> 2 @@ "dc2" :> 0, sysKs |-> <<>>,
        sysDCs |-> NoKeyspace, repairs |-> <<Sched("app", 1)>>, enabled |-> TRUE]
Two == [dcs |-> <<"dc1", "dc2">>, replicas |-> "dc1" :> 4 @@ "dc2" :> 1, sysKs |-> <<"app">>,
        sysDCs |-> "dc1" :> 2, repairs |-> <<Sched("app", 2), Sched(Auth, 1)>>, enabled |-> TRUE]
Off == [One EXCEPT !.enabled = FALSE]
MCSpecs == {One, Two, Off}
MCInitSpecs == {One}

MCInitRepl == Auth :> ("dc1" :> 1) @@ "app" :> ("dc1" :> 1) @@ ReaperKs :> NoKeyspace

MCFaults == "edit" :> 1 @@ "user" :> 1 @@ "fault" :> 1 @@ "stuck" :> 1
=============================================================================

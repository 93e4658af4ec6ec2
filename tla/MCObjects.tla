----------------------------- MODULE MCObjects -----------------------------
(* Small instances of module Objects.                                      *)
EXTENDS Objects

Base == [labels |-> 0, images |-> [c \in Components |-> 0], agent |-> "", config |-> 1,
         monitor |-> "off", on |-> {}]
Of(specs, f, d, t, m) ==
    [specs |-> specs,
     budget |-> [b \in Charges |-> CASE b = "fault" -> f [] b = "delete" -> d
                                     [] b = "tamper" -> t [] OTHER -> m]]

Monitored == [Base EXCEPT !.on = {"monitoring", "persistence"}, !.monitor = "own"]
Exposed == [Base EXCEPT !.on = {"policies", "hostPort", "ingress", "regions", "ingressRules"}]

\* The configuration and the agent change and the service monitors move.
Changes == <<Monitored, [Monitored EXCEPT !.config = 2, !.agent = "datastax", !.monitor = "other"]>>

\* The CassandraCluster is labelled, and the labels are removed again.
Labels == <<Monitored, [Monitored EXCEPT !.labels = 1, !.monitor = "other"],
            [Monitored EXCEPT !.monitor = "other"]>>

\* The configuration changes.
Reconfigured == <<Base, [Base EXCEPT !.config = 2]>>

\* A change that the webhook refuses.
Refused == <<Monitored, [Monitored EXCEPT !.on = {"monitoring"}]>>

\* Policies are enabled with everything, and disabled.
Guarded == <<Exposed, [Exposed EXCEPT !.on = @ \cup {"extra", "monitoring"}],
             [Exposed EXCEPT !.on = @ \ {"policies"}, !.monitor = "missing"]>>

\* With edits, with calls that fail, with pods that move (as the configuration changes),
\* with an object deleted, and with one changed by someone else.
MCScenarios == {Of(Changes, 1, 0, 0, 0), Of(Labels, 0, 0, 0, 0), Of(Refused, 0, 0, 0, 0), Of(Guarded, 0, 0, 0, 0),
                Of(<<Exposed, Guarded[3]>>, 1, 0, 0, 0), Of(<<Exposed>>, 0, 0, 0, 1),
                Of(Reconfigured, 0, 0, 0, 1),
                Of(<<Monitored>>, 0, 1, 0, 0), Of(<<Monitored>>, 0, 0, 1, 0)}
=============================================================================

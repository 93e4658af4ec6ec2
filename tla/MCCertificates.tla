--------------------------- MODULE MCCertificates ---------------------------
(* Small instances of module Certificates.                                 *)
EXTENDS Certificates

\* The steps of update-tls-secret.md for a single region.
MCStages == <<[main |-> 1, extra |-> {}], [main |-> 1, extra |-> {2}],
              [main |-> 2, extra |-> {1}], [main |-> 2, extra |-> {}]>>

Of(sides, nc, nn, has, f, d, e) ==
    [encrypted |-> sides, namesCA |-> nc, namesNode |-> nn, has |-> has,
     budget |-> [b \in Charges |-> CASE b = "fault" -> f [] b = "delete" -> d [] OTHER -> e]]

\* A CA of the user's for either kind of traffic or both, nothing of the user's, a node
\* secret of the user's, and secrets that are named and missing.
MCScenarios ==
    {Of({"client"}, TRUE, FALSE, {"ca"}, 1, 0, 0),
     Of({"server"}, TRUE, FALSE, {"ca"}, 1, 1, 0),
     Of(Sides, FALSE, FALSE, {}, 1, 0, 0),
     Of({"client"}, FALSE, TRUE, {"node"}, 1, 0, 1),
     Of({"client"}, TRUE, FALSE, {}, 1, 1, 0),
     Of({"server"}, FALSE, TRUE, {}, 1, 0, 0)}
=============================================================================

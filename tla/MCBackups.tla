----------------------------- MODULE MCBackups -----------------------------
(* Instances of Backups for TLC: two backups, whose tags end alike or not, *)
(* and a restore of the first one.                                         *)
EXTENDS Backups, TLC

Backup(t, o, p) == [backup |-> "", tag |-> t, opts |-> o, provider |-> p, duration |-> TRUE]

MCSpecsOf ==
    [o \in {"b1", "b2", "r1"} |->
        CASE o = "b1" -> {Backup("", 0, "s3"), Backup("", 2, "gcp"), Backup("", 2, "other")}
          [] o = "b2" -> {Backup("x-b1", 10, "s3")}
          [] o = "r1" -> {[Backup("", 3, "") EXCEPT !.backup = "b1"],
                          Backup("b1", 0, "gcp"), Backup("b1", 2, "gcp")}]
MCMaxOps == [backup |-> 5, restore |-> 3]
MCSecrets == {{"awsregion", "awsendpoint", "gcp"}, {"awsendpoint"}}

Allow(b1, b2, r1, e, f) == [b1 |-> b1, b2 |-> b2, r1 |-> r1, edit |-> e, env |-> 1, fault |-> f]
Start(b, n, a) == [budget |-> b, newestFirst |-> n, alike |-> a]
Alike == {<<"b1", "x-b1">>}

\* Two backups; one that is created twice; a restore of a backup; a restore that is
\* created twice.
MCScenarios ==
    {Start(Allow(1, 1, 0, 1, 0), TRUE, {}), Start(Allow(1, 1, 0, 1, 0), TRUE, Alike),
     Start(Allow(1, 1, 0, 0, 1), TRUE, {}), Start(Allow(1, 1, 0, 0, 1), TRUE, Alike),
     Start(Allow(2, 0, 0, 0, 1), TRUE, {}),
     Start(Allow(1, 0, 1, 0, 0), TRUE, {}), Start(Allow(1, 0, 1, 0, 0), FALSE, {}),
     Start(Allow(0, 0, 2, 1, 1), TRUE, {}), Start(Allow(0, 0, 2, 1, 1), FALSE, {})}
=============================================================================

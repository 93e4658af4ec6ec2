---------------------------- MODULE Certificates ----------------------------
(***************************************************************************)
(* TLS (controllers/cassandra_tls.go, controllers/certs).  For the traffic *)
(* between nodes and for that with clients the operator keeps a secret     *)
(* with the nodes' certificate.  It generates it from a CA secret, which   *)
(* it generates too unless the user provides one, and once more when the   *)
(* CA secret's data differ from the checksum it has noted there.  What the *)
(* nodes' secret holds goes into the statefulset as a checksum, so that    *)
(* the pods restart and load it.                                           *)
(*                                                                         *)
(* One DC stands for every one.  Keys are numbers; a certificate is known  *)
(* by a serial number, the key that signed it and the keys it is           *)
(* delivered with as trusted.  The secrets' field names and passwords are  *)
(* left out.                                                               *)
(***************************************************************************)
EXTENDS Integers, Sequences, FiniteSets

CONSTANTS
    Pods,        \* the Cassandra pods
    Clients,     \* the deployments that connect with the client certificate
    Stages,      \* the data a user gives the CA secrets, one after the other
    Scenarios    \* what a behaviour starts with: the kinds of traffic that are
                 \* encrypted, which secrets the spec names, which of those exist,
                 \* and the budget

Sides == {"server", "client"}
Names == {"own", "default"}   \* a secret the spec names, and the operator's own
Charges == {"fault", "delete", "edit"}
GeneratedKey == 3
Keys == Nat \ {GeneratedKey}

NoData == [main |-> 0, extra |-> {}]
NoCert == [serial |-> 0, signer |-> 0, trusts |-> {}]
NoCA == [data |-> NoData, sum |-> NoData]
NoSums == [s \in Sides |-> 0]
NoCerts == [s \in Sides |-> NoCert]
NoPod == [sums |-> NoSums, certs |-> NoCerts]
NoPass == [side |-> "server", name |-> "default", ca |-> NoCA, fresh |-> FALSE, sums |-> NoSums]

DataType == [main : Keys \cup {GeneratedKey}, extra : SUBSET Keys]
ScenarioType == [encrypted : SUBSET Sides, namesCA : BOOLEAN, namesNode : BOOLEAN,
                 has : SUBSET {"ca", "node"}, budget : [Charges -> Nat]]

ASSUME CertificatesAssumption ==
    /\ Stages \in Seq(DataType \ {NoData}) /\ Len(Stages) > 0
    /\ Scenarios # {} /\ Scenarios \subseteq ScenarioType

VARIABLES
    scenario,    \* what the behaviour started with
    stage,       \* how far the user has come with each CA secret
    ca,          \* CA secrets: their data, and the data the noted checksum is of
    before,      \* the CA secret of each kind as it was before its last write
    node,        \* node secrets: the certificate in each
    serial,      \* certificates made so far
    sts,         \* the checksums in the statefulset
    deployed,    \* clients whose deployment exists
    pods,        \* the checksums each pod was created with, and what it has loaded
    loaded,      \* what each client has loaded
    files,       \* the client certificate in the operator's directory
    pc, cur,     \* where the pass is, and what it has read
    budget       \* faults and edits that are left

userVars == <<scenario, stage>>
secretVars == <<ca, before, node, serial>>
workloadVars == <<sts, deployed>>
runVars == <<pods, loaded>>
passVars == <<pc, cur, files>>
vars == <<userVars, secretVars, workloadVars, runVars, passVars, budget>>

Encrypted == scenario.encrypted
Spend(b) == budget[b] > 0 /\ budget' = [budget EXCEPT ![b] = @ - 1]
Given == [serial |-> 1, signer |-> 1, trusts |-> {1}]

Init ==
    /\ scenario \in Scenarios /\ budget = scenario.budget
    /\ stage = [s \in Sides |-> 1]
    /\ ca = [s \in Sides |-> [n \in Names |->
                IF n = "own" /\ "ca" \in scenario.has
                THEN [data |-> Stages[1], sum |-> NoData] ELSE NoCA]]
    /\ before = [s \in Sides |-> NoCA]
    /\ node = [s \in Sides |-> [n \in Names |->
                IF n = "own" /\ "node" \in scenario.has THEN Given ELSE NoCert]]
    /\ serial = 1
    /\ sts = NoSums /\ deployed = {}
    /\ pods = [p \in Pods |-> NoPod] /\ loaded = [c \in Clients |-> NoCert]
    /\ files = NoCert
    /\ pc = "idle" /\ cur = NoPass

Exists(c) == c.data # NoData
Made(c) == c # NoCert
Up(p) == pods[p] # NoPod

-----------------------------------------------------------------------------
(* The pass.                                                               *)

\* getTLSSecret with allowDefaulting: a secret that is named and missing gives way to
\* the operator's own.
CAName(s) == IF scenario.namesCA /\ Exists(ca[s]["own"]) THEN "own" ELSE "default"
NodeName(s) == IF scenario.namesNode /\ Made(node[s]["own"]) THEN "own" ELSE "default"
NodeCert(s) == node[s][NodeName(s)]

Goto(l) == pc' = l
EndPass == pc' = "idle" /\ cur' = NoPass /\ files' = NoCert

\* A call fails, or the operator restarts.
Abort ==
    /\ pc # "idle" /\ Spend("fault") /\ EndPass
    /\ UNCHANGED <<userVars, secretVars, workloadVars, runVars>>

FirstSide == IF "server" \in Encrypted THEN "server" ELSE "client"

\* reconcileTLSSecrets.
Begin ==
    /\ pc = "idle" /\ Encrypted # {} /\ Goto("ca")
    /\ cur' = [NoPass EXCEPT !.side = FirstSide]
    /\ UNCHANGED <<userVars, secretVars, workloadVars, runVars, files, budget>>

genCASecret == [data |-> [main |-> GeneratedKey, extra |-> {}], sum |-> NoData]

\* handleCASecret, which is left out if the spec names the node's secret.
handleCASecret ==
    LET s == cur.side
        n == CAName(s)
    IN  /\ pc = "ca" /\ Goto("node") /\ cur' = [cur EXCEPT !.name = n]
        /\ IF ~scenario.namesNode /\ ~Exists(ca[s][n])
           THEN ca' = [ca EXCEPT ![s][n] = genCASecret] /\ before' = [before EXCEPT ![s] = ca[s][n]]
           ELSE UNCHANGED <<ca, before>>
        /\ UNCHANGED <<userVars, node, serial, workloadVars, runVars, files, budget>>

\* Mutant of genNodeSecret: only the CA that signs is trusted.
TrustSignerOnly(data, n) == [serial |-> n, signer |-> data.main, trusts |-> {data.main}]

\* GeneratePFXTruststore: every entry *.crt of the CA secret is trusted.
Truststore(data) == {data.main} \cup data.extra

\* genNodeSecret: signed by the main key.
genNodeSecret(data, n) ==
    [serial |-> n, signer |-> data.main, trusts |-> Truststore(data)]

\* The noted checksum is not that of the data.
Outdated(c) == c.sum # c.data

AfterSide ==
    IF cur.side = "server" /\ "client" \in Encrypted
    THEN Goto("ca") /\ cur' = [NoPass EXCEPT !.side = "client"]
    ELSE Goto(IF "client" \in Encrypted THEN "files" ELSE "read")
           /\ cur' = [NoPass EXCEPT !.side = FirstSide]

PutNode(s, n, data) ==
    /\ node' = [node EXCEPT ![s][n] = genNodeSecret(data, serial + 1)]
    /\ serial' = serial + 1

\* The CA secret as the cache has it: as it is, or as it was before it was last written.
ReadCA(s, n, c) ==
    \/ c = ca[s][n] /\ UNCHANGED budget
    \/ c = before[s] /\ Exists(c) /\ c # ca[s][n] /\ Spend("fault")

\* handleNodeSecret up to the update of the node's secret.
handleNodeSecret ==
    LET s == cur.side
        n == NodeName(s)
    IN  /\ pc = "node"
        /\ \E c \in {ca[s][cur.name], before[s]} :
              /\ ReadCA(s, cur.name, c)
              /\ \/ /\ ~Made(node[s][n]) /\ ~Exists(c)
                    /\ EndPass /\ UNCHANGED <<node, serial>>
                 \/ /\ ~Made(node[s][n]) /\ Exists(c)
                    /\ PutNode(s, n, c.data) /\ AfterSide /\ UNCHANGED files
                 \/ /\ Made(node[s][n]) /\ ~(Exists(c) /\ Outdated(c))
                    /\ AfterSide /\ UNCHANGED <<node, serial, files>>
                 \/ /\ Made(node[s][n]) /\ Exists(c) /\ Outdated(c)
                    /\ PutNode(s, n, c.data) /\ Goto("annotate")
                    /\ cur' = [cur EXCEPT !.ca = c, !.fresh = c = ca[s][cur.name]]
                    /\ UNCHANGED files
        /\ UNCHANGED <<userVars, ca, before, workloadVars, runVars>>

\* Mutant of Noted: the checksum is not noted.
NotNoted(c) == c

Noted(c) == [c EXCEPT !.sum = c.data]

\* The checksum is noted on the CA secret that was read; a conflict ends the pass.
NoteChecksum ==
    LET s == cur.side IN
    /\ pc = "annotate"
    /\ IF cur.fresh
       THEN /\ ca' = [ca EXCEPT ![s][cur.name] = Noted(cur.ca)]
            /\ before' = [before EXCEPT ![s] = cur.ca]
            /\ AfterSide /\ UNCHANGED files
       ELSE EndPass /\ UNCHANGED <<ca, before>>
    /\ UNCHANGED <<userVars, node, serial, workloadVars, runVars, budget>>

\* setupClientTLSFiles: the operator's own copy, until the end of the pass.
setupClientTLSFiles ==
    /\ pc = "files"
    /\ IF Made(NodeCert("client"))
       THEN files' = NodeCert("client") /\ Goto("prober") /\ UNCHANGED cur
       ELSE EndPass
    /\ UNCHANGED <<userVars, secretVars, workloadVars, runVars, budget>>

\* reconcileProberDeployment and reconcileReaperDeployment name the secret and have its
\* passwords, but nothing that changes with the certificate.
Deploy(c, l, next) ==
    /\ pc = l
    /\ IF Made(NodeCert("client"))
       THEN deployed' = deployed \cup ({c} \cap Clients) /\ next
       ELSE EndPass /\ UNCHANGED deployed
    /\ UNCHANGED <<userVars, secretVars, sts, runVars, budget>>
reconcileProberDeployment == Deploy("prober", "prober", Goto("read") /\ UNCHANGED <<cur, files>>)
reconcileReaperDeployment == Deploy("reaper", "reaper", EndPass)

\* reconcileNodeTLSSecret: the secret must be there, and what it holds is to restart pods.
reconcileNodeTLSSecret ==
    LET s == cur.side IN
    /\ pc = "read"
    /\ IF Made(NodeCert(s))
       THEN /\ IF s = "server" /\ "client" \in Encrypted
               THEN /\ cur' = [cur EXCEPT !.sums[s] = NodeCert(s).serial, !.side = "client"]
                    /\ UNCHANGED pc
               ELSE /\ cur' = [cur EXCEPT !.sums[s] = NodeCert(s).serial]
                    /\ Goto("sts")
            /\ UNCHANGED files
       ELSE EndPass
    /\ UNCHANGED <<userVars, secretVars, workloadVars, runVars, budget>>

\* Mutant of RestartChecksum: the certificates do not go into it.
NoRestart(sums) == [s \in Sides |-> IF sums[s] = 0 THEN 0 ELSE 1]

RestartChecksum(sums) == sums

\* reconcileDCStatefulSet; what follows waits until the nodes are up.
reconcileDCStatefulSet ==
    /\ pc = "sts" /\ sts' = RestartChecksum(cur.sums)
    /\ IF "client" \in Encrypted /\ \A p \in Pods : Up(p)
       THEN Goto("reaper") /\ UNCHANGED <<cur, files>>
       ELSE EndPass
    /\ UNCHANGED <<userVars, secretVars, deployed, runVars, budget>>

Pass ==
    \/ handleCASecret \/ handleNodeSecret \/ NoteChecksum \/ setupClientTLSFiles
    \/ reconcileProberDeployment \/ reconcileReaperDeployment
    \/ reconcileNodeTLSSecret \/ reconcileDCStatefulSet

-----------------------------------------------------------------------------
(* Kubernetes and the user (external).                                     *)

Mountable == \A s \in Encrypted : Made(NodeCert(s))
Current == [s \in Sides |-> IF s \in Encrypted THEN NodeCert(s) ELSE NoCert]

\* The statefulset's controller creates a pod, or restarts one of an earlier revision.
\* The operator's cache lags behind a write by less than a pod takes to start.
StartPod(p) ==
    /\ pods[p].sums # sts /\ Mountable
    /\ pods' = [pods EXCEPT ![p] = [sums |-> sts, certs |-> Current]]
    /\ before' = [s \in Sides |-> NoCA]
    /\ UNCHANGED <<userVars, ca, node, serial, workloadVars, loaded, passVars, budget>>

StartClient(c) ==
    /\ c \in deployed /\ loaded[c] = NoCert /\ Made(NodeCert("client"))
    /\ loaded' = [loaded EXCEPT ![c] = NodeCert("client")]
    /\ UNCHANGED <<userVars, secretVars, workloadVars, pods, passVars, budget>>

\* A pod fails and starts again with what it is given now.
PodFails(p) ==
    /\ pods[p] # NoPod /\ Mountable /\ Spend("fault")
    /\ pods' = [pods EXCEPT ![p].certs = Current]
    /\ before' = [s \in Sides |-> NoCA]
    /\ UNCHANGED <<userVars, ca, node, serial, workloadVars, loaded, passVars>>

\* "Wait until all C* pods in statefulset are restarted": the checksum of the CA secret
\* is noted and every pod has what is in the nodes' secret.
Restarted(s) ==
    ~Outdated(ca[s]["own"]) /\ \A p \in Pods : pods[p].certs[s] = NodeCert(s)

\* The next step of "Update TLS CA Secret without downtime".
UpdateCA(s) ==
    /\ s \in Encrypted /\ Exists(ca[s]["own"]) /\ stage[s] < Len(Stages) /\ Restarted(s)
    /\ stage' = [stage EXCEPT ![s] = @ + 1]
    /\ ca' = [ca EXCEPT ![s]["own"].data = Stages[stage[s] + 1]]
    /\ before' = [before EXCEPT ![s] = ca[s]["own"]]
    /\ cur' = [cur EXCEPT !.fresh = @ /\ cur.side # s]
    /\ UNCHANGED <<scenario, node, serial, workloadVars, runVars, pc, files, budget>>

\* The secret of the nodes is deleted, or given another certificate of the same CA.
DeleteNode(s) ==
    /\ s \in Encrypted /\ Made(NodeCert(s)) /\ NodeName(s) = "default" /\ Spend("delete")
    /\ node' = [node EXCEPT ![s]["default"] = NoCert]
    /\ UNCHANGED <<userVars, ca, before, serial, workloadVars, runVars, passVars>>

EditNode(s) ==
    /\ s \in Encrypted /\ NodeName(s) = "own" /\ Spend("edit")
    /\ node' = [node EXCEPT ![s]["own"] = [@ EXCEPT !.serial = serial + 1]]
    /\ serial' = serial + 1
    /\ UNCHANGED <<userVars, ca, before, workloadVars, runVars, passVars>>

-----------------------------------------------------------------------------
Next ==
    \/ Begin \/ Pass \/ Abort
    \/ \E p \in Pods : StartPod(p) \/ PodFails(p)
    \/ \E c \in Clients : StartClient(c)
    \/ \E s \in Sides : UpdateCA(s) \/ DeleteNode(s) \/ EditNode(s)

\* Passes are repeated, and Kubernetes starts pods.
Fairness ==
    /\ WF_vars(Begin \/ Pass)
    /\ \A p \in Pods : SF_vars(StartPod(p))
    /\ \A c \in Clients : SF_vars(StartClient(c))
    /\ \A s \in Sides : SF_vars(UpdateCA(s))

Spec == Init /\ [][Next]_vars
FairSpec == Spec /\ Fairness

-----------------------------------------------------------------------------
(* Properties.                                                             *)

\* "Update TLS CA Secret without downtime" (docs/docs/security/update-tls-secret.md):
\* whatever fails while the CA is replaced in the documented steps, every two pods that
\* run trust each other's certificate, and every pod trusts the operator's.
MutualTrust ==
    /\ \A p, q \in {r \in Pods : Up(r)} : \A s \in Encrypted :
          pods[p].certs[s].signer \in pods[q].certs[s].trusts
    /\ \A p \in {r \in Pods : Up(r)} :
          Made(files) => files.signer \in pods[p].certs["client"].trusts

Spent(b) == scenario.budget[b] - budget[b]

\* handleNodeSecret, "TLS CA Secret data has changed": a certificate is made when there
\* is none, which a deletion repeats once, when the user has changed the CA secret, once
\* because the checksum of a new CA secret is not noted yet, and at most once more for
\* each fault.
CertificatesAccounted ==
    serial - 1 <= LET changes(s) == IF s \in Encrypted THEN 2 + (stage[s] - 1) ELSE 0
                  IN  changes("server") + changes("client")
                        + Spent("delete") + Spent("edit") + Spent("fault")

\* A fault can only repeat what one step of the pass has done, so in the end, the
\* pods run with the certificate that is in the secret, which is one of the CA secret
\* if there is one.
CertificatesSettle ==
    \A s \in Sides :
        <>[](s \in Encrypted /\ ~(scenario.namesNode /\ "node" \notin scenario.has) =>
               /\ \A p \in Pods : pods[p].certs[s] = NodeCert(s)
               /\ LET c == ca[s][CAName(s)] IN
                  Exists(c) => /\ ~Outdated(c)
                               /\ NodeCert(s).signer = c.data.main)
=============================================================================

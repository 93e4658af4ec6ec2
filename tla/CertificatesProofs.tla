------------------------- MODULE CertificatesProofs -------------------------
(***************************************************************************)
(* Proofs about module Certificates: while the CA is replaced in steps     *)
(* that fit each other, every two pods trust each other's certificate, and *)
(* no certificate is made without a reason.                                *)
(*                                                                         *)
(* The certificates in use are of two CAs at most, those of the user's     *)
(* last two steps, because the next step waits until the checksum of the   *)
(* last one is noted and all pods have restarted.  The invariant says why  *)
(* that is enough although the operator may read a CA secret that is       *)
(* outdated: once the checksum is noted, the nodes' secret and every copy  *)
(* of the CA secret that is still around are of the last step.             *)
(***************************************************************************)
EXTENDS Certificates, TLAPS

GivenData == [main |-> 1, extra |-> {}]
GeneratedData == [main |-> GeneratedKey, extra |-> {}]

Trusting(d, e) == d.main \in Truststore(e) /\ e.main \in Truststore(d)

\* The documented way to replace a CA: either of two successive CA secrets trusts the
\* other's main key.  A node's certificate that is given together with a CA is of it.
StepsFit ==
    /\ \A i \in 1..Len(Stages) : i < Len(Stages) => Trusting(Stages[i], Stages[i + 1])
    /\ \A c \in Scenarios : c.namesCA /\ c.namesNode /\ {"ca", "node"} \subseteq c.has
                               => Trusting(GivenData, Stages[1])

-----------------------------------------------------------------------------
(* The invariant.                                                          *)

CertType == [serial : Nat, signer : Nat, trusts : SUBSET Nat]
CAType == [data : DataType, sum : DataType]
PodType == [sums : [Sides -> Nat], certs : [Sides -> CertType]]
PassType == [side : Sides, name : Names, ca : CAType, fresh : BOOLEAN, sums : [Sides -> Nat]]
Labels == {"idle", "ca", "node", "annotate", "files", "prober", "read", "sts", "reaper"}

TypeInv ==
    /\ scenario \in ScenarioType
    /\ stage \in [Sides -> 1..Len(Stages)]
    /\ ca \in [Sides -> [Names -> CAType]]
    /\ before \in [Sides -> CAType]
    /\ node \in [Sides -> [Names -> CertType]]
    /\ serial \in Nat
    /\ sts \in [Sides -> Nat]
    /\ pods \in [Pods -> PodType]
    /\ files \in CertType
    /\ pc \in Labels
    /\ cur \in PassType
    /\ budget \in [Charges -> Nat]

\* Where the pass is: the side it works on, and the CA secret it has chosen.
PassInv ==
    /\ pc \in {"ca", "node", "annotate"} => cur.side \in Encrypted
    /\ pc \in {"node", "annotate"} => cur.name = CAName(cur.side)
    /\ pc = "annotate" => Exists(cur.ca)
    /\ pc = "annotate" /\ cur.fresh => cur.ca = ca[cur.side][cur.name]
    /\ pc = "files" => "client" \in Encrypted
    /\ Made(files) => pc \in {"prober", "read", "sts", "reaper"} /\ "client" \in Encrypted

\* The CAs that may still sign a certificate of side s, and those of the certificates
\* that may be in use.
Signing(s) ==
    IF CAName(s) = "own"
    THEN {Stages[stage[s]]} \cup (IF stage[s] > 1 THEN {Stages[stage[s] - 1]} ELSE {})
    ELSE IF scenario.namesNode THEN {} ELSE {GeneratedData}
Recent(s) ==
    Signing(s) \cup (IF stage[s] = 1 /\ NodeName(s) = "own" THEN {GivenData} ELSE {})

SecretsInv ==
    \A s \in Sides :
        /\ Exists(ca[s]["own"]) => "ca" \in scenario.has
        /\ Made(node[s]["own"]) => "node" \in scenario.has
        /\ CAName(s) = "own" => ca[s]["own"].data = Stages[stage[s]]
        /\ CAName(s) = "default" => /\ ~Exists(ca[s]["own"]) \/ Outdated(ca[s]["own"])
                                    /\ Exists(ca[s]["default"]) => ca[s]["default"].data \in Signing(s)
                                    /\ stage[s] = 1
        /\ Exists(before[s]) => before[s].data \in Signing(s)

Issued(c, d) == c.signer = d.main /\ c.trusts = Truststore(d)
InUse(c, s) == Made(c) => \E d \in Recent(s) : Issued(c, d)

\* Every certificate in use is of a recent CA.
RecentInv ==
    /\ \A s \in Sides : InUse(NodeCert(s), s)
    /\ \A s \in Sides, p \in Pods : InUse(pods[p].certs[s], s)
    /\ \A s \in Encrypted, p \in Pods : Up(p) => Made(pods[p].certs[s])
    /\ InUse(files, "client")

Noting(s) == pc = "annotate" /\ cur.fresh /\ cur.side = s

\* Once the checksum of the user's CA is noted, and already when it is about to be, what
\* is left of earlier CAs is in pods only.
NotedInv ==
    \A s \in Sides : CAName(s) = "own" =>
        /\ ~Outdated(ca[s]["own"]) \/ Noting(s)
              => (Made(NodeCert(s)) => Issued(NodeCert(s), Stages[stage[s]]))
        /\ ~Outdated(ca[s]["own"])
              => /\ Exists(before[s]) => before[s].data = Stages[stage[s]]
                 /\ s = "client" /\ Made(files) => Issued(files, Stages[stage[s]])

Inv == TypeInv /\ PassInv /\ SecretsInv /\ RecentInv /\ NotedInv

\* A certificate that is to be made because there is none, and one because the checksum
\* of the CA is not noted.
Missing(s) == IF Made(NodeCert(s)) THEN 0 ELSE 1
Settled(s) == Exists(ca[s][CAName(s)]) /\ ~Outdated(ca[s][CAName(s)])
ToNote(s) ==
    IF Settled(s) \/ Noting(s) THEN 0 ELSE 1
Due(s) == IF s \in Encrypted THEN Missing(s) + ToNote(s) ELSE 0
Changes(s) == IF s \in Encrypted THEN 2 + (stage[s] - 1) ELSE 0

AccountInv ==
    serial - 1 + Due("server") + Due("client")
        <= Changes("server") + Changes("client")
             + Spent("delete") + Spent("edit") + Spent("fault")

-----------------------------------------------------------------------------
(* Types.                                                                  *)

LEMMA DataFacts ==
    /\ NoData \in DataType /\ GivenData \in DataType /\ GeneratedData \in DataType
    /\ \A d \in DataType : d.main \in Nat /\ Truststore(d) \in SUBSET Nat /\ d.main \in Truststore(d)
<1>1. NoData \in DataType /\ GivenData \in DataType /\ GeneratedData \in DataType
  BY DEF NoData, GivenData, GeneratedData, DataType, Keys, GeneratedKey
<1>2. ASSUME NEW d \in DataType
      PROVE  d.main \in Nat /\ Truststore(d) \in SUBSET Nat /\ d.main \in Truststore(d)
  BY <1>2 DEF DataType, Keys, GeneratedKey, Truststore
<1>3. QED  BY <1>1, <1>2

LEMMA ZeroTypes ==
    /\ NoCA \in CAType /\ genCASecret \in CAType
    /\ NoCert \in CertType /\ Given \in CertType
    /\ NoSums \in [Sides -> Nat] /\ NoCerts \in [Sides -> CertType]
    /\ NoPod \in PodType /\ NoPass \in PassType
<1>1. NoCA \in CAType /\ genCASecret \in CAType
  BY DataFacts DEF NoCA, CAType, genCASecret, GeneratedData
<1>2. NoCert \in CertType /\ Given \in CertType  BY DEF NoCert, CertType, Given
<1>3. NoSums \in [Sides -> Nat] /\ NoCerts \in [Sides -> CertType]
  BY <1>2 DEF NoSums, NoCerts
<1>4. NoPod \in PodType  BY <1>3 DEF NoPod, PodType
<1>5. NoPass \in PassType  BY <1>1, <1>3 DEF NoPass, PassType, Sides, Names
<1>6. QED  BY <1>1, <1>2, <1>3, <1>4, <1>5

LEMMA SecretTypes ==
    /\ \A d \in DataType, n \in Nat : genNodeSecret(d, n) \in CertType
    /\ \A c \in CAType : Noted(c) \in CAType /\ c.data \in DataType /\ c.sum \in DataType
    /\ \A c \in CAType : Noted(c).data = c.data /\ Noted(c).sum = c.data
<1>1. ASSUME NEW d \in DataType, NEW n \in Nat PROVE genNodeSecret(d, n) \in CertType
  BY <1>1, DataFacts DEF genNodeSecret, CertType
<1>2. ASSUME NEW c \in CAType
      PROVE  /\ Noted(c) \in CAType /\ c.data \in DataType /\ c.sum \in DataType
             /\ Noted(c).data = c.data /\ Noted(c).sum = c.data
  BY <1>2 DEF CAType, Noted
<1>3. QED  BY <1>1, <1>2

LEMMA SideFacts ==
    ASSUME TypeInv
    PROVE  /\ Encrypted \subseteq Sides /\ FirstSide \in Sides
           /\ Encrypted # {} => FirstSide \in Encrypted
           /\ \A s \in Sides : CAName(s) \in Names /\ NodeName(s) \in Names
                                 /\ NodeCert(s) \in CertType
  BY DEF TypeInv, Encrypted, ScenarioType, FirstSide, Sides, CAName, NodeName, NodeCert, Names

LEMMA EndPassType ==
    ASSUME EndPass
    PROVE  pc' \in Labels /\ cur' \in PassType /\ files' \in CertType
  BY ZeroTypes DEF EndPass, Labels

LEMMA AfterSideType ==
    ASSUME TypeInv, AfterSide
    PROVE  pc' \in Labels /\ cur' \in PassType
  BY ZeroTypes, SideFacts DEF AfterSide, Goto, Labels, PassType, Sides

LEMMA SpendType ==
    ASSUME TypeInv, NEW b \in Charges, Spend(b)
    PROVE  /\ budget' \in [Charges -> Nat]
           /\ budget'[b] = budget[b] - 1
           /\ \A e \in Charges : e # b => budget'[e] = budget[e]
  BY DEF TypeInv, Spend

LEMMA InitType ==
    ASSUME Init PROVE TypeInv
<1>1. scenario \in ScenarioType /\ Stages[1] \in DataType
  BY CertificatesAssumption DEF Init
<1>2. budget \in [Charges -> Nat]  BY <1>1 DEF Init, ScenarioType
<1>3. stage \in [Sides -> 1..Len(Stages)]
  BY CertificatesAssumption DEF Init
<1>4. [data |-> Stages[1], sum |-> NoData] \in CAType
  BY <1>1, DataFacts DEF CAType
<1>5. ca \in [Sides -> [Names -> CAType]] /\ before \in [Sides -> CAType]
  BY <1>4, ZeroTypes DEF Init
<1>6. node \in [Sides -> [Names -> CertType]] /\ files \in CertType
  BY ZeroTypes DEF Init
<1>7. sts \in [Sides -> Nat] /\ pods \in [Pods -> PodType] /\ cur \in PassType
  BY ZeroTypes DEF Init
<1>8. serial \in Nat /\ pc \in Labels  BY DEF Init, Labels
<1>9. QED  BY <1>1, <1>2, <1>3, <1>5, <1>6, <1>7, <1>8 DEF TypeInv

\* The certificates the secrets hold, as a pod loads them.
LEMMA CurrentType ==
    ASSUME TypeInv PROVE Current \in [Sides -> CertType]
  BY SideFacts, ZeroTypes DEF Current

LEMMA PutNodeType ==
    ASSUME TypeInv, NEW s \in Sides, NEW n \in Names, NEW d \in DataType, PutNode(s, n, d)
    PROVE  /\ node' \in [Sides -> [Names -> CertType]] /\ serial' = serial + 1 /\ serial' \in Nat
           /\ node'[s][n] = genNodeSecret(d, serial + 1) /\ Made(node'[s][n])
           /\ \A t \in Sides, m \in Names : t # s \/ m # n => node'[t][m] = node[t][m]
<1>1. serial + 1 \in Nat /\ genNodeSecret(d, serial + 1) \in CertType
  BY SecretTypes DEF TypeInv
<1>2. genNodeSecret(d, serial + 1) # NoCert
  BY <1>1 DEF genNodeSecret, NoCert, TypeInv
<1>3. QED  BY <1>1, <1>2 DEF TypeInv, PutNode, Made

\* The CA secrets the node's certificate may be made from.
LEMMA ReadFacts ==
    ASSUME TypeInv, NEW c \in {ca[cur.side][cur.name], before[cur.side]}
    PROVE  c \in CAType /\ c.data \in DataType
  BY SecretTypes DEF TypeInv, PassType

LEMMA ReadBudget ==
    ASSUME TypeInv, NEW s, NEW n, NEW c, ReadCA(s, n, c)
    PROVE  /\ budget' \in [Charges -> Nat]
           /\ \A b \in Charges : b # "fault" => budget'[b] = budget[b]
           /\ \/ budget' = budget
              \/ budget'["fault"] = budget["fault"] - 1
           /\ budget' = budget => c = ca[s][n]
           /\ c # ca[s][n] => c = before[s] /\ Exists(c)
<1>1. "fault" \in Charges  BY DEF Charges
<1>2. CASE c = ca[s][n] /\ UNCHANGED budget  BY <1>2 DEF TypeInv
<1>3. CASE c = before[s] /\ Exists(c) /\ c # ca[s][n] /\ Spend("fault")
  <2>1. budget["fault"] \in Nat  BY <1>1 DEF TypeInv
  <2>2. budget' # budget  BY <1>1, <1>3, <2>1, SpendType
  <2>3. QED  BY <1>1, <1>3, <2>2, SpendType
<1>4. QED  BY <1>2, <1>3 DEF ReadCA

LEMMA NodeSecretType ==
    ASSUME TypeInv, handleNodeSecret PROVE TypeInv'
<1>1. cur.side \in Sides /\ cur.name \in Names  BY DEF TypeInv, PassType
<1>2. PICK c \in {ca[cur.side][cur.name], before[cur.side]} :
        /\ ReadCA(cur.side, cur.name, c)
        /\ \/ EndPass /\ UNCHANGED <<node, serial>>
           \/ PutNode(cur.side, NodeName(cur.side), c.data) /\ AfterSide /\ UNCHANGED files
           \/ AfterSide /\ UNCHANGED <<node, serial, files>>
           \/ /\ PutNode(cur.side, NodeName(cur.side), c.data) /\ Goto("annotate")
              /\ cur' = [cur EXCEPT !.ca = c, !.fresh = c = ca[cur.side][cur.name]]
              /\ UNCHANGED files
  BY DEF handleNodeSecret
<1>3. c \in CAType /\ c.data \in DataType /\ budget' \in [Charges -> Nat]
  BY <1>2, ReadFacts, ReadBudget
<1>4. NodeName(cur.side) \in Names  BY <1>1, SideFacts
<1>5. node' \in [Sides -> [Names -> CertType]] /\ serial' \in Nat
  <2>1. CASE UNCHANGED <<node, serial>>  BY <2>1 DEF TypeInv
  <2>2. CASE PutNode(cur.side, NodeName(cur.side), c.data)
    BY <1>1, <1>3, <1>4, <2>2, PutNodeType
  <2>3. QED  BY <1>2, <2>1, <2>2
<1>6. pc' \in Labels /\ cur' \in PassType /\ files' \in CertType
  <2>1. CASE EndPass  BY <2>1, EndPassType
  <2>2. CASE AfterSide /\ UNCHANGED files  BY <2>2, AfterSideType DEF TypeInv
  <2>3. CASE /\ Goto("annotate") /\ UNCHANGED files
             /\ cur' = [cur EXCEPT !.ca = c, !.fresh = c = ca[cur.side][cur.name]]
    BY <1>3, <2>3 DEF TypeInv, PassType, Goto, Labels
  <2>4. QED  BY <1>2, <2>1, <2>2, <2>3
<1>7. QED
  BY <1>3, <1>5, <1>6 DEF TypeInv, handleNodeSecret, userVars, workloadVars, runVars

\* The steps of a pass that write no secret: only the pass itself and the workloads change.
PassOnly ==
    /\ UNCHANGED <<userVars, secretVars, runVars>>
    /\ pc' \in Labels \ {"node", "annotate"}
    /\ pc' \in {"ca", "files"} => pc' = "ca" /\ pc = "idle" /\ Encrypted # {} /\ cur'.side = FirstSide
    /\ \/ files' = NoCert
       \/ files' = files /\ pc' \in {"ca", "prober", "read", "sts", "reaper"} /\ (pc' = "ca" => pc = "idle")
       \/ /\ files' = NodeCert("client") /\ pc = "files"
          /\ pc' \in {"prober", "read", "sts", "reaper"}

LEMMA PassOnlySteps ==
    ASSUME TypeInv,
           \/ Begin \/ setupClientTLSFiles \/ reconcileProberDeployment
           \/ reconcileReaperDeployment \/ reconcileNodeTLSSecret \/ reconcileDCStatefulSet
           \/ Abort
    PROVE  /\ PassOnly /\ TypeInv'
           /\ Abort \/ UNCHANGED budget
<1> USE DEF Goto, Labels, userVars, secretVars, runVars, workloadVars
<1>1. /\ EndPass => /\ pc' = "idle" /\ files' = NoCert
                    /\ pc' \in Labels /\ cur' \in PassType /\ files' \in CertType
      /\ cur.side \in Sides /\ cur \in PassType /\ "fault" \in Charges
      /\ FirstSide \in Sides
  BY EndPassType, SideFacts DEF EndPass, TypeInv, PassType, Charges
<1>2. CASE Begin
  <2>1. cur' \in PassType /\ cur'.side = FirstSide
    BY <1>1, <1>2, ZeroTypes DEF Begin, PassType
  <2>2. QED  BY <1>2, <2>1 DEF Begin, TypeInv, PassOnly
<1>3. CASE setupClientTLSFiles
  <2>1. cur' \in PassType /\ files' \in CertType
    BY <1>1, <1>3, SideFacts DEF setupClientTLSFiles, Sides
  <2>2. QED  BY <1>1, <1>3, <2>1 DEF setupClientTLSFiles, TypeInv, PassOnly
<1>4. CASE reconcileProberDeployment
  BY <1>1, <1>4 DEF reconcileProberDeployment, Deploy, TypeInv, PassOnly
<1>5. CASE reconcileReaperDeployment
  BY <1>1, <1>5 DEF reconcileReaperDeployment, Deploy, TypeInv, PassOnly
<1>6. CASE reconcileNodeTLSSecret
  <2>1. NodeCert(cur.side).serial \in Nat  BY <1>1, SideFacts DEF CertType
  <2>2. cur' \in PassType /\ files' \in CertType /\ (files' = NoCert \/ files' = files)
    <3>1. CASE EndPass  BY <1>1, <3>1
    <3>2. CASE /\ UNCHANGED files
               /\ cur' = [cur EXCEPT !.sums[cur.side] = NodeCert(cur.side).serial, !.side = "client"]
      BY <1>1, <2>1, <3>2 DEF PassType, Sides, TypeInv
    <3>3. CASE /\ UNCHANGED files
               /\ cur' = [cur EXCEPT !.sums[cur.side] = NodeCert(cur.side).serial]
      BY <1>1, <2>1, <3>3 DEF PassType, Sides, TypeInv
    <3>4. QED  BY <1>6, <3>1, <3>2, <3>3 DEF reconcileNodeTLSSecret
  <2>3. pc' \in {"idle", "read", "sts"} /\ (pc' # "idle" => files' = files)
    BY <1>1, <1>6 DEF reconcileNodeTLSSecret, EndPass
  <2>4. QED  BY <1>1, <1>6, <2>2, <2>3 DEF reconcileNodeTLSSecret, TypeInv, PassOnly, EndPass
<1>7. CASE reconcileDCStatefulSet
  <2>1. sts' \in [Sides -> Nat]
    BY <1>1, <1>7 DEF reconcileDCStatefulSet, RestartChecksum, PassType
  <2>2. QED  BY <1>1, <1>7, <2>1 DEF reconcileDCStatefulSet, TypeInv, PassOnly
<1>8. CASE Abort
  BY <1>1, <1>8, SpendType DEF Abort, TypeInv, PassOnly
<1>9. QED  BY <1>2, <1>3, <1>4, <1>5, <1>6, <1>7, <1>8

-----------------------------------------------------------------------------
(* Steps.                                                                  *)

\* What the names of the secrets and the recent CAs depend on.
LEMMA NamesFrame ==
    ASSUME NEW s \in Sides, scenario' = scenario,
           Exists(ca[s]["own"])' <=> Exists(ca[s]["own"]),
           Made(node[s]["own"])' <=> Made(node[s]["own"])
    PROVE  /\ CAName(s)' = CAName(s) /\ NodeName(s)' = NodeName(s)
           /\ stage'[s] = stage[s] => Signing(s)' = Signing(s) /\ Recent(s)' = Recent(s)
<1>1. CAName(s)' = CAName(s) /\ NodeName(s)' = NodeName(s)  BY DEF CAName, NodeName
<1>2. QED  BY <1>1 DEF Signing, Recent

\* CAs whose certificates may be in use trust each other.
LEMMA RecentTrust ==
    ASSUME TypeInv, SecretsInv, StepsFit, scenario \in Scenarios,
           NEW s \in Sides, NEW d \in Recent(s), NEW e \in Recent(s)
    PROVE  d.main \in Truststore(e)
<1> DEFINE i == stage[s]
<1>1. i \in 1..Len(Stages) /\ Len(Stages) \in Nat /\ \A j \in 1..Len(Stages) : Stages[j] \in DataType
  BY CertificatesAssumption DEF TypeInv
<1>2. /\ Exists(ca[s]["own"]) => "ca" \in scenario.has
      /\ Made(node[s]["own"]) => "node" \in scenario.has
      /\ CAName(s) = "default" => i = 1
  BY DEF SecretsInv
<1>3. d \in DataType /\ e \in DataType
  BY <1>1, DataFacts DEF Recent, Signing
<1>4. CASE CAName(s) = "own" /\ i > 1
  <2>1. i - 1 \in 1..Len(Stages) /\ i - 1 < Len(Stages) /\ (i - 1) + 1 = i  BY <1>1, <1>4
  <2>2. Trusting(Stages[i - 1], Stages[i])  BY <2>1 DEF StepsFit
  <2>3. d \in {Stages[i], Stages[i - 1]} /\ e \in {Stages[i], Stages[i - 1]}
    BY <1>4 DEF Recent, Signing
  <2>4. QED  BY <1>3, <2>2, <2>3, DataFacts DEF Trusting
<1>5. CASE CAName(s) = "own" /\ i = 1 /\ NodeName(s) = "own"
  <2>1. scenario.namesCA /\ scenario.namesNode /\ {"ca", "node"} \subseteq scenario.has
    BY <1>2, <1>5 DEF CAName, NodeName
  <2>2. Trusting(GivenData, Stages[1])  BY <2>1 DEF StepsFit
  <2>3. d \in {Stages[1], GivenData} /\ e \in {Stages[1], GivenData}
    BY <1>5 DEF Recent, Signing
  <2>4. QED  BY <1>3, <2>2, <2>3, DataFacts DEF Trusting
<1>6. CASE CAName(s) = "own" /\ i = 1 /\ NodeName(s) # "own"
  <2>1. d = Stages[1] /\ e = Stages[1]  BY <1>6 DEF Recent, Signing
  <2>2. QED  BY <1>3, <2>1, DataFacts
<1>7. CASE CAName(s) # "own"
  <2>1. d = e
    <3>1. CASE scenario.namesNode  BY <1>7, <3>1 DEF Recent, Signing
    <3>2. CASE ~scenario.namesNode  BY <1>7, <3>2 DEF Recent, Signing, NodeName
    <3>3. QED  BY <3>1, <3>2
  <2>2. QED  BY <1>3, <2>1, DataFacts
<1>8. QED  BY <1>1, <1>4, <1>5, <1>6, <1>7

LEMMA MutualTrustHolds ==
    ASSUME Inv, StepsFit, scenario \in Scenarios PROVE MutualTrust
<1>1. TypeInv /\ PassInv /\ SecretsInv /\ RecentInv  BY DEF Inv
<1>2. ASSUME NEW p \in Pods, NEW q \in Pods, Up(p), Up(q), NEW s \in Encrypted
      PROVE  pods[p].certs[s].signer \in pods[q].certs[s].trusts
  <2>1. s \in Sides  BY <1>1, SideFacts
  <2>2. PICK d \in Recent(s) : Issued(pods[p].certs[s], d)
    BY <1>1, <1>2, <2>1 DEF RecentInv, InUse
  <2>3. PICK e \in Recent(s) : Issued(pods[q].certs[s], e)
    BY <1>1, <1>2, <2>1 DEF RecentInv, InUse
  <2>4. QED  BY <1>1, <2>1, <2>2, <2>3, RecentTrust DEF Issued
<1>3. ASSUME NEW p \in Pods, Up(p), Made(files)
      PROVE  files.signer \in pods[p].certs["client"].trusts
  <2>1. "client" \in Encrypted /\ "client" \in Sides  BY <1>1, <1>3 DEF PassInv, Sides
  <2>2. PICK d \in Recent("client") : Issued(files, d)
    BY <1>1, <1>3 DEF RecentInv, InUse
  <2>3. PICK e \in Recent("client") : Issued(pods[p].certs["client"], e)
    BY <1>1, <1>3, <2>1 DEF RecentInv, InUse
  <2>4. QED  BY <1>1, <2>1, <2>2, <2>3, RecentTrust DEF Issued
<1>4. QED  BY <1>2, <1>3 DEF MutualTrust

-----------------------------------------------------------------------------
(* What a step does to the account.                                        *)

AccountStep == AccountInv => AccountInv'

LEMMA DueFacts ==
    \A t \in Sides : /\ Missing(t) \in {0, 1} /\ ToNote(t) \in {0, 1} /\ Due(t) \in 0..2
                     /\ Due(t) = IF t \in Encrypted THEN Missing(t) + ToNote(t) ELSE 0
  BY DEF Missing, ToNote, Due

LEMMA DueFrame ==
    ASSUME NEW t \in Sides, Encrypted' = Encrypted,
           Made(NodeCert(t))' <=> Made(NodeCert(t)),
           (Settled(t) \/ Noting(t))' <=> (Settled(t) \/ Noting(t))
    PROVE  Due(t)' = Due(t)
  BY DEF Due, Missing, ToNote

LEMMA SpentFacts ==
    ASSUME TypeInv, TypeInv', scenario' = scenario
    PROVE  /\ \A b \in Charges : /\ budget[b] \in Nat /\ budget'[b] \in Nat
                                 /\ Spent(b) \in Int /\ Spent(b)' \in Int
                                 /\ Spent(b)' = Spent(b) + (budget[b] - budget'[b])
           /\ \A t \in Sides : /\ Changes(t) \in Nat /\ Changes(t)' \in Nat
                               /\ stage'[t] = stage[t] => Changes(t)' = Changes(t)
                               /\ t \in Encrypted /\ stage'[t] = stage[t] + 1
                                    => Changes(t)' = Changes(t) + 1
<1>1. \A b \in Charges : budget[b] \in Nat /\ budget'[b] \in Nat /\ scenario.budget[b] \in Nat
  BY DEF TypeInv, ScenarioType
<1>2. \A t \in Sides : stage[t] \in Nat /\ stage'[t] \in Nat /\ stage[t] >= 1 /\ stage'[t] >= 1
  BY CertificatesAssumption DEF TypeInv
<1>3. QED  BY <1>1, <1>2 DEF Spent, Changes, Encrypted

\* One side's due changes, and k certificates' worth of reasons are added.
LEMMA Account ==
    ASSUME TypeInv, TypeInv', scenario' = scenario, NEW s \in Sides,
           \A t \in Sides : t # s => Due(t)' = Due(t) /\ stage'[t] = stage[t],
           serial' + Due(s)' <= serial + Due(s) + (Changes(s)' - Changes(s))
                                  + (budget["delete"] - budget'["delete"])
                                  + (budget["edit"] - budget'["edit"])
                                  + (budget["fault"] - budget'["fault"])
    PROVE  AccountStep
<1>1. {"delete", "edit", "fault"} \subseteq Charges /\ Sides = {"server", "client"}
  BY DEF Charges, Sides
<1>2. /\ Due("server") \in Int /\ Due("client") \in Int /\ Due("server")' \in Int /\ Due("client")' \in Int
      /\ serial \in Int /\ serial' \in Int
  BY <1>1, DueFacts DEF TypeInv, Due, Missing, ToNote
<1>3. CASE s = "server"
  <2>1. Due("client")' = Due("client") /\ Changes("client")' = Changes("client")
    BY <1>1, <1>3, SpentFacts
  <2>2. QED  BY <1>1, <1>2, <1>3, <2>1, SpentFacts DEF AccountStep, AccountInv
<1>4. CASE s = "client"
  <2>1. Due("server")' = Due("server") /\ Changes("server")' = Changes("server")
    BY <1>1, <1>4, SpentFacts
  <2>2. QED  BY <1>1, <1>2, <1>4, <2>1, SpentFacts DEF AccountStep, AccountInv
<1>5. QED  BY <1>1, <1>3, <1>4

\* A step without certificates may spend from the budget, and nothing else.
LEMMA AccountFrame ==
    ASSUME TypeInv, TypeInv', UNCHANGED <<scenario, stage, serial>>,
           \A t \in Sides : Due(t)' = Due(t),
           \A b \in Charges : budget'[b] <= budget[b]
    PROVE  AccountStep
<1>1. {"delete", "edit", "fault"} \subseteq Charges /\ "server" \in Sides
  BY DEF Charges, Sides
<1>2. Due("server") \in Int /\ serial \in Int  BY <1>1, DueFacts DEF TypeInv
<1>3. QED  BY <1>1, <1>2, SpentFacts, Account

LEMMA PassOnlyInv ==
    ASSUME Inv, PassOnly, TypeInv'
    PROVE  Inv' /\ \A t \in Sides : (~Noting(t) => Due(t)' = Due(t)) /\ Due(t)' <= Due(t) + 1
<1> USE DEF userVars, secretVars, runVars
<1>1. TypeInv /\ PassInv /\ SecretsInv /\ RecentInv /\ NotedInv  BY DEF Inv
<1>2. /\ UNCHANGED <<scenario, stage, ca, before, node, serial, pods>>
      /\ Encrypted' = Encrypted
  BY DEF PassOnly, Encrypted
<1>3. \A s \in Sides : /\ CAName(s)' = CAName(s) /\ NodeName(s)' = NodeName(s)
                       /\ Signing(s)' = Signing(s) /\ Recent(s)' = Recent(s)
                       /\ NodeCert(s)' = NodeCert(s)
  BY <1>2, NamesFrame DEF NodeCert
<1>4. \/ ~Made(files')
      \/ files' = files /\ Made(files) /\ pc' \in {"prober", "read", "sts", "reaper"}
      \/ /\ files' = NodeCert("client") /\ pc = "files"
         /\ pc' \in {"prober", "read", "sts", "reaper"}
  BY <1>1 DEF PassOnly, Made, PassInv
<1>5. PassInv'
  <2>1. pc' = "ca" => cur'.side \in Encrypted
    BY <1>1, SideFacts DEF PassOnly
  <2>2. pc' \notin {"node", "annotate", "files"}  BY DEF PassOnly
  <2>3. Made(files') => pc' \in {"prober", "read", "sts", "reaper"} /\ "client" \in Encrypted
    BY <1>1, <1>4 DEF PassInv
  <2>4. QED  BY <1>2, <2>1, <2>2, <2>3 DEF PassInv, Made
<1>6. SecretsInv'  BY <1>1, <1>2, <1>3 DEF SecretsInv, Exists, Made, Outdated
<1>7. RecentInv'
  <2>1. InUse(files, "client")'
    BY <1>1, <1>3, <1>4 DEF RecentInv, InUse, Sides, Made, Issued
  <2>2. QED  BY <1>1, <1>2, <1>3, <2>1 DEF RecentInv, InUse, Made, Issued, Up
<1>8. NotedInv'
  <2>1. \A s \in Sides : ~Noting(s)'  BY DEF PassOnly, Noting
  <2>2. ASSUME NEW s \in Sides, CAName(s) = "own", ~Outdated(ca[s]["own"]), s = "client", Made(files')
        PROVE  Issued(files', Stages[stage[s]])
    BY <1>1, <1>4, <2>2 DEF NotedInv
  <2>3. QED
    BY <1>1, <1>2, <1>3, <2>1, <2>2 DEF NotedInv, Outdated, Exists, Made, Issued
<1>9. ASSUME NEW t \in Sides
      PROVE  (~Noting(t) => Due(t)' = Due(t)) /\ Due(t)' <= Due(t) + 1
  <2>1. ~Noting(t)' /\ Settled(t)' = Settled(t) /\ Made(NodeCert(t))' = Made(NodeCert(t))
    BY <1>2, <1>3 DEF PassOnly, Noting, Settled, Exists, Outdated, Made
  <2>2. ~Noting(t) => Due(t)' = Due(t)  BY <1>2, <2>1, DueFrame
  <2>3. Due(t)' <= Due(t) + 1
    BY <1>2, <2>1 DEF Due, Missing, ToNote
  <2>4. QED  BY <2>2, <2>3
<1>10. QED  BY <1>5, <1>6, <1>7, <1>8, <1>9 DEF Inv

LEMMA RecentFrame ==
    ASSUME RecentInv, UNCHANGED <<scenario, pods>>, files' = files \/ files' = NoCert,
           \A s \in Sides : NodeCert(s)' = NodeCert(s) /\ Recent(s)' = Recent(s)
    PROVE  RecentInv'
<1>1. Encrypted' = Encrypted /\ "client" \in Sides  BY DEF Encrypted, Sides
<1>2. \A s \in Sides : InUse(NodeCert(s), s)'
  BY DEF RecentInv, InUse, Made, Issued
<1>3. \A s \in Sides, p \in Pods : InUse(pods[p].certs[s], s)'
  BY DEF RecentInv, InUse, Made, Issued
<1>4. \A s \in Encrypted, p \in Pods : (Up(p) => Made(pods[p].certs[s]))'
  BY DEF RecentInv, Made, Up
<1>5. InUse(files, "client")'
  BY <1>1 DEF RecentInv, InUse, Made, Issued
<1>6. QED  BY <1>1, <1>2, <1>3, <1>4, <1>5 DEF RecentInv

LEMMA AfterSideFacts ==
    ASSUME AfterSide
    PROVE  /\ pc' \in {"ca", "files", "read"}
           /\ pc' = "ca" => "client" \in Encrypted /\ cur'.side = "client"
           /\ pc' = "files" => "client" \in Encrypted
<1>1. [NoPass EXCEPT !.side = "client"].side = "client"
  BY DEF NoPass
<1>2. QED  BY <1>1 DEF AfterSide, Goto

LEMMA CASecretInv ==
    ASSUME Inv, handleCASecret PROVE Inv' /\ AccountStep
<1> DEFINE s == cur.side
           n == CAName(s)
<1> USE DEF userVars, secretVars, runVars, workloadVars
<1>1. TypeInv /\ PassInv /\ SecretsInv /\ RecentInv /\ NotedInv  BY DEF Inv
<1>2. s \in Sides /\ s \in Encrypted /\ n \in Names /\ ~Made(files)
  BY <1>1, SideFacts DEF handleCASecret, PassInv, TypeInv, PassType
<1>3. /\ pc' = "node" /\ UNCHANGED <<scenario, stage, node, serial, pods, files, budget, sts>>
      /\ cur' \in PassType /\ cur'.name = n /\ cur'.side = s
  BY <1>1, <1>2 DEF handleCASecret, Goto, TypeInv, PassType
<1>4. \/ UNCHANGED <<ca, before>>
      \/ /\ n = "default" /\ ~scenario.namesNode
         /\ ca' = [ca EXCEPT ![s]["default"] = genCASecret]
         /\ before' = [before EXCEPT ![s] = ca[s]["default"]] /\ ~Exists(ca[s]["default"])
  <2>1. n = "own" => Exists(ca[s][n])  BY DEF CAName
  <2>2. QED  BY <1>2, <2>1 DEF handleCASecret, Names
<1>5. TypeInv'
  <2>1. ca' \in [Sides -> [Names -> CAType]] /\ before' \in [Sides -> CAType]
    <3>1. ca \in [Sides -> [Names -> CAType]] /\ before \in [Sides -> CAType] /\ "default" \in Names
      BY <1>1 DEF TypeInv, Names
    <3>2. genCASecret \in CAType  BY ZeroTypes
    <3> HIDE DEF s, n
    <3>3. CASE UNCHANGED <<ca, before>>  BY <3>1, <3>3
    <3>4. CASE /\ ca' = [ca EXCEPT ![s]["default"] = genCASecret]
               /\ before' = [before EXCEPT ![s] = ca[s]["default"]]
      <4>1. [ca[s] EXCEPT !["default"] = genCASecret] \in [Names -> CAType]
        BY <1>2, <3>1, <3>2
      <4>2. QED  BY <1>2, <3>1, <3>4, <4>1
    <3>5. QED  BY <1>4, <3>3, <3>4
  <2>2. QED  BY <1>1, <1>3, <2>1 DEF TypeInv, Labels
<1>6. /\ \A t \in Sides : ca'[t]["own"] = ca[t]["own"]
      /\ \A t \in Sides : t # s => ca'[t] = ca[t] /\ before'[t] = before[t]
      /\ n = "own" => ca' = ca /\ before' = before
  <2>1. ca \in [Sides -> [Names -> CAType]] /\ before \in [Sides -> CAType]
          /\ "default" \in Names /\ "own" \in Names
    BY <1>1 DEF TypeInv, Names
  <2> HIDE DEF s, n
  <2>2. QED  BY <1>2, <1>4, <2>1
<1>7. \A t \in Sides : /\ CAName(t)' = CAName(t) /\ NodeName(t)' = NodeName(t)
                       /\ Signing(t)' = Signing(t) /\ Recent(t)' = Recent(t)
                       /\ NodeCert(t)' = NodeCert(t)
  BY <1>3, <1>6, NamesFrame DEF NodeCert, Exists, Made
<1>8. PassInv'
  BY <1>2, <1>3, <1>7 DEF PassInv, Made, Encrypted
<1>9. SecretsInv'
  <2> SUFFICES ASSUME NEW t \in Sides
               PROVE  /\ CAName(t) = "default" /\ Exists(ca'[t]["default"])
                            => ca'[t]["default"].data \in Signing(t)
                      /\ Exists(before'[t]) => before'[t].data \in Signing(t)
    BY <1>1, <1>3, <1>6, <1>7 DEF SecretsInv, Exists, Made, Outdated
  <2>1. CASE t # s \/ UNCHANGED <<ca, before>>  BY <1>1, <1>6, <2>1 DEF SecretsInv
  <2>2. CASE /\ t = s /\ n = "default" /\ ~scenario.namesNode
             /\ ca' = [ca EXCEPT ![s]["default"] = genCASecret]
             /\ before' = [before EXCEPT ![s] = ca[s]["default"]] /\ ~Exists(ca[s]["default"])
    <3>1. ca'[t]["default"] = genCASecret /\ before'[t] = ca[s]["default"]
      BY <1>1, <1>2, <2>2 DEF TypeInv, Names
    <3>2. genCASecret.data = GeneratedData  BY DEF genCASecret, GeneratedData
    <3>3. GeneratedData \in Signing(t)  BY <2>2 DEF Signing
    <3>4. QED  BY <2>2, <3>1, <3>2, <3>3
  <2>3. QED  BY <1>4, <2>1, <2>2
<1>10. RecentInv'  BY <1>1, <1>3, <1>7, RecentFrame
<1>11. NotedInv'
  <2> SUFFICES ASSUME NEW t \in Sides, CAName(t) = "own"
               PROVE  /\ ~Outdated(ca[t]["own"])
                           => (Made(NodeCert(t)) => Issued(NodeCert(t), Stages[stage[t]]))
                      /\ ~Outdated(ca[t]["own"])
                           => /\ Exists(before'[t]) => before'[t].data = Stages[stage[t]]
                              /\ t = "client" /\ Made(files) => Issued(files, Stages[stage[t]])
    BY <1>3, <1>6, <1>7 DEF NotedInv, Noting, Outdated, Made, Exists, Issued
  <2>1. before'[t] = before[t]  BY <1>6
  <2>2. QED  BY <1>1, <2>1 DEF NotedInv
<1>12. AccountStep
  <2>1. ASSUME NEW t \in Sides PROVE Due(t)' = Due(t)
    <3>1. ~Noting(t) /\ ~Noting(t)'  BY <1>3 DEF Noting, handleCASecret
    <3>2. Settled(t)' <=> Settled(t)
      <4>1. CASE t # s \/ UNCHANGED ca  BY <1>6, <1>7, <4>1 DEF Settled, Exists, Outdated
      <4>2. CASE t = s /\ ~UNCHANGED ca
        <5>1. /\ CAName(t) = "default" /\ ~Exists(ca[t]["default"])
              /\ ca'[t]["default"] = genCASecret
          BY <1>1, <1>2, <1>4, <4>2 DEF TypeInv, Names
        <5>2. Outdated(genCASecret)
          BY DEF Outdated, genCASecret, NoData, GeneratedKey
        <5>3. QED  BY <1>7, <5>1, <5>2 DEF Settled, Exists, Outdated
      <4>3. QED  BY <4>1, <4>2
    <3>3. Made(NodeCert(t))' <=> Made(NodeCert(t))  BY <1>7 DEF Made
    <3>4. Encrypted' = Encrypted  BY <1>3 DEF Encrypted
    <3>5. QED  BY <3>1, <3>2, <3>3, <3>4, DueFrame
  <2>2. \A b \in Charges : budget'[b] <= budget[b]  BY <1>1, <1>3 DEF TypeInv
  <2>3. QED  BY <1>1, <1>3, <1>5, <2>1, <2>2, AccountFrame
<1>13. QED  BY <1>5, <1>8, <1>9, <1>10, <1>11, <1>12 DEF Inv

\* The CA a certificate is made of may still sign, and is the last one once its checksum
\* is noted.
LEMMA ReadSigning ==
    ASSUME TypeInv, PassInv, SecretsInv, NotedInv, pc = "node",
           NEW c \in {ca[cur.side][cur.name], before[cur.side]}, Exists(c)
    PROVE  /\ c.data \in Signing(cur.side)
           /\ CAName(cur.side) = "own" /\ (~Outdated(ca[cur.side]["own"]) \/ c = ca[cur.side][cur.name])
                => c.data = Stages[stage[cur.side]]
<1>1. cur.side \in Sides /\ cur.name = CAName(cur.side) /\ cur.name \in Names
  BY SideFacts DEF PassInv, TypeInv, PassType
<1>2. CASE c = ca[cur.side][cur.name]
  <2>1. CASE cur.name = "own"
    BY <1>1, <1>2, <2>1 DEF SecretsInv, Signing
  <2>2. CASE cur.name = "default"
    BY <1>1, <1>2, <2>2 DEF SecretsInv
  <2>3. QED  BY <1>1, <2>1, <2>2 DEF Names
<1>3. CASE c = before[cur.side] /\ c # ca[cur.side][cur.name]
  BY <1>1, <1>3 DEF SecretsInv, NotedInv
<1>4. QED  BY <1>2, <1>3

LEMMA NodeSecretInv ==
    ASSUME Inv, handleNodeSecret PROVE Inv' /\ AccountStep
<1> USE DEF userVars, secretVars, runVars, workloadVars
<1>1. TypeInv /\ PassInv /\ SecretsInv /\ RecentInv /\ NotedInv  BY DEF Inv
<1>s. PICK s \in Sides : s = cur.side  BY <1>1 DEF TypeInv, PassType
<1>n. PICK n \in Names : n = NodeName(s)  BY <1>1, SideFacts
<1>2. s \in Encrypted /\ ~Made(files) /\ pc = "node" /\ cur.name \in Names /\ cur.name = CAName(s)
  BY <1>1, <1>s DEF handleNodeSecret, PassInv, TypeInv, PassType
<1>3. TypeInv'  BY <1>1, NodeSecretType
<1>4. UNCHANGED <<scenario, stage, ca, before, pods, sts>> /\ Encrypted' = Encrypted
  BY DEF handleNodeSecret, Encrypted
<1>5. PICK c \in {ca[s][cur.name], before[s]} :
        /\ ReadCA(s, cur.name, c)
        /\ \/ EndPass /\ UNCHANGED <<node, serial>>
           \/ /\ Exists(c) /\ PutNode(s, n, c.data) /\ AfterSide /\ UNCHANGED files
              /\ ~Made(node[s][n])
           \/ AfterSide /\ UNCHANGED <<node, serial, files>>
           \/ /\ Exists(c) /\ PutNode(s, n, c.data) /\ Goto("annotate")
              /\ cur' = [cur EXCEPT !.ca = c, !.fresh = c = ca[s][cur.name]]
              /\ UNCHANGED files /\ Made(node[s][n]) /\ Outdated(c)
  BY <1>s, <1>n DEF handleNodeSecret
<1>b. /\ {"delete", "edit", "fault"} \subseteq Charges
      /\ \A b \in Charges : budget[b] \in Nat /\ budget'[b] \in Nat /\ budget'[b] <= budget[b]
      /\ \A b \in Charges : b # "fault" => budget'[b] = budget[b]
      /\ c # ca[s][cur.name] => budget'["fault"] = budget["fault"] - 1
  <2>1. \A b \in Charges : budget[b] \in Nat /\ budget'[b] \in Nat  BY <1>1, <1>3 DEF TypeInv
  <2>2. {"delete", "edit", "fault"} \subseteq Charges  BY DEF Charges
  <2>3. QED  BY <1>1, <1>5, <2>1, <2>2, ReadBudget
<1>N. \A t \in Sides : ~Noting(t)  BY <1>2 DEF Noting
<1>6. CASE EndPass /\ UNCHANGED <<node, serial>>
  <2>1. PassOnly  BY <1>4, <1>6 DEF PassOnly, EndPass, Labels, handleNodeSecret
  <2>2. Inv' /\ \A t \in Sides : Due(t)' = Due(t)  BY <1>3, <1>N, <2>1, PassOnlyInv
  <2>3. AccountStep  BY <1>1, <1>3, <1>4, <1>6, <1>b, <2>2, AccountFrame
  <2>4. QED  BY <2>2, <2>3
<1>7. ASSUME UNCHANGED files,
             \/ AfterSide /\ UNCHANGED <<node, serial>>
             \/ AfterSide /\ Exists(c) /\ PutNode(s, n, c.data) /\ ~Made(node[s][n])
             \/ /\ Exists(c) /\ PutNode(s, n, c.data) /\ Goto("annotate")
                /\ cur' = [cur EXCEPT !.ca = c, !.fresh = c = ca[s][cur.name]]
                /\ Made(node[s][n]) /\ Outdated(c)
      PROVE  Inv' /\ AccountStep
  <2>1. c \in CAType /\ c.data \in DataType  BY <1>1, <1>s, ReadFacts
  <2>2. \/ UNCHANGED <<node, serial>> /\ AfterSide
        \/ /\ Exists(c) /\ node'[s][n] = genNodeSecret(c.data, serial + 1) /\ Made(node'[s][n])
           /\ \A t \in Sides, m \in Names : t # s \/ m # n => node'[t][m] = node[t][m]
    BY <1>1, <1>2, <1>7, <2>1, PutNodeType
  <2>3. \A t \in Sides : Made(node'[t]["own"]) <=> Made(node[t]["own"])
    <3>1. n = "own" => Made(node[s]["own"])  BY <1>n DEF NodeName
    <3>2. "own" \in Names  BY DEF Names
    <3>3. QED  BY <1>2, <2>2, <3>1, <3>2 DEF Made
  <2>4. \A t \in Sides : /\ CAName(t)' = CAName(t) /\ NodeName(t)' = NodeName(t)
                         /\ Signing(t)' = Signing(t) /\ Recent(t)' = Recent(t)
    BY <1>4, <2>3, NamesFrame DEF Exists, Made
  <2>5. \A t \in Sides : t # s => NodeCert(t)' = NodeCert(t)
    <3>1. \A t \in Sides : NodeName(t) \in Names  BY <1>1, SideFacts
    <3>2. QED  BY <2>2, <2>4, <3>1 DEF NodeCert
  <2>6. \/ NodeCert(s)' = NodeCert(s) /\ AfterSide
        \/ Exists(c) /\ Issued(NodeCert(s)', c.data)
    <3>1. Issued(genNodeSecret(c.data, serial + 1), c.data)
      BY DEF Issued, genNodeSecret
    <3>2. NodeCert(s)' = node'[s][n]  BY <1>n, <2>4 DEF NodeCert
    <3>3. QED  BY <1>n, <2>2, <3>1, <3>2 DEF NodeCert
  <2>7. Exists(c) => /\ c.data \in Signing(s)
                     /\ CAName(s) = "own" /\ (~Outdated(ca[s]["own"]) \/ c = ca[s][cur.name])
                           => c.data = Stages[stage[s]]
    BY <1>1, <1>2, <1>s, ReadSigning
  <2>8. \/ pc' \in {"ca", "files", "read"}
        \/ /\ pc' = "annotate" /\ cur'.side = s /\ cur'.name = cur.name /\ cur'.ca = c
           /\ cur'.fresh = (c = ca[s][cur.name]) /\ Exists(c) /\ ~AfterSide
    <3>1. CASE AfterSide  BY <3>1, AfterSideFacts
    <3>2. CASE /\ Exists(c) /\ Goto("annotate") /\ ~AfterSide
               /\ cur' = [cur EXCEPT !.ca = c, !.fresh = c = ca[s][cur.name]]
      BY <1>1, <1>s, <3>2 DEF Goto, TypeInv, PassType
    <3>3. QED  BY <1>7, <3>1, <3>2
  <2>9. PassInv'
    <3>1. CASE pc' \in {"ca", "files", "read"}
      <4>1. AfterSide  BY <1>7, <3>1 DEF Goto
      <4>2. QED  BY <1>2, <1>4, <1>7, <3>1, <4>1, AfterSideFacts DEF PassInv, Made
    <3>2. CASE pc' = "annotate"
      BY <1>2, <1>4, <1>7, <2>4, <2>8, <3>2 DEF PassInv, Made, Exists
    <3>3. QED  BY <2>8, <3>1, <3>2
  <2>10. SecretsInv'
    BY <1>1, <1>4, <2>3, <2>4 DEF SecretsInv, Exists, Made, Outdated
  <2>11. RecentInv'
    <3>1. InUse(NodeCert(s), s)'
      <4>1. CASE NodeCert(s)' = NodeCert(s)
        BY <1>1, <1>2, <2>4, <4>1 DEF RecentInv, InUse, Made, Issued
      <4>2. CASE Exists(c) /\ Issued(NodeCert(s)', c.data)
        <5>1. c.data \in Recent(s)'  BY <1>2, <2>4, <2>7, <4>2 DEF Recent
        <5>2. QED  BY <4>2, <5>1 DEF InUse, Made, Issued
      <4>3. QED  BY <2>6, <4>1, <4>2
    <3>2. \A t \in Sides : InUse(NodeCert(t), t)'
      <4> SUFFICES ASSUME NEW t \in Sides, t # s PROVE InUse(NodeCert(t), t)'
        BY <3>1
      <4>1. QED  BY <1>1, <2>4, <2>5 DEF RecentInv, InUse, Made, Issued
    <3>3. \A t \in Sides, p \in Pods : InUse(pods[p].certs[t], t)'
      BY <1>1, <1>4, <2>4 DEF RecentInv, InUse, Made, Issued
    <3>4. \A t \in Encrypted, p \in Pods : (Up(p) => Made(pods[p].certs[t]))'
      BY <1>1, <1>4 DEF RecentInv, Made, Up
    <3>5. InUse(files, "client")'  BY <1>2, <1>7 DEF InUse, Made
    <3>6. QED  BY <1>4, <3>2, <3>3, <3>4, <3>5 DEF RecentInv
  <2>12. NotedInv'
    <3> SUFFICES ASSUME NEW t \in Sides, CAName(t) = "own"
                 PROVE  /\ ~Outdated(ca[t]["own"]) \/ Noting(t)'
                             => (Made(NodeCert(t)') => Issued(NodeCert(t)', Stages[stage[t]]))
                        /\ ~Outdated(ca[t]["own"])
                             => (Exists(before[t]) => before[t].data = Stages[stage[t]])
      BY <1>2, <1>4, <1>7, <2>4 DEF NotedInv, Noting, Outdated, Made, Exists, Issued
    <3>1. ~Outdated(ca[t]["own"]) => (Exists(before[t]) => before[t].data = Stages[stage[t]])
      BY <1>1 DEF NotedInv
    <3>2. CASE t # s
      <4>1. ~Noting(t)'  BY <2>8, <3>2 DEF Noting
      <4>2. QED  BY <1>1, <2>5, <3>1, <3>2, <4>1 DEF NotedInv
    <3>3. CASE t = s /\ NodeCert(s)' = NodeCert(s) /\ AfterSide
      <4>1. ~Noting(t)'  BY <2>8, <3>3 DEF Noting
      <4>2. QED  BY <1>1, <3>1, <3>3, <4>1 DEF NotedInv
    <3>4. CASE t = s /\ Exists(c) /\ Issued(NodeCert(s)', c.data)
      <4>1. Noting(t)' => c = ca[s][cur.name]  BY <2>8 DEF Noting
      <4>2. QED  BY <2>7, <3>1, <3>4, <4>1
    <3>5. QED  BY <2>6, <3>2, <3>3, <3>4
  <2>13. /\ \A t \in Sides : Settled(t)' <=> Settled(t)
         /\ \A t \in Sides : t # s => ~Noting(t)'
         /\ AfterSide => ~Noting(s)'
    <3>1. \A t \in Sides : Settled(t)' <=> Settled(t)
      BY <1>4, <2>4 DEF Settled, Exists, Outdated
    <3>2. \A t \in Sides : t # s => ~Noting(t)'  BY <2>8 DEF Noting
    <3>3. AfterSide => ~Noting(s)'  BY <2>8 DEF Noting
    <3>4. QED  BY <3>1, <3>2, <3>3
  <2>14. \A t \in Sides : t # s => Due(t)' = Due(t)
    BY <1>4, <1>N, <2>5, <2>13, DueFrame DEF Made
  <2>15. Missing(s) = (IF Made(node[s][n]) THEN 0 ELSE 1) /\ NodeCert(s)' = node'[s][n]
    BY <1>n, <2>4 DEF Missing, NodeCert
  <2>16. serial \in Nat /\ serial' \in Nat /\ Due(s) \in 0..2 /\ Due(s)' \in 0..2
    BY <1>1, <1>3 DEF TypeInv, Due, Missing, ToNote
  <2>17. serial' + Due(s)' <= serial + Due(s) + (budget["fault"] - budget'["fault"])
    <3>1. CASE AfterSide /\ UNCHANGED <<node, serial>>
      <4>1. NodeCert(s)' = NodeCert(s)  BY <2>4, <3>1 DEF NodeCert
      <4>2. Made(NodeCert(s))' <=> Made(NodeCert(s))  BY <4>1 DEF Made
      <4>3. (Settled(s) \/ Noting(s))' <=> (Settled(s) \/ Noting(s))  BY <1>N, <2>13, <3>1
      <4>4. Due(s)' = Due(s)  BY <1>4, <4>2, <4>3, DueFrame
      <4>5. QED  BY <1>b, <2>16, <3>1, <4>4
    <3>2. CASE AfterSide /\ Exists(c) /\ PutNode(s, n, c.data) /\ ~Made(node[s][n])
      <4>1. serial' = serial + 1 /\ Made(node'[s][n])  BY <1>1, <2>1, <3>2, PutNodeType
      <4>2. Missing(s) = 1 /\ Missing(s)' = 0  BY <2>15, <3>2, <4>1 DEF Missing, Made
      <4>3. ToNote(s)' = ToNote(s)  BY <1>N, <2>13, <3>2 DEF ToNote
      <4>4. Due(s) = Due(s)' + 1
        BY <1>2, <1>4, <4>2, <4>3, DueFacts DEF Due, ToNote
      <4>5. QED  BY <1>b, <2>16, <4>1, <4>4
    <3>3. CASE /\ Exists(c) /\ PutNode(s, n, c.data) /\ Goto("annotate")
               /\ cur' = [cur EXCEPT !.ca = c, !.fresh = c = ca[s][cur.name]]
               /\ Made(node[s][n]) /\ Outdated(c)
      <4>1. serial' = serial + 1 /\ Made(node'[s][n])  BY <1>1, <2>1, <3>3, PutNodeType
      <4>2. Missing(s) = 0 /\ Missing(s)' = 0  BY <2>15, <3>3, <4>1 DEF Missing, Made
      <4>3. CASE c = ca[s][cur.name]
        <5>1. ~Settled(s)  BY <1>2, <3>3, <4>3 DEF Settled
        <5>2. pc' = "annotate"  BY <3>3 DEF Goto
        <5>3. Noting(s)'  BY <2>8, <4>3, <5>2 DEF Noting
        <5>4. ToNote(s) = 1 /\ ToNote(s)' = 0  BY <1>N, <5>1, <5>3 DEF ToNote
        <5>5. Due(s) = Due(s)' + 1  BY <1>2, <1>4, <4>2, <5>4 DEF Due
        <5>6. QED  BY <1>b, <2>16, <4>1, <5>5
      <4>4. CASE c # ca[s][cur.name]
        <5>1. ~Noting(s)'  BY <2>8, <4>4 DEF Noting
        <5>2. Due(s)' = Due(s)
          BY <1>4, <1>N, <2>13, <3>3, <4>1, <5>1, <2>15, DueFrame DEF Made, NodeCert, Due, Missing, ToNote
        <5>3. QED  BY <1>b, <2>16, <4>1, <4>4, <5>2
      <4>5. QED  BY <4>3, <4>4
    <3>4. QED  BY <1>7, <3>1, <3>2, <3>3
  <2>18. AccountStep
    <3>1. Changes(s)' = Changes(s) /\ Changes(s) \in Nat  BY <1>1, <1>3, <1>4, SpentFacts
    <3>2. serial' + Due(s)' <= serial + Due(s) + (Changes(s)' - Changes(s))
                                 + (budget["delete"] - budget'["delete"])
                                 + (budget["edit"] - budget'["edit"])
                                 + (budget["fault"] - budget'["fault"])
      BY <1>b, <2>16, <2>17, <3>1
    <3>3. QED  BY <1>1, <1>3, <1>4, <2>14, <3>2, Account
  <2>19. QED  BY <1>3, <2>9, <2>10, <2>11, <2>12, <2>18 DEF Inv
<1>8. QED  BY <1>5, <1>6, <1>7

LEMMA NoteChecksumInv ==
    ASSUME Inv, NoteChecksum PROVE Inv' /\ AccountStep
<1> USE DEF userVars, secretVars, runVars, workloadVars
<1>1. TypeInv /\ PassInv /\ SecretsInv /\ RecentInv /\ NotedInv  BY DEF Inv
<1>s. PICK s \in Sides : s = cur.side  BY <1>1 DEF TypeInv, PassType
<1>n. PICK n \in Names : n = cur.name  BY <1>1 DEF TypeInv, PassType
<1>2. /\ s \in Encrypted /\ ~Made(files) /\ pc = "annotate" /\ n = CAName(s) /\ Exists(cur.ca)
      /\ cur.ca \in CAType
  BY <1>1, <1>s, <1>n DEF NoteChecksum, PassInv, TypeInv, PassType
<1>4. UNCHANGED <<scenario, stage, node, serial, pods, sts, budget>> /\ Encrypted' = Encrypted
  BY DEF NoteChecksum, Encrypted
<1>b. \A b \in Charges : budget'[b] <= budget[b]  BY <1>1, <1>4 DEF TypeInv
<1>5. CASE ~cur.fresh
  <2>1. EndPass /\ UNCHANGED <<ca, before>>  BY <1>5 DEF NoteChecksum
  <2>2. TypeInv'  BY <1>1, <1>4, <2>1, EndPassType DEF TypeInv
  <2>3. /\ UNCHANGED <<userVars, secretVars, runVars>> /\ pc' = "idle" /\ files' = NoCert
    BY <1>4, <2>1 DEF EndPass, NoteChecksum
  <2>4. PassOnly  BY <2>3 DEF PassOnly, Labels
  <2>5. \A t \in Sides : ~Noting(t)  BY <1>5 DEF Noting
  <2>6. Inv' /\ \A t \in Sides : Due(t)' = Due(t)  BY <2>2, <2>4, <2>5, PassOnlyInv
  <2>7. QED  BY <1>1, <1>4, <1>b, <2>2, <2>6, AccountFrame
<1>6. CASE cur.fresh
  <2>1. /\ ca' = [ca EXCEPT ![s][n] = Noted(cur.ca)] /\ before' = [before EXCEPT ![s] = cur.ca]
        /\ AfterSide /\ files' = files /\ cur.ca = ca[s][n]
    BY <1>1, <1>6, <1>s, <1>n DEF NoteChecksum, PassInv
  <2>2. /\ Noted(cur.ca) \in CAType /\ Noted(cur.ca).data = ca[s][n].data
        /\ Exists(Noted(cur.ca))
    BY <1>2, <2>1, SecretTypes DEF Exists
  <2>3. /\ ca' \in [Sides -> [Names -> CAType]] /\ before' \in [Sides -> CAType]
        /\ ca'[s][n] = Noted(cur.ca) /\ before'[s] = cur.ca
        /\ \A t \in Sides, m \in Names : t # s \/ m # n => ca'[t][m] = ca[t][m]
        /\ \A t \in Sides : t # s => before'[t] = before[t]
    <3>1. ca \in [Sides -> [Names -> CAType]] /\ before \in [Sides -> CAType]
      BY <1>1 DEF TypeInv
    <3>2. [ca[s] EXCEPT ![n] = Noted(cur.ca)] \in [Names -> CAType]  BY <2>2, <3>1
    <3>3. QED  BY <1>2, <2>1, <2>2, <3>1, <3>2
  <2>4. TypeInv'
    BY <1>1, <1>4, <2>1, <2>3, AfterSideType DEF TypeInv
  <2>5. \A t \in Sides, m \in Names : /\ ca'[t][m].data = ca[t][m].data
                                      /\ Exists(ca'[t][m]) <=> Exists(ca[t][m])
    BY <2>2, <2>3 DEF Exists
  <2>6. \A t \in Sides : /\ CAName(t)' = CAName(t) /\ NodeName(t)' = NodeName(t)
                         /\ Signing(t)' = Signing(t) /\ Recent(t)' = Recent(t)
                         /\ NodeCert(t)' = NodeCert(t)
    <3>1. "own" \in Names  BY DEF Names
    <3>2. \A t \in Sides : Exists(ca[t]["own"])' <=> Exists(ca[t]["own"])
      BY <2>5, <3>1 DEF Exists
    <3>3. QED  BY <1>4, <3>2, NamesFrame DEF NodeCert, Made
  <2>7. PassInv'  BY <1>2, <1>4, <2>1, AfterSideFacts DEF PassInv, Made
  <2>8. cur.ca.data \in Signing(s) /\ (n = "own" => cur.ca.data = Stages[stage[s]])
    <3>1. CASE n = "own"  BY <1>1, <1>2, <2>1, <3>1 DEF SecretsInv, Signing
    <3>2. CASE n = "default"  BY <1>1, <1>2, <2>1, <3>2 DEF SecretsInv
    <3>3. QED  BY <3>1, <3>2 DEF Names
  <2>9. SecretsInv'
    <3> SUFFICES ASSUME NEW t \in Sides
                 PROVE  /\ Exists(ca'[t]["own"]) => "ca" \in scenario.has
                        /\ CAName(t) = "own" => ca'[t]["own"].data = Stages[stage[t]]
                        /\ CAName(t) = "default" =>
                              /\ ~Exists(ca'[t]["own"]) \/ Outdated(ca'[t]["own"])
                              /\ Exists(ca'[t]["default"]) => ca'[t]["default"].data \in Signing(t)
                              /\ stage[t] = 1
                        /\ Exists(before'[t]) => before'[t].data \in Signing(t)
      BY <1>1, <1>4, <2>6 DEF SecretsInv, Exists, Made, Outdated
    <3>1. "own" \in Names /\ "default" \in Names  BY DEF Names
    <3>2. Exists(before'[t]) => before'[t].data \in Signing(t)
      BY <1>1, <2>3, <2>8 DEF SecretsInv
    <3>3. CAName(t) = "default" => ca'[t]["own"] = ca[t]["own"]
      BY <1>2, <2>3, <3>1
    <3>4. QED  BY <1>1, <2>5, <3>1, <3>2, <3>3 DEF SecretsInv
  <2>10. RecentInv'  BY <1>1, <1>4, <2>1, <2>6, RecentFrame
  <2>11. NotedInv'
    <3>0. pc' # "annotate"  BY <2>1, AfterSideFacts
    <3> SUFFICES ASSUME NEW t \in Sides, CAName(t) = "own", ~Outdated(ca'[t]["own"])
                 PROVE  /\ Made(NodeCert(t)) => Issued(NodeCert(t), Stages[stage[t]])
                        /\ Exists(before'[t]) => before'[t].data = Stages[stage[t]]
      BY <1>2, <1>4, <2>1, <2>6, <3>0 DEF NotedInv, Noting, Outdated, Made, Exists, Issued
    <3>1. "own" \in Names  BY DEF Names
    <3>2. CASE t = s
      <4>1. Noting(t)  BY <1>2, <1>6, <1>s, <3>2 DEF Noting
      <4>2. QED  BY <1>1, <1>2, <2>3, <2>8, <3>2, <4>1 DEF NotedInv
    <3>3. CASE t # s
      <4>1. ca'[t]["own"] = ca[t]["own"] /\ before'[t] = before[t]  BY <2>3, <3>1, <3>3
      <4>2. QED  BY <1>1, <4>1 DEF NotedInv
    <3>4. QED  BY <3>2, <3>3
  <2>12. ASSUME NEW t \in Sides PROVE Due(t)' = Due(t)
    <3>1. Made(NodeCert(t))' <=> Made(NodeCert(t))  BY <2>6 DEF Made
    <3>2. CASE t = s
      <4>1. Noting(t)  BY <1>2, <1>6, <1>s, <3>2 DEF Noting
      <4>2. ~Outdated(Noted(cur.ca))  BY <1>2, SecretTypes DEF Outdated
      <4>3. Settled(t)'  BY <1>2, <2>2, <2>3, <2>6, <3>2, <4>2 DEF Settled, Exists, Outdated
      <4>4. QED  BY <1>4, <3>1, <4>1, <4>3, DueFrame
    <3>3. CASE t # s
      <4>1. ~Noting(t) /\ ~Noting(t)'  BY <1>s, <2>1, <3>3, AfterSideFacts DEF Noting
      <4>2. CAName(t) \in Names  BY <1>1, SideFacts
      <4>3. Settled(t)' <=> Settled(t)  BY <2>3, <2>6, <3>3, <4>2 DEF Settled, Exists, Outdated
      <4>4. QED  BY <1>4, <3>1, <4>1, <4>3, DueFrame
    <3>4. QED  BY <3>2, <3>3
  <2>13. AccountStep  BY <1>1, <1>4, <1>b, <2>4, <2>12, AccountFrame
  <2>14. QED  BY <2>4, <2>7, <2>9, <2>10, <2>11, <2>13 DEF Inv
<1>7. QED  BY <1>5, <1>6

\* A pod starts, for the first time or once more.
LEMMA PodInv ==
    ASSUME Inv, NEW p \in Pods, StartPod(p) \/ PodFails(p) PROVE Inv' /\ AccountStep
<1> USE DEF userVars, secretVars, runVars, workloadVars, passVars
<1>1. TypeInv /\ PassInv /\ SecretsInv /\ RecentInv /\ NotedInv  BY DEF Inv
<1>2. /\ UNCHANGED <<scenario, stage, ca, node, serial, sts, pc, cur, files>> /\ Encrypted' = Encrypted
      /\ before' = [s \in Sides |-> NoCA] /\ Mountable /\ budget' \in [Charges -> Nat]
      /\ \A b \in Charges : budget'[b] <= budget[b]
  <2>1. "fault" \in Charges  BY DEF Charges
  <2>2. QED  BY <1>1, <2>1, SpendType DEF StartPod, PodFails, Encrypted, TypeInv
<1>3. /\ pods' \in [Pods -> PodType] /\ pods'[p].certs = Current
      /\ \A q \in Pods : q # p => pods'[q] = pods[q]
  <2>1. pods \in [Pods -> PodType] /\ sts \in [Sides -> Nat] /\ Current \in [Sides -> CertType]
    BY <1>1, CurrentType DEF TypeInv
  <2>2. CASE pods' = [pods EXCEPT ![p] = [sums |-> sts, certs |-> Current]]
    BY <2>1, <2>2 DEF PodType
  <2>3. CASE pods' = [pods EXCEPT ![p].certs = Current]
    BY <2>1, <2>3 DEF PodType
  <2>4. QED  BY <2>2, <2>3 DEF StartPod, PodFails
<1>4. TypeInv'
  BY <1>1, <1>2, <1>3, ZeroTypes DEF TypeInv
<1>5. \A t \in Sides : /\ CAName(t)' = CAName(t) /\ NodeName(t)' = NodeName(t)
                       /\ Signing(t)' = Signing(t) /\ Recent(t)' = Recent(t)
                       /\ NodeCert(t)' = NodeCert(t) /\ ~Exists(before'[t])
  BY <1>2, NamesFrame DEF NodeCert, Exists, Made, NoCA
<1>6. PassInv'  BY <1>1, <1>2, <1>5 DEF PassInv, Made, Exists, TypeInv, PassType
<1>7. SecretsInv'  BY <1>1, <1>2, <1>5 DEF SecretsInv, Exists, Made, Outdated
<1>8. RecentInv'
  <2>1. \A t \in Sides : Current[t] = NoCert \/ Current[t] = NodeCert(t)  BY DEF Current
  <2>2. \A t \in Encrypted : Made(Current[t])
    BY <1>1, <1>2, SideFacts DEF Current, Mountable
  <2>3. \A t \in Sides : InUse(NodeCert(t), t)'
    BY <1>1, <1>2, <1>5 DEF RecentInv, InUse, Made, Issued
  <2>4. \A t \in Sides, q \in Pods : InUse(pods[q].certs[t], t)'
    <3> SUFFICES ASSUME NEW t \in Sides, NEW q \in Pods PROVE InUse(pods[q].certs[t], t)'
      OBVIOUS
    <3>1. CASE q = p
      BY <1>1, <1>3, <1>5, <2>1, <3>1 DEF RecentInv, InUse, Made, Issued
    <3>2. CASE q # p
      BY <1>1, <1>3, <1>5, <3>2 DEF RecentInv, InUse, Made, Issued
    <3>3. QED  BY <3>1, <3>2
  <2>5. \A t \in Encrypted, q \in Pods : (Up(q) => Made(pods[q].certs[t]))'
    <3>1. \A t \in Encrypted, q \in Pods : pods'[q] # NoPod => Made(pods'[q].certs[t])
      BY <1>1, <1>3, <2>2 DEF RecentInv, Up
    <3>2. QED  BY <3>1 DEF Up, Made
  <2>6. InUse(files, "client")'
    <3>1. "client" \in Sides  BY DEF Sides
    <3>2. QED  BY <1>1, <1>2, <1>5, <3>1 DEF RecentInv, InUse, Made, Issued
  <2>7. QED  BY <1>2, <2>3, <2>4, <2>5, <2>6 DEF RecentInv
<1>9. NotedInv'
  BY <1>1, <1>2, <1>5 DEF NotedInv, Noting, Outdated, Made, Exists, Issued
<1>10. AccountStep
  <2>1. \A t \in Sides : Due(t)' = Due(t)
    BY <1>2, <1>5, DueFrame DEF Made, Settled, Noting, Exists, Outdated
  <2>2. QED  BY <1>1, <1>2, <1>4, <2>1, AccountFrame
<1>11. QED  BY <1>4, <1>6, <1>7, <1>8, <1>9, <1>10 DEF Inv

\* The next step of the replacement of the CA.
LEMMA UpdateCAInv ==
    ASSUME Inv, NEW s \in Sides, UpdateCA(s) PROVE Inv' /\ AccountStep
<1> USE DEF userVars, secretVars, runVars, workloadVars, passVars
<1> DEFINE i == stage[s]
<1>1. TypeInv /\ PassInv /\ SecretsInv /\ RecentInv /\ NotedInv  BY DEF Inv
<1>2. /\ UNCHANGED <<scenario, node, serial, sts, pods, files, pc, budget>> /\ Encrypted' = Encrypted
      /\ s \in Encrypted /\ Exists(ca[s]["own"]) /\ ~Outdated(ca[s]["own"])
      /\ \A p \in Pods : pods[p].certs[s] = NodeCert(s)
  BY DEF UpdateCA, Restarted, Encrypted
<1>3. /\ CAName(s) = "own" /\ ca[s]["own"].data = Stages[i]
      /\ Made(NodeCert(s)) => Issued(NodeCert(s), Stages[i])
      /\ s = "client" /\ Made(files) => Issued(files, Stages[i])
  <2>1. CAName(s) = "own"  BY <1>1, <1>2, SideFacts DEF SecretsInv, Names
  <2>2. QED  BY <1>1, <1>2, <2>1 DEF SecretsInv, NotedInv
<1>4. /\ i \in 1..Len(Stages) /\ i + 1 \in 1..Len(Stages) /\ stage' = [stage EXCEPT ![s] = i + 1]
      /\ Stages[i + 1] \in DataType /\ Stages[i + 1] # NoData
  <2>1. i \in 1..Len(Stages) /\ i < Len(Stages) /\ Len(Stages) \in Nat
    BY <1>1, CertificatesAssumption DEF TypeInv, UpdateCA
  <2>2. i + 1 \in 1..Len(Stages)  BY <2>1
  <2>3. Stages[i + 1] \in DataType \ {NoData}  BY <2>2, CertificatesAssumption
  <2>4. QED  BY <2>1, <2>2, <2>3 DEF UpdateCA
<1>5. /\ ca' \in [Sides -> [Names -> CAType]] /\ before' \in [Sides -> CAType]
      /\ ca'[s]["own"].data = Stages[i + 1] /\ ca'[s]["own"].sum = Stages[i]
      /\ \A t \in Sides, m \in Names : t # s \/ m # "own" => ca'[t][m] = ca[t][m]
      /\ before'[s].data = Stages[i] /\ \A t \in Sides : t # s => before'[t] = before[t]
  <2>1. ca \in [Sides -> [Names -> CAType]] /\ before \in [Sides -> CAType] /\ "own" \in Names
    BY <1>1 DEF TypeInv, Names
  <2>2. /\ ca' = [ca EXCEPT ![s]["own"].data = Stages[i + 1]]
        /\ before' = [before EXCEPT ![s] = ca[s]["own"]]
    BY DEF UpdateCA
  <2>3. ca[s]["own"] \in CAType /\ ca[s]["own"].sum = Stages[i]
    BY <1>2, <1>3, <2>1 DEF Outdated
  <2>4. PICK c : c = [ca[s]["own"] EXCEPT !.data = Stages[i + 1]]  OBVIOUS
  <2>5. c \in CAType /\ c.data = Stages[i + 1] /\ c.sum = Stages[i]
    BY <1>4, <2>3, <2>4 DEF CAType
  <2>6. ca' = [ca EXCEPT ![s]["own"] = c]  BY <2>1, <2>2, <2>4
  <2>7. [ca[s] EXCEPT !["own"] = c] \in [Names -> CAType]  BY <2>1, <2>5
  <2> HIDE DEF i
  <2>8. ca' \in [Sides -> [Names -> CAType]] /\ ca'[s]["own"] = c
          /\ \A t \in Sides, m \in Names : t # s \/ m # "own" => ca'[t][m] = ca[t][m]
    BY <2>1, <2>6, <2>7
  <2>9. before' \in [Sides -> CAType] /\ before'[s].data = Stages[i]
          /\ \A t \in Sides : t # s => before'[t] = before[t]
    BY <1>3, <2>1, <2>2, <2>3
  <2>10. QED  BY <2>5, <2>8, <2>9
<1>6. /\ cur' \in PassType /\ cur'.side = cur.side /\ cur'.name = cur.name /\ cur'.ca = cur.ca
      /\ cur'.fresh = (cur.fresh /\ cur.side # s)
  BY <1>1 DEF UpdateCA, TypeInv, PassType
<1>7. TypeInv'
  <2>1. stage' \in [Sides -> 1..Len(Stages)]  BY <1>1, <1>4 DEF TypeInv
  <2>2. QED  BY <1>1, <1>2, <1>5, <1>6, <2>1 DEF TypeInv
<1>8. /\ stage'[s] = i + 1 /\ \A t \in Sides : t # s => stage'[t] = stage[t]
  BY <1>1, <1>4 DEF TypeInv
<1>9. /\ \A t \in Sides : CAName(t)' = CAName(t) /\ NodeName(t)' = NodeName(t) /\ NodeCert(t)' = NodeCert(t)
      /\ \A t \in Sides : t # s => Signing(t)' = Signing(t) /\ Recent(t)' = Recent(t)
  <2>1. "own" \in Names  BY DEF Names
  <2>2. \A t \in Sides : Exists(ca[t]["own"])' <=> Exists(ca[t]["own"])
    BY <1>2, <1>4, <1>5, <2>1 DEF Exists
  <2>3. QED  BY <1>2, <1>8, <2>2, NamesFrame DEF NodeCert, Made
<1>10. Signing(s)' = {Stages[i + 1], Stages[i]} /\ Signing(s)' \subseteq Recent(s)'
  <2>1. i + 1 > 1 /\ (i + 1) - 1 = i  BY <1>4
  <2>2. QED  BY <1>3, <1>8, <1>9, <2>1 DEF Signing, Recent
<1> HIDE DEF i
<1>11. PassInv'
  <2>1. pc \in {"node", "annotate"} => cur'.name = CAName(cur.side)'
    <3>1. PICK t \in Sides : t = cur.side  BY <1>1 DEF TypeInv, PassType
    <3>2. CAName(cur.side)' = CAName(t)'  BY <1>6, <3>1 DEF CAName
    <3>3. QED  BY <1>1, <1>6, <1>9, <3>1, <3>2 DEF PassInv
  <2>2. pc = "annotate" /\ cur'.fresh => cur'.ca = ca'[cur'.side][cur'.name]
    <3>1. cur.side \in Sides /\ cur.name \in Names  BY <1>1 DEF TypeInv, PassType
    <3>2. cur.side # s => ca'[cur.side][cur.name] = ca[cur.side][cur.name]  BY <1>5, <3>1
    <3>3. pc = "annotate" /\ cur.fresh => cur.ca = ca[cur.side][cur.name]  BY <1>1 DEF PassInv
    <3>4. QED  BY <1>6, <3>2, <3>3
  <2>3. QED  BY <1>1, <1>2, <1>6, <2>1, <2>2 DEF PassInv, Exists, Made
<1>12. SecretsInv'
  <2> SUFFICES ASSUME NEW t \in Sides
               PROVE  /\ Exists(ca'[t]["own"]) => "ca" \in scenario.has
                      /\ CAName(t) = "own" => ca'[t]["own"].data = Stages[stage'[t]]
                      /\ CAName(t) = "default" =>
                            /\ ~Exists(ca'[t]["own"]) \/ Outdated(ca'[t]["own"])
                            /\ Exists(ca'[t]["default"]) => ca'[t]["default"].data \in Signing(t)'
                            /\ stage'[t] = 1
                      /\ Exists(before'[t]) => before'[t].data \in Signing(t)'
    BY <1>1, <1>2, <1>9 DEF SecretsInv, Exists, Made, Outdated
  <2>1. "own" \in Names /\ "default" \in Names  BY DEF Names
  <2>2. CASE t = s
    <3>1. "ca" \in scenario.has  BY <1>1, <1>2 DEF SecretsInv
    <3>2. QED  BY <1>3, <1>5, <1>8, <1>10, <2>2, <3>1
  <2>3. CASE t # s
    <3>1. ca'[t]["own"] = ca[t]["own"] /\ ca'[t]["default"] = ca[t]["default"] /\ before'[t] = before[t]
      BY <1>5, <2>1, <2>3
    <3>2. QED  BY <1>1, <1>8, <1>9, <2>3, <3>1 DEF SecretsInv
  <2>4. QED  BY <2>2, <2>3
<1>13. RecentInv'
  <2>1. \A t \in Sides : InUse(NodeCert(t), t)'
    <3> SUFFICES ASSUME NEW t \in Sides PROVE InUse(NodeCert(t), t)'
      OBVIOUS
    <3>1. CASE t = s
      BY <1>3, <1>9, <1>10, <3>1 DEF InUse, Made, Issued
    <3>2. CASE t # s  BY <1>1, <1>9, <3>2 DEF RecentInv, InUse, Made, Issued
    <3>3. QED  BY <3>1, <3>2
  <2>2. \A t \in Sides, p \in Pods : InUse(pods[p].certs[t], t)'
    <3> SUFFICES ASSUME NEW t \in Sides, NEW p \in Pods PROVE InUse(pods[p].certs[t], t)'
      OBVIOUS
    <3>1. CASE t = s
      <4>1. pods'[p].certs[t] = NodeCert(s)  BY <1>2, <3>1
      <4>2. QED  BY <1>3, <1>10, <3>1, <4>1 DEF InUse, Made, Issued
    <3>2. CASE t # s  BY <1>1, <1>2, <1>9, <3>2 DEF RecentInv, InUse, Made, Issued
    <3>3. QED  BY <3>1, <3>2
  <2>3. \A t \in Encrypted, p \in Pods : (Up(p) => Made(pods[p].certs[t]))'
    BY <1>1, <1>2 DEF RecentInv, Made, Up
  <2>4. InUse(files, "client")'
    <3>1. CASE s = "client"
      BY <1>2, <1>3, <1>10, <3>1 DEF InUse, Made, Issued
    <3>2. CASE s # "client"
      <4>1. "client" \in Sides  BY DEF Sides
      <4>2. QED  BY <1>1, <1>2, <1>9, <3>2, <4>1 DEF RecentInv, InUse, Made, Issued
    <3>3. QED  BY <3>1, <3>2
  <2>5. QED  BY <1>2, <2>1, <2>2, <2>3, <2>4 DEF RecentInv
<1>14. NotedInv'
  <2> SUFFICES ASSUME NEW t \in Sides, CAName(t) = "own"
               PROVE  /\ ~Outdated(ca'[t]["own"]) \/ Noting(t)'
                           => (Made(NodeCert(t)) => Issued(NodeCert(t), Stages[stage'[t]]))
                      /\ ~Outdated(ca'[t]["own"])
                           => /\ Exists(before'[t]) => before'[t].data = Stages[stage'[t]]
                              /\ t = "client" /\ Made(files) => Issued(files, Stages[stage'[t]])
    BY <1>2, <1>9 DEF NotedInv, Noting, Outdated, Made, Exists, Issued
  <2>1. "own" \in Names  BY DEF Names
  <2>2. CASE t = s
    <3>1. ~Noting(t)'  BY <1>6, <2>2 DEF Noting
    <3>2. ~Outdated(ca'[t]["own"]) => Stages[i + 1] = Stages[i]  BY <1>5, <2>2 DEF Outdated
    <3>3. QED  BY <1>3, <1>5, <1>8, <2>2, <3>1, <3>2
  <2>3. CASE t # s
    <3>1. ca'[t]["own"] = ca[t]["own"] /\ before'[t] = before[t] /\ stage'[t] = stage[t]
      BY <1>5, <1>8, <2>1, <2>3
    <3>2. Noting(t)' => Noting(t)  BY <1>2, <1>6 DEF Noting
    <3>3. QED  BY <1>1, <3>1, <3>2 DEF NotedInv
  <2>4. QED  BY <2>2, <2>3
<1>15. AccountStep
  <2>1. \A t \in Sides : t # s => Due(t)' = Due(t)
    <3> SUFFICES ASSUME NEW t \in Sides, t # s PROVE Due(t)' = Due(t)
      OBVIOUS
    <3>1. Made(NodeCert(t))' <=> Made(NodeCert(t))  BY <1>9 DEF Made
    <3>2. Noting(t)' <=> Noting(t)  BY <1>2, <1>6 DEF Noting
    <3>3. CAName(t) \in Names  BY <1>1, SideFacts
    <3>4. Settled(t)' <=> Settled(t)  BY <1>5, <1>9, <3>3 DEF Settled, Exists, Outdated
    <3>5. QED  BY <1>2, <3>1, <3>2, <3>4, DueFrame
  <2>2. Missing(s)' = Missing(s)  BY <1>9 DEF Missing, Made
  <2>3. Due(s) \in Nat /\ Due(s)' \in Nat /\ Due(s)' <= Due(s) + 1
    BY <1>2, <2>2 DEF Due, Missing, ToNote
  <2>4. Changes(s)' = Changes(s) + 1 /\ Changes(s) \in Nat
    BY <1>1, <1>2, <1>7, <1>8, SpentFacts DEF i
  <2>5. /\ serial \in Nat /\ {"delete", "edit", "fault"} \subseteq Charges
        /\ \A b \in Charges : budget[b] \in Nat
    BY <1>1 DEF TypeInv, Charges
  <2>6. serial' + Due(s)' <= serial + Due(s) + (Changes(s)' - Changes(s))
                               + (budget["delete"] - budget'["delete"])
                               + (budget["edit"] - budget'["edit"])
                               + (budget["fault"] - budget'["fault"])
    BY <1>2, <2>3, <2>4, <2>5
  <2>7. QED  BY <1>1, <1>2, <1>7, <1>8, <2>1, <2>6, Account
<1>16. QED  BY <1>7, <1>11, <1>12, <1>13, <1>14, <1>15 DEF Inv

\* The nodes' secret is deleted or edited.
LEMMA NodeEditInv ==
    ASSUME Inv, NEW s \in Sides, DeleteNode(s) \/ EditNode(s) PROVE Inv' /\ AccountStep
<1> USE DEF userVars, secretVars, runVars, workloadVars, passVars
<1>1. TypeInv /\ PassInv /\ SecretsInv /\ RecentInv /\ NotedInv  BY DEF Inv
<1>2. /\ UNCHANGED <<scenario, stage, ca, before, sts, pods, pc, cur, files>> /\ Encrypted' = Encrypted
  BY DEF DeleteNode, EditNode, Encrypted
<1>3. budget' \in [Charges -> Nat] /\ serial' \in Nat
  <2>1. "delete" \in Charges /\ "edit" \in Charges  BY DEF Charges
  <2>2. QED  BY <1>1, <2>1, SpendType DEF DeleteNode, EditNode, TypeInv
<1>4. PICK n \in Names : n = NodeName(s)  BY <1>1, SideFacts
<1>5. PICK c \in CertType :
        /\ node' = [node EXCEPT ![s][n] = c]
        /\ Made(c) => c.signer = node[s][n].signer /\ c.trusts = node[s][n].trusts /\ Made(node[s][n])
        /\ n = "own" => Made(c)
  <2>1. CASE DeleteNode(s)
    <3>1. n = "default" /\ node' = [node EXCEPT ![s][n] = NoCert]  BY <1>4, <2>1 DEF DeleteNode
    <3>2. QED  BY <3>1, ZeroTypes DEF Made
  <2>2. CASE EditNode(s)
    <3>1. n = "own" /\ node' = [node EXCEPT ![s][n] = [@ EXCEPT !.serial = serial + 1]]
      BY <1>4, <2>2 DEF EditNode
    <3>2. node[s][n] \in CertType /\ Made(node[s][n])
      BY <1>1, <1>4, <3>1 DEF TypeInv, NodeName
    <3>3. PICK c : c = [node[s][n] EXCEPT !.serial = serial + 1]  OBVIOUS
    <3>4. /\ c \in CertType /\ c.serial = serial + 1
          /\ c.signer = node[s][n].signer /\ c.trusts = node[s][n].trusts
      <4>1. serial + 1 \in Nat  BY <1>1 DEF TypeInv
      <4>2. QED  BY <3>2, <3>3, <4>1 DEF CertType
    <3>5. c # NoCert  BY <1>1, <3>4 DEF NoCert, TypeInv
    <3>6. node' = [node EXCEPT ![s][n] = c]  BY <1>1, <3>1, <3>3 DEF TypeInv
    <3>7. QED  BY <3>2, <3>4, <3>5, <3>6 DEF Made
  <2>3. QED  BY <2>1, <2>2
<1>6. /\ node' \in [Sides -> [Names -> CertType]] /\ node'[s][n] = c
      /\ \A t \in Sides, m \in Names : t # s \/ m # n => node'[t][m] = node[t][m]
  <2>1. node \in [Sides -> [Names -> CertType]]  BY <1>1 DEF TypeInv
  <2>2. [node[s] EXCEPT ![n] = c] \in [Names -> CertType]  BY <2>1
  <2>3. QED  BY <1>5, <2>1, <2>2
<1>7. TypeInv'  BY <1>1, <1>2, <1>3, <1>6 DEF TypeInv
<1>8. \A t \in Sides : Made(node'[t]["own"]) <=> Made(node[t]["own"])
  <2>1. "own" \in Names  BY DEF Names
  <2>2. n = "own" => Made(node[s]["own"])  BY <1>4 DEF NodeName
  <2>3. QED  BY <1>5, <1>6, <2>1, <2>2
<1>9. \A t \in Sides : /\ CAName(t)' = CAName(t) /\ NodeName(t)' = NodeName(t)
                       /\ Signing(t)' = Signing(t) /\ Recent(t)' = Recent(t)
  BY <1>2, <1>8, NamesFrame DEF Made, Exists
<1>10. \A t \in Sides :
          Made(NodeCert(t)') => /\ Made(NodeCert(t))
                                /\ \A d : Issued(NodeCert(t), d) => Issued(NodeCert(t)', d)
  <2>1. \A t \in Sides : NodeName(t) \in Names  BY <1>1, SideFacts
  <2>2. QED  BY <1>4, <1>5, <1>6, <1>9, <2>1 DEF NodeCert, Issued
<1>11. PassInv'  BY <1>1, <1>2, <1>9 DEF PassInv, Made, Exists, TypeInv, PassType
<1>12. SecretsInv'  BY <1>1, <1>2, <1>8, <1>9 DEF SecretsInv, Exists, Made, Outdated
<1>13. RecentInv'
  <2>1. \A t \in Sides : InUse(NodeCert(t), t)'
    <3> SUFFICES ASSUME NEW t \in Sides PROVE InUse(NodeCert(t), t)'
      OBVIOUS
    <3>1. InUse(NodeCert(t), t)  BY <1>1 DEF RecentInv
    <3>2. QED  BY <1>9, <1>10, <3>1 DEF InUse, Made, Issued
  <2>2. \A t \in Sides, p \in Pods : InUse(pods[p].certs[t], t)'
    BY <1>1, <1>2, <1>9 DEF RecentInv, InUse, Made, Issued
  <2>3. \A t \in Encrypted, p \in Pods : (Up(p) => Made(pods[p].certs[t]))'
    BY <1>1, <1>2 DEF RecentInv, Made, Up
  <2>4. InUse(files, "client")'
    <3>1. "client" \in Sides  BY DEF Sides
    <3>2. QED  BY <1>1, <1>2, <1>9, <3>1 DEF RecentInv, InUse, Made, Issued
  <2>5. QED  BY <1>2, <2>1, <2>2, <2>3, <2>4 DEF RecentInv
<1>14. NotedInv'
  <2> SUFFICES ASSUME NEW t \in Sides, CAName(t) = "own",
                      ~Outdated(ca[t]["own"]) \/ Noting(t), Made(NodeCert(t)')
               PROVE  Issued(NodeCert(t)', Stages[stage[t]])
    BY <1>1, <1>2, <1>9 DEF NotedInv, Noting, Outdated, Made, Exists, Issued
  <2>1. QED  BY <1>1, <1>10 DEF NotedInv
<1>15. AccountStep
  <2>1. \A t \in Sides : ToNote(t)' = ToNote(t)
    BY <1>2, <1>9 DEF ToNote, Settled, Noting, Exists, Outdated
  <2>2. \A t \in Sides : t # s => Due(t)' = Due(t)
    <3>1. \A t \in Sides : NodeName(t) \in Names  BY <1>1, SideFacts
    <3>2. \A t \in Sides : t # s => NodeCert(t)' = NodeCert(t)
      BY <1>6, <1>9, <3>1 DEF NodeCert
    <3>3. QED  BY <1>2, <2>1, <3>2 DEF Due, Missing, Made
  <2>3. /\ serial \in Nat /\ {"delete", "edit", "fault"} \subseteq Charges
        /\ \A b \in Charges : budget[b] \in Nat /\ budget'[b] \in Nat
    BY <1>1, <1>3 DEF TypeInv, Charges
  <2>4. Due(s) \in Nat /\ Due(s)' \in Nat  BY DEF Due, Missing, ToNote
  <2>5. serial' + Due(s)' <= serial + Due(s) + (budget["delete"] - budget'["delete"])
                               + (budget["edit"] - budget'["edit"])
    <3>1. CASE DeleteNode(s)
      <4>1. /\ serial' = serial /\ budget'["delete"] = budget["delete"] - 1
            /\ budget'["edit"] = budget["edit"]
        BY <1>1, <2>3, <3>1, SpendType DEF DeleteNode
      <4>2. Due(s)' <= Due(s) + 1
        BY <1>2, <2>1 DEF Due, Missing, ToNote
      <4>3. QED  BY <2>3, <2>4, <4>1, <4>2
    <3>2. CASE EditNode(s)
      <4>1. /\ serial' = serial + 1 /\ budget'["edit"] = budget["edit"] - 1
            /\ budget'["delete"] = budget["delete"]
        BY <1>1, <2>3, <3>2, SpendType DEF EditNode
      <4>2. Made(NodeCert(s)') /\ Made(NodeCert(s))
        <5>1. n = "own"  BY <1>4, <3>2 DEF EditNode
        <5>2. QED  BY <1>4, <1>5, <1>6, <1>9, <5>1 DEF NodeCert
      <4>3. Due(s)' = Due(s)  BY <1>2, <2>1, <4>2 DEF Due, Missing, Made
      <4>4. QED  BY <2>3, <2>4, <4>1, <4>3
    <3>3. QED  BY <3>1, <3>2
  <2>6. budget'["fault"] = budget["fault"]
    BY <1>1, <2>3, SpendType DEF DeleteNode, EditNode
  <2>7. Changes(s)' = Changes(s) /\ Changes(s) \in Nat
    BY <1>1, <1>2, <1>7, SpentFacts
  <2>8. serial' + Due(s)' <= serial + Due(s) + (Changes(s)' - Changes(s))
                               + (budget["delete"] - budget'["delete"])
                               + (budget["edit"] - budget'["edit"])
                               + (budget["fault"] - budget'["fault"])
    BY <1>3, <2>3, <2>4, <2>5, <2>6, <2>7
  <2>9. QED  BY <1>1, <1>2, <1>7, <2>2, <2>8, Account
<1>16. QED  BY <1>7, <1>11, <1>12, <1>13, <1>14, <1>15 DEF Inv

LEMMA InitInv ==
    ASSUME Init PROVE Inv
<1>1. TypeInv  BY InitType
<1>2. /\ pc = "idle" /\ files = NoCert /\ \A s \in Sides : stage[s] = 1 /\ before[s] = NoCA
      /\ \A p \in Pods : pods[p] = NoPod
  BY DEF Init
<1>3. PassInv  BY <1>2 DEF PassInv, Made
<1>4. \A s \in Sides :
        /\ ca[s]["own"] = IF "ca" \in scenario.has THEN [data |-> Stages[1], sum |-> NoData] ELSE NoCA
        /\ ca[s]["default"] = NoCA
        /\ node[s]["own"] = IF "node" \in scenario.has THEN Given ELSE NoCert
        /\ node[s]["default"] = NoCert
  BY DEF Init, Names
<1>5. ~Exists(NoCA) /\ Stages[1] # NoData
  BY CertificatesAssumption DEF Exists, NoCA
<1>6. \A s \in Sides : Exists(ca[s]["own"]) => Outdated(ca[s]["own"])
  BY <1>4, <1>5 DEF Outdated
<1>7. SecretsInv
  BY <1>2, <1>4, <1>5, <1>6 DEF SecretsInv, Exists, Made, CAName
<1>8. RecentInv
  <2>1. \A s \in Sides : InUse(NodeCert(s), s)
    <3> SUFFICES ASSUME NEW s \in Sides, Made(NodeCert(s))
                 PROVE  \E d \in Recent(s) : Issued(NodeCert(s), d)
      BY DEF InUse
    <3>1. NodeName(s) = "own" /\ NodeCert(s) = Given
      BY <1>4 DEF NodeCert, NodeName, Made
    <3>2. GivenData \in Recent(s)  BY <1>2, <3>1 DEF Recent
    <3>3. Issued(Given, GivenData)  BY DEF Issued, Given, GivenData, Truststore
    <3>4. QED  BY <3>1, <3>2, <3>3
  <2>2. \A s \in Sides, p \in Pods : ~Made(pods[p].certs[s])
    BY <1>2 DEF NoPod, NoCerts, Made
  <2>3. QED  BY <1>2, <2>1, <2>2 DEF RecentInv, InUse, Made, Up
<1>9. NotedInv
  BY <1>2, <1>6 DEF NotedInv, Noting, CAName
<1>10. QED  BY <1>1, <1>3, <1>7, <1>8, <1>9 DEF Inv

LEMMA StepInv ==
    ASSUME Inv, [Next]_vars PROVE Inv' /\ AccountStep
<1>1. TypeInv  BY DEF Inv
<1>2. CASE \/ Begin \/ setupClientTLSFiles \/ reconcileProberDeployment
           \/ reconcileReaperDeployment \/ reconcileNodeTLSSecret \/ reconcileDCStatefulSet
           \/ Abort
  <2>1. /\ PassOnly /\ TypeInv' /\ Inv' /\ (Abort \/ UNCHANGED budget)
        /\ \A t \in Sides : (~Noting(t) => Due(t)' = Due(t)) /\ Due(t)' <= Due(t) + 1
    BY <1>1, <1>2, PassOnlySteps, PassOnlyInv
  <2>2. UNCHANGED <<scenario, stage, serial>>
    BY <2>1 DEF PassOnly, userVars, secretVars
  <2>3. CASE ~Abort
    <3>1. \A t \in Sides : ~Noting(t)
      BY <1>2, <2>3 DEF Noting, Begin, setupClientTLSFiles, reconcileProberDeployment,
         reconcileReaperDeployment, Deploy, reconcileNodeTLSSecret, reconcileDCStatefulSet
    <3>2. \A b \in Charges : budget'[b] <= budget[b]  BY <1>1, <2>1, <2>3 DEF TypeInv
    <3>3. QED  BY <1>1, <2>1, <2>2, <3>1, <3>2, AccountFrame
  <2>4. CASE Abort
    <3>1. PICK s \in Sides : s = cur.side  BY <1>1 DEF TypeInv, PassType
    <3>2. \A t \in Sides : t # s => Due(t)' = Due(t)  BY <2>1, <3>1 DEF Noting
    <3>3. /\ serial \in Nat /\ {"delete", "edit", "fault"} \subseteq Charges
          /\ \A b \in Charges : budget[b] \in Nat /\ budget'[b] \in Nat
      BY <1>1, <2>1 DEF TypeInv, Charges
    <3>4. /\ budget'["fault"] = budget["fault"] - 1
          /\ budget'["edit"] = budget["edit"] /\ budget'["delete"] = budget["delete"]
      BY <1>1, <2>4, <3>3, SpendType DEF Abort
    <3>5. Due(s) \in Nat /\ Due(s)' \in Nat  BY DEF Due, Missing, ToNote
    <3>6. Changes(s)' = Changes(s) /\ Changes(s) \in Nat
      BY <1>1, <2>1, <2>2, SpentFacts
    <3>7. serial' + Due(s)' <= serial + Due(s) + (Changes(s)' - Changes(s))
                                 + (budget["delete"] - budget'["delete"])
                                 + (budget["edit"] - budget'["edit"])
                                 + (budget["fault"] - budget'["fault"])
      BY <2>1, <2>2, <3>3, <3>4, <3>5, <3>6
    <3>8. AccountStep  BY <1>1, <2>1, <2>2, <3>2, <3>7, Account
    <3>9. QED  BY <2>1, <3>8
  <2>5. QED  BY <2>3, <2>4
<1>3. CASE handleCASecret  BY <1>3, CASecretInv
<1>4. CASE handleNodeSecret  BY <1>4, NodeSecretInv
<1>5. CASE NoteChecksum  BY <1>5, NoteChecksumInv
<1>6. CASE \E p \in Pods : StartPod(p) \/ PodFails(p)  BY <1>6, PodInv
<1>7. CASE \E s \in Sides : UpdateCA(s)  BY <1>7, UpdateCAInv
<1>8. CASE \E s \in Sides : DeleteNode(s) \/ EditNode(s)  BY <1>8, NodeEditInv
<1>9. CASE (\E c \in Clients : StartClient(c)) \/ UNCHANGED vars
  <2>1. UNCHANGED <<scenario, stage, ca, before, node, serial, sts, pods, files, pc, cur, budget>>
    BY <1>9 DEF StartClient, vars, userVars, secretVars, workloadVars, runVars, passVars
  <2>2. \A t \in Sides : /\ CAName(t)' = CAName(t) /\ NodeName(t)' = NodeName(t)
                         /\ Signing(t)' = Signing(t) /\ Recent(t)' = Recent(t)
                         /\ NodeCert(t)' = NodeCert(t)
    BY <2>1, NamesFrame DEF NodeCert, Exists, Made
  <2>3. TypeInv'  BY <1>1, <2>1 DEF TypeInv
  <2>4. PassInv'
    BY <2>1, <2>2 DEF Inv, PassInv, Made, Exists, Encrypted, TypeInv, PassType
  <2>5. SecretsInv'  BY <2>1, <2>2 DEF Inv, SecretsInv, Exists, Made, Outdated
  <2>6. RecentInv'  BY <2>1, <2>2, RecentFrame DEF Inv
  <2>7. NotedInv'
    BY <2>1, <2>2 DEF Inv, NotedInv, Noting, Outdated, Made, Exists, Issued
  <2>8. \A t \in Sides : Due(t)' = Due(t)
    BY <2>1, <2>2 DEF Due, Missing, ToNote, Settled, Noting, Exists, Outdated, Made, Encrypted
  <2>9. \A b \in Charges : budget'[b] <= budget[b]  BY <1>1, <2>1 DEF TypeInv
  <2>10. AccountStep  BY <1>1, <2>1, <2>3, <2>8, <2>9, AccountFrame
  <2>11. QED  BY <2>3, <2>4, <2>5, <2>6, <2>7, <2>10 DEF Inv
<1>10. QED
  BY <1>2, <1>3, <1>4, <1>5, <1>6, <1>7, <1>8, <1>9 DEF Next, Pass

LEMMA ScenarioKept ==
    ASSUME [Next]_vars PROVE scenario' = scenario
  BY DEF Next, Pass, Begin, Abort, handleCASecret, handleNodeSecret, NoteChecksum,
         setupClientTLSFiles, reconcileProberDeployment, reconcileReaperDeployment, Deploy,
         reconcileNodeTLSSecret, reconcileDCStatefulSet, StartPod, PodFails, StartClient,
         UpdateCA, DeleteNode, EditNode, vars, userVars

\* "Update TLS CA Secret without downtime" (docs/docs/security/update-tls-secret.md): for
\* any steps of which each fits the one before, any number of pods and any number of failed
\* calls, restarts, outdated reads and deletions, the pods of a cluster trust each other.
THEOREM PodsTrustEachOther ==
    ASSUME StepsFit PROVE Spec => []MutualTrust
<1> DEFINE I == Inv /\ scenario \in Scenarios
<1>1. Init => I  BY InitInv DEF Init
<1>2. I /\ [Next]_vars => I'  BY StepInv, ScenarioKept
<1>3. I => MutualTrust  BY MutualTrustHolds
<1>4. QED  BY <1>1, <1>2, <1>3, PTL DEF Spec

\* handleNodeSecret, "TLS CA Secret data has changed": a certificate, with which all pods
\* restart, is made for a missing one, a changed CA, a new CA once more, and each deletion,
\* edit or fault at most once, in every order of these.
THEOREM CertificatesHaveReasons ==
    Spec => []CertificatesAccounted
<1> DEFINE I == Inv /\ AccountInv
<1>1. ASSUME Init PROVE I
  <2>1. Inv  BY <1>1, InitInv
  <2>2. serial = 1 /\ \A t \in Sides : stage[t] = 1  BY <1>1 DEF Init
  <2>3. \A b \in Charges : Spent(b) = 0
    <3>1. \A b \in Charges : budget[b] \in Nat  BY <2>1 DEF Inv, TypeInv
    <3>2. QED  BY <1>1, <3>1 DEF Init, Spent
  <2>4. \A t \in Sides : Due(t) \in Nat /\ Changes(t) \in Nat /\ Due(t) <= Changes(t)
    BY <2>2 DEF Due, Missing, ToNote, Changes
  <2>5. {"delete", "edit", "fault"} \subseteq Charges /\ {"server", "client"} \subseteq Sides
    BY DEF Charges, Sides
  <2>6. AccountInv  BY <2>2, <2>3, <2>4, <2>5 DEF AccountInv
  <2>7. QED  BY <2>1, <2>6
<1>2. I /\ [Next]_vars => I'  BY StepInv DEF AccountStep
<1>3. ASSUME I PROVE CertificatesAccounted
  <2>1. {"delete", "edit", "fault"} \subseteq Charges /\ {"server", "client"} \subseteq Sides
    BY DEF Charges, Sides
  <2>2. \A t \in Sides : Due(t) \in Nat  BY DEF Due, Missing, ToNote
  <2>3. \A t \in Sides : stage[t] \in Nat  BY <1>3, CertificatesAssumption DEF Inv, TypeInv
  <2>4. \A t \in Sides : Changes(t) \in Int  BY <2>3 DEF Changes
  <2>5. \A b \in Charges : Spent(b) \in Int
    BY <1>3 DEF Inv, TypeInv, ScenarioType, Spent
  <2>6. serial \in Nat  BY <1>3 DEF Inv, TypeInv
  <2>7. serial - 1 <= Changes("server") + Changes("client")
                        + Spent("delete") + Spent("edit") + Spent("fault")
    BY <1>3, <2>1, <2>2, <2>4, <2>5, <2>6 DEF AccountInv
  <2>8. QED  BY <2>7 DEF CertificatesAccounted, Changes
<1>4. QED  BY <1>1, <1>2, <1>3, PTL DEF Spec
=============================================================================

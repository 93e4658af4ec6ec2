--------------------------- MODULE ScalingProofs ---------------------------
(***************************************************************************)
(* Proofs about Scaling, for every set of DCs, every bound and every       *)
(* sequence of edits:                                                      *)
(*   - the type invariant, together with the facts about a pass that it    *)
(*     needs (PassOK);                                                     *)
(*   - the replicas of a statefulset go down only after the last pod's     *)
(*     node was decommissioned, unless a quorum of peers wrongly misses it *)
(*     or it crashed since the pass began;                                 *)
(*   - while the user only shrinks a cluster without crashes, one node of  *)
(*     a DC leaves at a time, and a statefulset shrinks only when the last *)
(*     pod's node is out of the ring;                                      *)
(*   - while the user brings no DC back, no keyspace replicates to a DC    *)
(*     without a node in the ring;                                         *)
(*   - a removed DC has left nothing behind.                               *)
(***************************************************************************)
EXTENDS Scaling, FiniteSetTheorems, TLAPS

-----------------------------------------------------------------------------
(* The inductive invariant.                                                *)

\* While handlePodDecommission runs, its pod is the last of its statefulset.
TargetOK ==
    /\ pc \in {"opmode", "views"} =>
         /\ tgt \in Pods
         /\ stsList[DCof(tgt)] = Ord(tgt) + 1
         /\ cc[DCof(tgt)] < stsList[DCof(tgt)]
         /\ sts[DCof(tgt)] = stsList[DCof(tgt)]
    /\ pc \in {"applySts", "rmReaper", "rmSvc", "rmSts"} => tgt \in Pods
    /\ pc = "applySts" => cc[DCof(tgt)] > 0

\* The pass is in handleDCsDecommission.
InRemoval == \/ pc = "dcs"
             \/ pc \in {"opmode", "views"} /\ cc[DCof(tgt)] = 0

\* The statefulsets a pass has not handled yet are as it listed them.
ListOK ==
    /\ pc = "desired" => \A d \in todo : sts[d] = stsList[d] /\ cc[d] > 0
    /\ pc \in {"desired", "keyspaces", "alter"} =>
         \A d \in RemovedSts : sts[d] = stsList[d]
    /\ InRemoval => \A d \in todo : /\ stsList[d] # NoSts /\ cc[d] = 0
                                    /\ sts[d] = stsList[d]
    /\ pc # "views" => notLive = 0
    /\ pc \notin {"views", "rmSvc", "rmSts"} => wrong = 0

PassOK == TypeOK /\ TargetOK /\ ListOK

\* A pod is a DC and an ordinal; the last pod of a statefulset is a pod.
LEMMA PodParts ==
  ASSUME NEW p \in Pods
  PROVE  DCof(p) \in DCs /\ Ord(p) \in Nat /\ Ord(p) < MaxReplicas
  BY ScalingAssumption DEF Pods, DCof, Ord

LEMMA LastPodParts ==
  ASSUME NEW d \in DCs, stsList[d] \in 1..MaxReplicas
  PROVE  LastPod(d) \in Pods /\ DCof(LastPod(d)) = d /\ Ord(LastPod(d)) = stsList[d] - 1
  BY ScalingAssumption DEF Pods, DCof, Ord, LastPod

\* The integers the proofs compare.
LEMMA SizesType ==
  ASSUME PassOK, NEW d \in DCs
  PROVE  sts[d] \in Int /\ cc[d] \in Nat /\ spec[d] \in Nat
  BY ScalingAssumption DEF PassOK, TypeOK, ClusterTypeOK, PassTypeOK, Specs, NoSts

LEMMA InitPassOK == Init => PassOK
  <1> SUFFICES ASSUME Init PROVE PassOK
    OBVIOUS
  <1>1. TypeOK
    <2>1. PICK s \in Starts : InitCluster(s.spec) /\ budget = s.budget
      BY DEF Init
    <2>2. s.spec \in Specs /\ s.budget \in [FaultKinds -> Nat]
      BY ScalingAssumption
    <2>3. spec \in Specs /\ budget \in [FaultKinds -> Nat]
      BY <2>1, <2>2 DEF InitCluster
    <2>4. ClusterTypeOK
      BY <2>1, <2>2, <2>3, ScalingAssumption
      DEF Init, InitCluster, ClusterTypeOK, Specs, DesiredDCs, Pods, NoSts, Modes, DCof, Ord
    <2>5. PassTypeOK
      BY ScalingAssumption DEF Init, PassTypeOK, Specs, NoSts, PCs
    <2> QED
      BY <2>4, <2>5 DEF TypeOK
  <1>2. TargetOK /\ ListOK
    BY DEF Init, TargetOK, ListOK, InRemoval
  <1> QED
    BY <1>1, <1>2 DEF PassOK

\* The part of PassOK that is about a pass.
PassPart == PassTypeOK /\ TargetOK /\ ListOK

\* A pass that has returned satisfies its part of the invariant.
LEMMA IdlePass == pc' = "idle" /\ ForgetPass => PassPart'
  BY ScalingAssumption
  DEF ForgetPass, PassPart, PassTypeOK, TargetOK, ListOK, InRemoval, Specs, PCs, NoSts

\* So does one that the step leaves alone, with the statefulsets; a crash takes a
\* node out of those the pass has seen in the ring.
PassStays ==
    /\ UNCHANGED <<pc, cc, podList, stsList, todo, tgt, asked, notLive, wrong, sts>>
    /\ joined' \subseteq joined

LEMMA SamePass == PassOK /\ PassStays => PassPart'
  <1> SUFFICES ASSUME PassOK, PassStays PROVE PassPart'
    OBVIOUS
  <1> USE DEF PassStays
  <1>1. PassTypeOK'
    BY DEF PassOK, TypeOK, PassTypeOK
  <1>2. TargetOK'
    BY DEF PassOK, TargetOK
  <1>3. ListOK'
    BY DEF PassOK, ListOK, InRemoval, RemovedSts, DesiredDCs
  <1> QED
    BY <1>1, <1>2, <1>3 DEF PassPart

LEMMA SpendType ==
  ASSUME ClusterTypeOK, NEW k \in FaultKinds, Spend(k)
  PROVE  budget' \in [FaultKinds -> Nat]
  BY DEF ClusterTypeOK, Spend

\* Jobs, nodes, the statefulset controller and the user.
LEMMA EnvironmentPassOK ==
  ASSUME PassOK,
         \/ \E p \in Pods : JobStep(p) \/ PodStep(p) \/ NodeCrash(p)
         \/ \E new \in Specs : EditSpec(new)
         \/ \E d \in DCs : AlterKeyspace(d)
  PROVE  PassOK'
  <1> USE ScalingAssumption DEF ClusterTypeOK, PassOK, TypeOK, Spend
  <1>0. PassStays
    BY DEF PassStays, JobStep, PodStep, NodeCrash, EditSpec, AlterKeyspace, DecommissionStart,
       DecommissionFail, DecommissionEnd, NodeStart, NodeShutdown, CreatePod, DeletePod,
       kubeVars, opVars, passVars
  <1>1. ASSUME NEW p \in Pods, DecommissionStart(p) PROVE ClusterTypeOK'
    BY <1>1 DEF DecommissionStart, Modes, userVars, kubeVars, nodeVars, jobVars
  <1>2. ASSUME NEW p \in Pods, DecommissionFail(p) PROVE ClusterTypeOK'
    BY <1>2 DEF DecommissionFail, Modes, FaultKinds, userVars, kubeVars, nodeVars, jobVars
  <1>3. ASSUME NEW p \in Pods, DecommissionEnd(p) PROVE ClusterTypeOK'
    BY <1>3 DEF DecommissionEnd, Modes, userVars, kubeVars, nodeVars, jobVars
  <1>4. ASSUME NEW p \in Pods, NodeStart(p) PROVE ClusterTypeOK'
    BY <1>4 DEF NodeStart, Modes, userVars, kubeVars, nodeVars, jobVars
  <1>5. ASSUME NEW p \in Pods, NodeShutdown(p) PROVE ClusterTypeOK'
    BY <1>5 DEF NodeShutdown, Modes, userVars, kubeVars, nodeVars, jobVars
  <1>6. ASSUME NEW p \in Pods, CreatePod(p) PROVE ClusterTypeOK'
    BY <1>6 DEF CreatePod, Modes, userVars, kubeVars, nodeVars, jobVars
  <1>7. ASSUME NEW p \in Pods, DeletePod(p) PROVE ClusterTypeOK'
    BY <1>7 DEF DeletePod, Modes, userVars, kubeVars, nodeVars, jobVars
  <1>8. ASSUME NEW p \in Pods, NodeCrash(p) PROVE ClusterTypeOK'
    BY <1>8 DEF NodeCrash, Modes, FaultKinds, userVars, kubeVars, nodeVars, jobVars
  <1>9. ASSUME NEW new \in Specs, EditSpec(new) PROVE ClusterTypeOK'
    BY <1>9 DEF EditSpec, FaultKinds, userVars, kubeVars, nodeVars, jobVars
  <1>10. ASSUME NEW d \in DCs, AlterKeyspace(d) PROVE ClusterTypeOK'
    <2>1. ksDCs' \subseteq DCs /\ late' \subseteq ksDCs'
      BY <1>10 DEF AlterKeyspace
    <2>2. budget' \in [FaultKinds -> Nat] /\ spec' = spec
      BY <1>10 DEF AlterKeyspace, FaultKinds
    <2> QED
      BY <1>10, <2>1, <2>2 DEF AlterKeyspace, kubeVars, nodeVars, jobVars
  <1>11. ClusterTypeOK'
    BY <1>1, <1>2, <1>3, <1>4, <1>5, <1>6, <1>7, <1>8, <1>9, <1>10 DEF JobStep, PodStep
  <1> QED
    BY <1>0, <1>11, SamePass DEF PassPart

\* A pass that ends without writing anything but the queue and the budget.
LEMMA ReturnPassOK ==
  ASSUME PassOK, NEW r, NEW e, Return(r, e), budget' \in [FaultKinds -> Nat],
         UNCHANGED <<userVars, kubeVars, nodeVars, sysDCs, jobVars>>
  PROVE  PassOK'
  <1>1. PassPart'
    BY IdlePass DEF Return
  <1>2. ClusterTypeOK'
    BY DEF PassOK, TypeOK, ClusterTypeOK, Return, userVars, kubeVars, nodeVars, jobVars
  <1> QED
    BY <1>1, <1>2 DEF PassOK, TypeOK, PassPart

LEMMA ApiFailsPassOK ==
  ASSUME PassOK, ApiFails, UNCHANGED <<userVars, kubeVars, nodeVars, sysDCs, jobVars>>
  PROVE  PassOK'
  <1>1. "api" \in FaultKinds
    BY DEF FaultKinds
  <1>2. budget' \in [FaultKinds -> Nat]
    BY <1>1, SpendType DEF PassOK, TypeOK, ApiFails
  <1> QED
    BY <1>2, ReturnPassOK DEF ApiFails

\* A pass that goes on with the next removed DC, or ends, after a pod is handled.
LEMMA HandledPass ==
  ASSUME PassOK, NEW e, Handled(e), pc \in {"opmode", "views"},
         \A d \in DCs \ {DCof(tgt)} : sts'[d] = sts[d]
  PROVE  PassPart' /\ dirty' \in BOOLEAN
  <1> USE DEF PassOK, TypeOK
  <1>1. CASE cc[DCof(tgt)] > 0
    BY <1>1, IdlePass DEF Handled, Return
  <1>2. CASE ~(cc[DCof(tgt)] > 0)
    <2>1. /\ pc' = "dcs" /\ todo' = todo \ {DCof(tgt)} /\ dirty' = (dirty \/ e)
          /\ tgt' = NoPod /\ asked' = {} /\ notLive' = 0 /\ wrong' = 0
          /\ UNCHANGED <<cc, podList, stsList, joined>>
      BY <1>2 DEF Handled
    <2>2. PassTypeOK'
      BY <2>1 DEF PassTypeOK, PCs
    <2>3. TargetOK'
      BY <2>1 DEF TargetOK
    <2>4. InRemoval
      BY <1>2, PodParts DEF InRemoval, TargetOK, PassTypeOK, Specs
    <2>5. ListOK'
      BY <2>1, <2>4 DEF ListOK, InRemoval, PassTypeOK
    <2> QED
      BY <2>1, <2>2, <2>3, <2>5 DEF PassPart
  <1> QED
    BY <1>1, <1>2

\* reconcileCassandra.
LEMMA ApplyPassOK ==
  ASSUME PassOK, ApplySts \/ \E d \in DCs : ApplyService(d)
  PROVE  PassOK'
  <1> USE ScalingAssumption DEF PassOK, TypeOK, NoSts
  <1>1. ASSUME NEW d \in DCs, ApplyService(d) PROVE PassOK'
    <2>1. CASE ApiFails /\ UNCHANGED <<svc, removed>>
      BY <1>1, <2>1, ApiFailsPassOK DEF ApplyService, kubeVars
    <2>2. CASE ~(ApiFails /\ UNCHANGED <<svc, removed>>)
      <3>1. /\ svc' = svc \cup {d} /\ removed' = removed \ {d} /\ dirty' = (dirty \/ d \notin svc)
            /\ tgt' = <<d, 0>> /\ pc' = "applySts"
            /\ UNCHANGED <<cc, podList, stsList, todo, asked, notLive, wrong, joined, budget>>
            /\ UNCHANGED <<userVars, sts, reaper, pods, nodeVars, sysDCs, jobVars>>
            /\ pc = "apply" /\ cc[d] > 0
        BY <1>1, <2>2 DEF ApplyService, Missing, DesiredDCs
      <3>2. ClusterTypeOK'
        BY <3>1 DEF ClusterTypeOK, userVars, nodeVars, jobVars
      <3>3. <<d, 0>> \in Pods /\ DCof(<<d, 0>>) = d
        BY DEF Pods, DCof
      <3>4. PassTypeOK' /\ TargetOK'
        BY <3>1, <3>3 DEF PassTypeOK, PCs, TargetOK
      <3>5. ListOK'
        BY <3>1 DEF ListOK, InRemoval
      <3> QED
        BY <3>2, <3>4, <3>5
    <2> QED
      BY <2>1, <2>2
  <1>2. CASE ApplySts
    <2>1. CASE ApiFails /\ UNCHANGED sts
      BY <1>2, <2>1, ApiFailsPassOK DEF ApplySts, kubeVars
    <2>2. CASE ~(ApiFails /\ UNCHANGED sts)
      <3>1. /\ sts' = [sts EXCEPT ![DCof(tgt)] = IF @ = NoSts THEN cc[DCof(tgt)] ELSE @]
            /\ dirty' = (dirty \/ sts' # sts) /\ tgt' = NoPod /\ pc' = "apply"
            /\ UNCHANGED <<cc, podList, stsList, todo, asked, notLive, wrong, joined, budget>>
            /\ UNCHANGED <<userVars, svc, reaper, pods, removed, nodeVars, sysDCs, jobVars>>
            /\ pc = "applySts"
        BY <1>2, <2>2 DEF ApplySts
      <3>2. DCof(tgt) \in DCs
        BY <3>1, PodParts DEF TargetOK
      <3>3. sts' \in [DCs -> NoSts..MaxReplicas]
        <4>0. cc[DCof(tgt)] \in 0..MaxReplicas /\ MaxReplicas \in Nat
          BY <3>2 DEF PassTypeOK, Specs
        <4>a. sts[DCof(tgt)] \in NoSts..MaxReplicas
          BY <3>2 DEF ClusterTypeOK
        <4>b. cc[DCof(tgt)] \in NoSts..MaxReplicas
          BY <4>0
        <4>1. cc[DCof(tgt)] \in NoSts..MaxReplicas /\ sts[DCof(tgt)] \in NoSts..MaxReplicas
          BY <4>a, <4>b
        <4> DEFINE r == IF sts[DCof(tgt)] = NoSts THEN cc[DCof(tgt)] ELSE sts[DCof(tgt)]
        <4>2. r \in NoSts..MaxReplicas
          BY <4>1
        <4>3. sts' = [sts EXCEPT ![DCof(tgt)] = r]
          BY <3>1
        <4> HIDE DEF r, NoSts
        <4> QED
          BY <3>2, <4>2, <4>3 DEF ClusterTypeOK
      <3>4. ClusterTypeOK'
        BY <3>1, <3>3 DEF ClusterTypeOK, userVars, nodeVars, jobVars
      <3>5. PassTypeOK' /\ TargetOK' /\ ListOK'
        BY <3>1 DEF PassTypeOK, PCs, TargetOK, ListOK, InRemoval
      <3> QED
        BY <3>4, <3>5
    <2> QED
      BY <2>1, <2>2
  <1> QED
    BY <1>1, <1>2

\* The start of a pass and its loop over the desired DCs.
LEMMA LoopPassOK ==
  ASSUME PassOK,
         \/ Begin \/ Applied \/ DesiredDone
         \/ \E d \in DCs : SkipDC(d) \/ ScaleUp(d) \/ ScaleDown(d)
  PROVE  PassOK'
  <1> USE ScalingAssumption DEF PassOK, TypeOK, NoSts
  <1>1. CASE Begin
    <2>1. ClusterTypeOK'
      BY <1>1 DEF Begin, ClusterTypeOK, userVars, kubeVars, nodeVars, jobVars, passVars
    <2>2. PassTypeOK'
      BY <1>1 DEF Begin, PassTypeOK, ClusterTypeOK, PCs
    <2>3. TargetOK' /\ ListOK'
      BY <1>1 DEF Begin, TargetOK, ListOK, InRemoval
    <2> QED
      BY <2>1, <2>2, <2>3
  <1>2. CASE Applied
    <2>1. CASE ApiFails
      BY <1>2, <2>1, ApiFailsPassOK DEF Applied
    <2>2. CASE ~ApiFails
      <3>1. /\ stsList' = sts /\ todo' = DesiredSts(sts) /\ pc' = "desired" /\ pc = "apply"
            /\ UNCHANGED <<dirty, cc, podList, tgt, asked, notLive, wrong, joined, budget>>
            /\ UNCHANGED <<userVars, kubeVars, nodeVars, sysDCs, jobVars>>
        BY <1>2, <2>2 DEF Applied
      <3>2. ClusterTypeOK'
        BY <3>1 DEF ClusterTypeOK, userVars, kubeVars, nodeVars, jobVars
      <3>3. PassTypeOK'
        BY <3>1 DEF PassTypeOK, ClusterTypeOK, PCs, DesiredDCs, DesiredSts, kubeVars
      <3>4. TargetOK' /\ ListOK'
        BY <3>1 DEF TargetOK, ListOK, InRemoval, RemovedSts, PassTypeOK, DesiredDCs,
                    DesiredSts, kubeVars
      <3> QED
        BY <3>2, <3>3, <3>4
    <2> QED
      BY <2>1, <2>2
  <1>3. CASE DesiredDone
    <2>1. CASE RemovedSts = {}
      <3>0. sysDCs' \in [SysKeyspaces -> SUBSET DCs] /\ reaper' \subseteq DCs
        BY <1>3, <2>1 DEF DesiredDone, ClusterTypeOK, DesiredDCs
      <3>1. ClusterTypeOK'
        BY <1>3, <2>1, <3>0 DEF DesiredDone, Return, ClusterTypeOK, userVars, nodeVars, jobVars
      <3> QED
        BY <1>3, <2>1, <3>1, IdlePass DEF DesiredDone, Return, PassPart
    <2>2. CASE RemovedSts # {}
      <3>1. ClusterTypeOK'
        BY <1>3, <2>2 DEF DesiredDone, ClusterTypeOK, userVars, nodeVars, jobVars
      <3>2. PassTypeOK' /\ TargetOK'
        BY <1>3, <2>2 DEF DesiredDone, PassTypeOK, PCs, TargetOK, passVars
      <3>3. ListOK'
        BY <1>3, <2>2 DEF DesiredDone, ListOK, InRemoval, RemovedSts, DesiredDCs, passVars
      <3> QED
        BY <3>1, <3>2, <3>3
    <2> QED
      BY <2>1, <2>2
  <1>4. ASSUME NEW d \in DCs, SkipDC(d) PROVE PassOK'
    <2>1. ClusterTypeOK'
      BY <1>4 DEF SkipDC, ClusterTypeOK, userVars, kubeVars, nodeVars, jobVars, passVars
    <2>2. PassTypeOK' /\ TargetOK'
      BY <1>4 DEF SkipDC, InDesired, PassTypeOK, PCs, TargetOK
    <2>3. ListOK'
      BY <1>4 DEF SkipDC, InDesired, ListOK, InRemoval, RemovedSts, DesiredDCs, kubeVars
    <2> QED
      BY <2>1, <2>2, <2>3
  <1>5. ASSUME NEW d \in DCs, ScaleUp(d) PROVE PassOK'
    <2>1. CASE ApiFails /\ UNCHANGED sts
      BY <1>5, <2>1, ApiFailsPassOK DEF ScaleUp, kubeVars
    <2>2. CASE ~(ApiFails /\ UNCHANGED sts)
      <3>1. /\ sts' = [sts EXCEPT ![d] = cc[d]] /\ dirty' = TRUE /\ todo' = todo \ {d}
            /\ UNCHANGED <<pc, cc, podList, stsList, tgt, asked, notLive, wrong, joined, budget>>
            /\ UNCHANGED <<userVars, svc, reaper, pods, removed, nodeVars, sysDCs, jobVars>>
            /\ pc = "desired" /\ d \in todo
        BY <1>5, <2>2 DEF ScaleUp, InDesired, IsFirst
      <3>2. ClusterTypeOK'
        BY <3>1 DEF ClusterTypeOK, PassTypeOK, Specs, userVars, nodeVars, jobVars
      <3>3. PassTypeOK' /\ TargetOK'
        BY <3>1 DEF PassTypeOK, PCs, TargetOK
      <3>4. d \notin RemovedSts
        BY <1>5 DEF ScaleUp, RemovedSts, DesiredDCs, PassTypeOK, Specs
      <3>5. ListOK'
        BY <3>1, <3>4 DEF ListOK, InRemoval, RemovedSts, DesiredDCs, PassTypeOK, ClusterTypeOK
      <3> QED
        BY <3>2, <3>3, <3>5
    <2> QED
      BY <2>1, <2>2
  <1>6. ASSUME NEW d \in DCs, ScaleDown(d) PROVE PassOK'
    <2>1. ClusterTypeOK'
      BY <1>6 DEF ScaleDown, ClusterTypeOK, userVars, kubeVars, nodeVars, jobVars, passVars
    <2>2. /\ d \in todo /\ stsList[d] \in 1..MaxReplicas /\ cc[d] < stsList[d]
          /\ cc[d] \in Nat /\ sts[d] = stsList[d]
      BY <1>6 DEF ScaleDown, InDesired, IsFirst, PassTypeOK, Specs, ListOK
    <2>3. PassTypeOK'
      BY <1>6, <2>2, LastPodParts DEF ScaleDown, PassTypeOK, PCs
    <2>4. TargetOK'
      BY <1>6, <2>2, LastPodParts DEF ScaleDown, TargetOK, kubeVars
    <2>5. cc[d] # 0
      BY <1>6 DEF ScaleDown, InDesired, IsFirst, ListOK
    <2>6. ListOK'
      BY <1>6, <2>2, <2>5, LastPodParts DEF ScaleDown, ListOK, InRemoval, InDesired
    <2> QED
      BY <2>1, <2>3, <2>4, <2>6
  <1> QED
    BY <1>1, <1>2, <1>3, <1>4, <1>5, <1>6

\* handlePodDecommission and podDecommissioned.
LEMMA PodPassOK ==
  ASSUME PassOK,
         \/ CheckOperationMode \/ ShrinkSts \/ KeepSts
         \/ \E q \in Pods : AskView(q)
  PROVE  PassOK'
  <1> USE ScalingAssumption DEF PassOK, TypeOK, NoSts
  <1>1. CASE CheckOperationMode
    <2> USE <1>1 DEF CheckOperationMode
    <2>1. pc = "opmode" /\ tgt \in Pods
      BY DEF TargetOK
    <2>2. "jmx" \in FaultKinds
      BY DEF FaultKinds
    <2>3. CASE Handled(FALSE) /\ UNCHANGED <<jobVars, budget>>
      <3>1. PassPart' /\ dirty' \in BOOLEAN
        BY <2>1, <2>3, HandledPass DEF kubeVars
      <3>2. ClusterTypeOK'
        BY <2>3, <3>1 DEF ClusterTypeOK, userVars, kubeVars, nodeVars, jobVars
      <3> QED
        BY <3>1, <3>2 DEF PassPart
    <2>4. CASE Return(TRUE, FALSE) /\ UNCHANGED <<jobVars, budget>>
      BY <2>4, ReturnPassOK DEF ClusterTypeOK
    <2>5. CASE /\ IF up[tgt] THEN Spend("jmx") ELSE UNCHANGED budget
               /\ pc' = "views" /\ UNCHANGED <<jobVars, dirty, passVars>>
      <3>1. budget' \in [FaultKinds -> Nat]
        BY <2>2, <2>5, SpendType DEF ClusterTypeOK
      <3>2. ClusterTypeOK'
        BY <2>5, <3>1 DEF ClusterTypeOK, userVars, kubeVars, nodeVars, jobVars
      <3>3. PassTypeOK' /\ TargetOK'
        BY <2>1, <2>5 DEF PassTypeOK, PCs, TargetOK, passVars, kubeVars
      <3>4. ListOK'
        BY <2>1, <2>5 DEF ListOK, InRemoval, RemovedSts, DesiredDCs, passVars, kubeVars
      <3> QED
        BY <3>2, <3>3, <3>4
    <2>6. CASE /\ calls[tgt] < MaxCalls /\ RunJob(tgt) /\ Handled(FALSE)
               /\ UNCHANGED budget
      <3>1. PassPart' /\ dirty' \in BOOLEAN
        BY <2>1, <2>6, HandledPass DEF kubeVars
      <3>2. calls' \in [Pods -> 0..MaxCalls]
        BY <2>1, <2>6 DEF RunJob, ClusterTypeOK
      <3>3. ClusterTypeOK'
        BY <2>6, <3>1, <3>2 DEF RunJob, ClusterTypeOK, userVars, kubeVars, nodeVars
      <3> QED
        BY <3>1, <3>3 DEF PassPart
    <2> QED
      BY <2>3, <2>4, <2>5, <2>6
  <1>2. ASSUME NEW q \in Pods, AskView(q) PROVE PassOK'
    <2> USE <1>2 DEF AskView
    <2>1. "jmx" \in FaultKinds /\ "miss" \in FaultKinds
      BY DEF FaultKinds
    <2>2. budget' \in [FaultKinds -> Nat]
      BY <2>1, SpendType DEF ClusterTypeOK
    <2>3. CASE Return(TRUE, FALSE)
      BY <2>2, <2>3, ReturnPassOK
    <2>4. CASE /\ asked' = asked \cup {q} /\ notLive' \in {notLive, notLive + 1}
               /\ wrong' \in {wrong, wrong + 1}
               /\ UNCHANGED <<dirty, pc, cc, podList, stsList, todo, tgt, joined>>
      <3>1. ClusterTypeOK'
        BY <2>2, <2>4 DEF ClusterTypeOK, userVars, kubeVars, nodeVars, jobVars
      <3>2. PassTypeOK' /\ TargetOK'
        BY <2>4 DEF PassTypeOK, TargetOK, kubeVars
      <3>3. ListOK'
        BY <2>4 DEF ListOK, InRemoval, RemovedSts, DesiredDCs, kubeVars
      <3> QED
        BY <3>1, <3>2, <3>3
    <2> QED
      BY <2>3, <2>4
  <1>3. CASE ShrinkSts
    <2> USE <1>3 DEF ShrinkSts
    <2>1. /\ tgt \in Pods /\ DCof(tgt) \in DCs
          /\ stsList[DCof(tgt)] \in 1..MaxReplicas
      BY PodParts DEF TargetOK, PassTypeOK
    <2>2. CASE ApiFails /\ UNCHANGED <<sts, jobVars>>
      BY <2>2, ApiFailsPassOK DEF kubeVars
    <2>3. CASE ~(ApiFails /\ UNCHANGED <<sts, jobVars>>)
      <3>1. /\ sts' = [sts EXCEPT ![DCof(tgt)] = stsList[DCof(tgt)] - 1]
            /\ UNCHANGED budget
        BY <2>3
      <3>2. sts' \in [DCs -> NoSts..MaxReplicas]
        BY <2>1, <3>1 DEF ClusterTypeOK
      <3>3. PassPart' /\ dirty' \in BOOLEAN
        <4>1. CASE Return(TRUE, TRUE)
          BY <4>1, IdlePass DEF Return
        <4>2. CASE Handled(TRUE)
          BY <3>1, <4>2, HandledPass DEF ClusterTypeOK
        <4> QED
          BY <2>3, <4>1, <4>2
      <3>4. jobsList' \in [Pods -> {"none", "running", "finished"}] /\ UNCHANGED <<calls, waiting>>
        BY <2>3 DEF RemoveJob, ClusterTypeOK, jobVars
      <3>5. ClusterTypeOK'
        BY <3>1, <3>2, <3>3, <3>4 DEF ClusterTypeOK, userVars, nodeVars
      <3> QED
        BY <3>3, <3>5 DEF PassPart
    <2> QED
      BY <2>2, <2>3
  <1>4. CASE KeepSts
    BY <1>4, ReturnPassOK DEF KeepSts, ClusterTypeOK
  <1> QED
    BY <1>1, <1>2, <1>3, <1>4

\* handleDCsDecommission and removeDC, and the restart of the operator.
LEMMA RemovalPassOK ==
  ASSUME PassOK,
         \/ CheckKeyspaces \/ SystemKeyspacesDone \/ DCsDone
         \/ \E k \in SysKeyspaces : AlterSystemKeyspace(k)
         \/ \E d \in DCs : NextDC(d)
         \/ RemoveReaper \/ RemoveSvc \/ RemoveSts \/ OperatorRestart
  PROVE  PassOK'
  <1> USE ScalingAssumption DEF PassOK, TypeOK, NoSts
  <1>1. CASE CheckKeyspaces
    <2>1. CASE Return(TRUE, FALSE)
      BY <1>1, <2>1, ReturnPassOK DEF CheckKeyspaces, ClusterTypeOK
    <2>2. CASE pc' = "alter" /\ UNCHANGED <<dirty, passVars>>
      <3>1. ClusterTypeOK'
        BY <1>1, <2>2 DEF CheckKeyspaces, ClusterTypeOK, userVars, kubeVars, nodeVars, jobVars
      <3>2. PassTypeOK' /\ TargetOK'
        BY <1>1, <2>2 DEF CheckKeyspaces, PassTypeOK, PCs, TargetOK, passVars
      <3>3. ListOK'
        BY <1>1, <2>2
        DEF CheckKeyspaces, ListOK, InRemoval, RemovedSts, DesiredDCs, passVars, kubeVars
      <3> QED
        BY <3>1, <3>2, <3>3
    <2> QED
      BY <1>1, <2>1, <2>2 DEF CheckKeyspaces
  <1>2. CASE SystemKeyspacesDone
    <2>1. /\ todo' = RemovedSts /\ pc' = "dcs" /\ pc = "alter"
          /\ UNCHANGED <<dirty, cc, podList, stsList, tgt, asked, notLive, wrong, joined, budget>>
          /\ UNCHANGED <<userVars, kubeVars, nodeVars, sysDCs, jobVars>>
      BY <1>2 DEF SystemKeyspacesDone
    <2>2. ClusterTypeOK'
      BY <2>1 DEF ClusterTypeOK, userVars, kubeVars, nodeVars, jobVars
    <2>3. PassTypeOK' /\ TargetOK'
      BY <2>1 DEF PassTypeOK, PCs, TargetOK, RemovedSts
    <2>4. \A d \in RemovedSts : stsList[d] # NoSts /\ cc[d] = 0 /\ sts[d] = stsList[d]
      BY <2>1 DEF ListOK, RemovedSts, DesiredDCs, PassTypeOK, Specs
    <2>5. ListOK'
      BY <2>1, <2>4 DEF ListOK, InRemoval, kubeVars
    <2> QED
      BY <2>2, <2>3, <2>5
  <1>3. CASE DCsDone
    BY <1>3, ReturnPassOK DEF DCsDone, ClusterTypeOK
  <1>4. ASSUME NEW d \in DCs, NextDC(d) PROVE PassOK'
    <2>1. ClusterTypeOK'
      BY <1>4 DEF NextDC, ClusterTypeOK, userVars, kubeVars, nodeVars, jobVars
    <2>2. /\ pc = "dcs" /\ d \in todo /\ stsList[d] \in 0..MaxReplicas
          /\ cc[d] = 0 /\ sts[d] = stsList[d]
          /\ UNCHANGED <<cc, podList, stsList, todo, asked, notLive, wrong, joined, kubeVars>>
      BY <1>4 DEF NextDC, IsFirst, ListOK, InRemoval, PassTypeOK
    <2>3. CASE stsList[d] = 0
      <3>1. pc' = "rmReaper" /\ tgt' = <<d, 0>> /\ <<d, 0>> \in Pods
        BY <1>4, <2>3 DEF NextDC, Pods
      <3>2. PassTypeOK' /\ TargetOK'
        BY <2>2, <3>1 DEF PassTypeOK, PCs, TargetOK
      <3>3. ListOK'
        BY <2>2, <3>1 DEF ListOK, InRemoval
      <3> QED
        BY <2>1, <3>2, <3>3
    <2>4. CASE stsList[d] # 0
      <3>1. pc' = "opmode" /\ tgt' = LastPod(d) /\ stsList[d] \in 1..MaxReplicas
        BY <1>4, <2>2, <2>4 DEF NextDC
      <3>2. PassTypeOK' /\ TargetOK'
        BY <2>2, <3>1, LastPodParts DEF PassTypeOK, PCs, TargetOK, kubeVars
      <3>3. ListOK'
        BY <2>2, <3>1, LastPodParts DEF ListOK, InRemoval, kubeVars
      <3> QED
        BY <2>1, <3>2, <3>3
    <2> QED
      BY <2>3, <2>4
  <1>5. CASE RemoveReaper
    <2>1. CASE ApiFails /\ UNCHANGED reaper
      BY <1>5, <2>1, ApiFailsPassOK DEF RemoveReaper, kubeVars
    <2>2. CASE /\ pc' = "rmSvc" /\ wrong' \in {wrong, wrong + 1}
               /\ UNCHANGED <<cc, podList, stsList, todo, tgt, asked, notLive, joined>>
      <3>1. reaper' \subseteq DCs /\ dirty' \in BOOLEAN
        BY <1>5, <2>2 DEF RemoveReaper, ApiFails, Return, ClusterTypeOK
      <3>2. "api" \in FaultKinds
        BY DEF FaultKinds
      <3>3. budget' \in [FaultKinds -> Nat]
        BY <1>5, <2>2, <3>2, SpendType DEF RemoveReaper, ApiFails, Return, ClusterTypeOK
      <3>4. /\ pc = "rmReaper"
            /\ UNCHANGED <<userVars, sts, svc, pods, removed, nodeVars, sysDCs, jobVars>>
        BY <1>5 DEF RemoveReaper
      <3>5. ClusterTypeOK'
        BY <3>1, <3>3, <3>4 DEF ClusterTypeOK, userVars, nodeVars, jobVars
      <3>6. PassTypeOK' /\ TargetOK' /\ ListOK'
        BY <2>2, <3>4 DEF PassTypeOK, PCs, TargetOK, ListOK, InRemoval
      <3> QED
        BY <3>5, <3>6
    <2> QED
      BY <1>5, <2>1, <2>2 DEF RemoveReaper, passVars
  <1>6. CASE RemoveSvc
    <2> USE <1>6 DEF RemoveSvc
    <2>1. "api" \in FaultKinds
      BY DEF FaultKinds
    <2>2. budget' \in [FaultKinds -> Nat]
      BY <2>1, SpendType DEF ClusterTypeOK
    <2>3. CASE Return(FALSE, TRUE) /\ svc' = svc \ {DCof(tgt)}
      <3>1. ClusterTypeOK'
        BY <2>2, <2>3 DEF Return, ClusterTypeOK, userVars, nodeVars, jobVars
      <3> QED
        BY <2>3, <3>1, IdlePass DEF Return, PassPart
    <2>4. CASE /\ pc' = "rmSts" /\ wrong' \in {wrong, wrong + 1}
               /\ UNCHANGED <<svc, dirty, cc, podList, stsList, todo, tgt, asked, notLive, joined>>
      <3>1. ClusterTypeOK'
        BY <2>2, <2>4 DEF ClusterTypeOK, userVars, nodeVars, jobVars
      <3>2. PassTypeOK' /\ TargetOK' /\ ListOK'
        BY <2>4 DEF PassTypeOK, PCs, TargetOK, ListOK, InRemoval
      <3> QED
        BY <3>1, <3>2
    <2> QED
      BY <2>3, <2>4
  <1>7. CASE RemoveSts
    <2>1. CASE ApiFails /\ UNCHANGED <<sts, removed>>
      BY <1>7, <2>1, ApiFailsPassOK DEF RemoveSts, kubeVars
    <2>2. CASE ~(ApiFails /\ UNCHANGED <<sts, removed>>)
      <3>1. /\ sts' = [sts EXCEPT ![DCof(tgt)] = NoSts] /\ Return(FALSE, TRUE)
            /\ removed' \subseteq removed \cup {DCof(tgt)} /\ DCof(tgt) \in DCs
            /\ UNCHANGED <<userVars, svc, reaper, pods, nodeVars, sysDCs, jobVars, budget>>
        BY <1>7, <2>2, PodParts DEF RemoveSts, TargetOK
      <3>2. sts' \in [DCs -> NoSts..MaxReplicas]
        <4>1. DCof(tgt) \in DCs
          BY <1>7, PodParts DEF RemoveSts, TargetOK
        <4>2. NoSts \in NoSts..MaxReplicas
          OBVIOUS
        <4> HIDE DEF NoSts
        <4> QED
          BY <3>1, <4>1, <4>2 DEF ClusterTypeOK
      <3>3. dirty' \in BOOLEAN
        BY <3>1 DEF Return
      <3>4. ClusterTypeOK'
        BY <3>1, <3>2, <3>3 DEF ClusterTypeOK, userVars, nodeVars, jobVars
      <3> QED
        BY <3>1, <3>4, IdlePass DEF Return, PassPart
    <2> QED
      BY <2>1, <2>2
  <1>8. CASE OperatorRestart
    <2>1. "restart" \in FaultKinds
      BY DEF FaultKinds
    <2>2. budget' \in [FaultKinds -> Nat]
      BY <1>8, <2>1, SpendType DEF OperatorRestart
    <2>3. ClusterTypeOK'
      BY <1>8, <2>2 DEF OperatorRestart, ClusterTypeOK, userVars, kubeVars, nodeVars
    <2> QED
      BY <1>8, <2>3, IdlePass DEF OperatorRestart, PassPart
  <1>9. ASSUME NEW k \in SysKeyspaces, AlterSystemKeyspace(k) PROVE PassOK'
    <2>1. UNCHANGED <<userVars, kubeVars, nodeVars, jobVars>>
      BY <1>9 DEF AlterSystemKeyspace
    <2>2. CASE UNCHANGED <<dirty, opVars, budget>>
      <3>1. sysDCs' \in [SysKeyspaces -> SUBSET DCs]
        BY <1>9 DEF AlterSystemKeyspace, ClusterTypeOK, DesiredDCs
      <3>2. ClusterTypeOK'
        BY <2>1, <2>2, <3>1 DEF ClusterTypeOK, userVars, kubeVars, nodeVars, jobVars
      <3> QED
        BY <2>1, <2>2, <3>2, SamePass DEF PassPart, PassStays, kubeVars, opVars, passVars
    <2>3. CASE Spend("cql") /\ Return(TRUE, FALSE) /\ UNCHANGED sysDCs
      <3>1. "cql" \in FaultKinds
        BY DEF FaultKinds
      <3>2. budget' \in [FaultKinds -> Nat]
        BY <2>3, <3>1, SpendType
      <3> QED
        BY <2>1, <2>3, <3>2, ReturnPassOK
    <2> QED
      BY <1>9, <2>2, <2>3 DEF AlterSystemKeyspace
  <1> QED
    BY <1>1, <1>2, <1>3, <1>4, <1>5, <1>6, <1>7, <1>8, <1>9

LEMMA NextPassOK == PassOK /\ [Next]_vars => PassOK'
  <1> SUFFICES ASSUME PassOK, [Next]_vars PROVE PassOK'
    OBVIOUS
  <1>1. CASE UNCHANGED vars
    <2>1. ClusterTypeOK'
      BY <1>1 DEF PassOK, TypeOK, ClusterTypeOK, vars, userVars, kubeVars, nodeVars, jobVars
    <2> QED
      BY <1>1, <2>1, SamePass
      DEF PassOK, TypeOK, PassPart, PassStays, vars, kubeVars, opVars, passVars
  <1> QED
    BY <1>1, EnvironmentPassOK, ApplyPassOK, LoopPassOK, PodPassOK, RemovalPassOK
    DEF Next, PassStep

\* Every reachable state of the scaling has the types of TypeOK; in particular the
\* replicas stay within bounds and the pod that handlePodDecommission works on is a
\* pod of the cluster, whatever faults happen.
THEOREM ScalingType == Spec => []TypeOK
  <1>1. Init => PassOK
    BY InitPassOK
  <1>2. PassOK /\ [Next]_vars => PassOK'
    BY NextPassOK
  <1>3. PassOK => TypeOK
    BY DEF PassOK
  <1> QED
    BY <1>1, <1>2, <1>3, PTL DEF Spec

-----------------------------------------------------------------------------
(* Replicas go down only after a decommission.                             *)

\* A step leaves every fault counter alone or spends one fault.
LEMMA BudgetStep ==
  ASSUME ClusterTypeOK, [Next]_vars
  PROVE  \A k \in FaultKinds : budget'[k] \in Nat /\ budget'[k] <= budget[k]
  <1>1. ASSUME NEW j \in FaultKinds, Spend(j)
        PROVE  \A k \in FaultKinds : budget'[k] \in Nat /\ budget'[k] <= budget[k]
    BY <1>1 DEF Spend, ClusterTypeOK
  <1>2. CASE UNCHANGED budget
    BY <1>2 DEF ClusterTypeOK
  <1>3. UNCHANGED budget \/ \E j \in FaultKinds : Spend(j)
    <2> USE DEF FaultKinds
    <2>1. CASE UNCHANGED vars
      BY <2>1 DEF vars
    <2>2. CASE \E p \in Pods : JobStep(p) \/ PodStep(p) \/ NodeCrash(p)
      BY <2>2 DEF JobStep, PodStep, NodeCrash, DecommissionStart, DecommissionFail,
         DecommissionEnd, NodeStart, NodeShutdown, CreatePod, DeletePod
    <2>3. CASE \/ \E new \in Specs : EditSpec(new)
               \/ \E d \in DCs : AlterKeyspace(d)
               \/ OperatorRestart
      BY <2>3 DEF EditSpec, AlterKeyspace, OperatorRestart
    <2>4. CASE Begin \/ ApplySts \/ Applied \/ DesiredDone \/ CheckOperationMode
      BY <2>4 DEF Begin, ApplySts, Applied, DesiredDone, CheckOperationMode, ApiFails
    <2>5. CASE \/ \E d \in DCs : SkipDC(d) \/ ScaleUp(d) \/ ScaleDown(d) \/ NextDC(d)
               \/ \E q \in Pods : AskView(q)
      BY <2>5 DEF SkipDC, ScaleUp, ScaleDown, NextDC, AskView, ApiFails
    <2>6. CASE ShrinkSts \/ KeepSts \/ CheckKeyspaces \/ SystemKeyspacesDone \/ DCsDone
      BY <2>6 DEF ShrinkSts, KeepSts, CheckKeyspaces, SystemKeyspacesDone, DCsDone, ApiFails
    <2>7. CASE RemoveReaper \/ RemoveSvc \/ RemoveSts
      BY <2>7 DEF RemoveReaper, RemoveSvc, RemoveSts, ApiFails
    <2>8. CASE \/ \E d \in DCs : ApplyService(d)
               \/ \E k \in SysKeyspaces : AlterSystemKeyspace(k)
      BY <2>8 DEF ApplyService, AlterSystemKeyspace, ApiFails, opVars
    <2> QED
      BY <2>1, <2>2, <2>3, <2>4, <2>5, <2>6, <2>7, <2>8 DEF Next, PassStep
  <1> QED
    BY <1>1, <1>2, <1>3

\* What the passes of the operator leave alone.
LEMMA PassKeepsNodes == ASSUME PassStep \/ OperatorRestart PROVE UNCHANGED nodeVars
  <1>1. CASE \/ Begin \/ ApplySts \/ Applied \/ DesiredDone \/ CheckOperationMode
             \/ \E d \in DCs : \/ ApplyService(d) \/ SkipDC(d) \/ ScaleUp(d)
                               \/ ScaleDown(d) \/ NextDC(d)
             \/ \E q \in Pods : AskView(q)
    BY <1>1 DEF Begin, ApplyService, ApplySts, Applied, DesiredDone, CheckOperationMode, SkipDC, ScaleUp,
       ScaleDown, NextDC, AskView
  <1>2. CASE \/ ShrinkSts \/ KeepSts \/ CheckKeyspaces \/ SystemKeyspacesDone \/ DCsDone
             \/ \E k \in SysKeyspaces : AlterSystemKeyspace(k)
             \/ RemoveReaper \/ RemoveSvc \/ RemoveSts \/ OperatorRestart
    BY <1>2 DEF ShrinkSts, KeepSts, CheckKeyspaces, SystemKeyspacesDone, DCsDone,
       AlterSystemKeyspace, RemoveReaper, RemoveSvc, RemoveSts, OperatorRestart
  <1> QED
    BY <1>1, <1>2 DEF PassStep

\* The node is up in the ring, or it was decommissioned.
Kept(p) == mode[p] = "DECOMMISSIONED" \/ Gossips(p)

\* If it does not crash, only the statefulset controller takes a node down that was
\* not decommissioned, and only when the replicas no longer cover its pod.
LEMMA KeptStep ==
  ASSUME ClusterTypeOK, [Next]_vars,
         NEW p \in Pods, Kept(p), Ord(p) < sts[DCof(p)], ~NodeCrash(p)
  PROVE  /\ Kept(p)'
         /\ mode[p] = "DECOMMISSIONED" => mode'[p] = "DECOMMISSIONED"
  <1> USE DEF Kept, Gossips, InRing, ClusterTypeOK
  <1>1. CASE UNCHANGED nodeVars
    BY <1>1 DEF nodeVars
  <1>2. ASSUME NEW q \in Pods, DecommissionStart(q) \/ DecommissionEnd(q)
        PROVE  /\ Kept(p)'
               /\ mode[p] = "DECOMMISSIONED" => mode'[p] = "DECOMMISSIONED"
    BY <1>2 DEF DecommissionStart, DecommissionEnd
  <1>3. ASSUME NEW q \in Pods, NodeStart(q) \/ NodeShutdown(q)
        PROVE  /\ Kept(p)'
               /\ mode[p] = "DECOMMISSIONED" => mode'[p] = "DECOMMISSIONED"
    BY <1>3 DEF NodeStart, NodeShutdown
  <1>4. ASSUME NEW q \in Pods, DeletePod(q)
        PROVE  /\ Kept(p)'
               /\ mode[p] = "DECOMMISSIONED" => mode'[p] = "DECOMMISSIONED"
    <2>1. p # q
      BY <1>4, PodParts DEF DeletePod
    <2> QED
      BY <1>4, <2>1 DEF DeletePod
  <1>5. ASSUME NEW q \in Pods, NodeCrash(q)
        PROVE  /\ Kept(p)'
               /\ mode[p] = "DECOMMISSIONED" => mode'[p] = "DECOMMISSIONED"
    <2>1. p # q
      BY <1>5
    <2> QED
      BY <1>5, <2>1 DEF NodeCrash
  <1>6. ASSUME NEW q \in Pods, DecommissionFail(q) \/ CreatePod(q) PROVE UNCHANGED nodeVars
    BY <1>6 DEF DecommissionFail, CreatePod
  <1>7. ASSUME \/ \E new \in Specs : EditSpec(new)
               \/ \E d \in DCs : AlterKeyspace(d)
               \/ UNCHANGED vars
        PROVE  UNCHANGED nodeVars
    BY <1>7 DEF EditSpec, AlterKeyspace, vars
  <1> QED
    BY <1>1, <1>2, <1>3, <1>4, <1>5, <1>6, <1>7, PassKeepsNodes
    DEF Next, JobStep, PodStep

\* The statefulset of d has not been changed by this pass and is to shrink.
Untouched(d) == sts[d] = stsList[d] /\ stsList[d] # cc[d]

\* The pass has not listed the statefulsets yet.
NotListed == pc \in {"idle", "apply", "applySts"}

\* The inductive invariant of the theorem: the nodes that have been up in the ring
\* since the pass began and that its statefulsets cover are still up or
\* decommissioned, and a peer that misses one that is up was wrong.
JoinedOK ==
    /\ pc \in {"apply", "applySts"} =>
         \A p \in joined :
             Ord(p) < sts[DCof(p)] /\ sts[DCof(p)] # cc[DCof(p)] => Kept(p)
    /\ ~NotListed =>
         \A p \in joined : Ord(p) < stsList[DCof(p)] /\ Untouched(DCof(p)) => Kept(p)
    /\ pc = "views" /\ tgt \in joined /\ mode[tgt] # "DECOMMISSIONED" =>
         notLive <= wrong

\* A step of a pass that has its lists keeps them, and changes a statefulset to
\* what the spec asks for or to something other than what was listed.
PassGoesOn ==
    /\ ~NotListed /\ pc' \notin {"apply", "applySts"}
    /\ UNCHANGED <<cc, stsList, joined>>
    /\ \A d \in DCs : \/ sts'[d] = sts[d]
                      \/ sts'[d] # stsList[d]
                      \/ sts'[d] = cc[d]

LEMMA PassEffect ==
  ASSUME PassOK, PassStep, pc' # "idle", ~NotListed
  PROVE  PassGoesOn /\ (pc' = "views" => (CheckOperationMode \/ \E q \in Pods : AskView(q)))
  <1> USE DEF PassGoesOn, PassOK, TypeOK, Return, ApiFails, NotListed
  <1>1. CASE \E d \in DCs : SkipDC(d) \/ ScaleDown(d) \/ NextDC(d)
    BY <1>1 DEF SkipDC, ScaleDown, NextDC, InDesired, kubeVars
  <1>2. ASSUME NEW d \in DCs, ScaleUp(d)
        PROVE  PassGoesOn /\ pc' # "views"
    BY <1>2 DEF ScaleUp, InDesired, ClusterTypeOK
  <1>3. CASE DesiredDone \/ CheckKeyspaces \/ KeepSts \/ DCsDone
    BY <1>3 DEF DesiredDone, CheckKeyspaces, KeepSts, DCsDone, passVars, kubeVars
  <1>4. CASE CheckOperationMode
    BY <1>4 DEF CheckOperationMode, Handled, passVars, kubeVars
  <1>5. CASE \E q \in Pods : AskView(q)
    BY <1>5 DEF AskView, kubeVars
  <1>6. CASE ShrinkSts
    <2>1. DCof(tgt) \in DCs /\ stsList[DCof(tgt)] \in Int
      BY <1>6, PodParts, ScalingAssumption DEF ShrinkSts, TargetOK, PassTypeOK, NoSts
    <2>2. sts' = [sts EXCEPT ![DCof(tgt)] = stsList[DCof(tgt)] - 1]
      BY <1>6 DEF ShrinkSts
    <2>3. \A d \in DCs : sts'[d] = sts[d] \/ sts'[d] # stsList[d]
      <3> HIDE DEF PassOK, TypeOK, Return, ApiFails, PassGoesOn, NotListed
      <3>1. sts'[DCof(tgt)] = stsList[DCof(tgt)] - 1 \/ DCof(tgt) \notin DOMAIN sts
        BY <2>2
      <3>2. DOMAIN sts = DCs
        BY DEF PassOK, TypeOK, ClusterTypeOK
      <3>3. \A d \in DCs : d # DCof(tgt) => sts'[d] = sts[d]
        BY <2>2, <3>2
      <3> QED
        BY <2>1, <3>1, <3>2, <3>3
    <2> QED
      BY <1>6, <2>3 DEF ShrinkSts, Handled
  <1>7. CASE \/ SystemKeyspacesDone \/ RemoveReaper
             \/ \E k \in SysKeyspaces : AlterSystemKeyspace(k)
    BY <1>7 DEF SystemKeyspacesDone, RemoveReaper, AlterSystemKeyspace, opVars, passVars, kubeVars
  <1>8. CASE RemoveSvc \/ RemoveSts
    BY <1>8 DEF RemoveSvc, RemoveSts, passVars, kubeVars
  <1>9. ASSUME Begin \/ ApplySts \/ Applied \/ \E d \in DCs : ApplyService(d)
        PROVE  FALSE
    BY <1>9 DEF Begin, ApplySts, Applied, ApplyService
  <1> QED
    BY <1>1, <1>2, <1>3, <1>4, <1>5, <1>6, <1>7, <1>8, <1>9 DEF PassStep

\* A pass without its lists ends, goes on with the parts of the DCs or lists them.
LEMMA NotListedStep ==
  ASSUME PassStep, NotListed
  PROVE  Begin \/ ApplySts \/ Applied \/ \E d \in DCs : ApplyService(d)
  <1> USE DEF NotListed
  <1>1. ASSUME \/ \E d \in DCs : SkipDC(d) \/ ScaleUp(d) \/ ScaleDown(d) \/ NextDC(d)
               \/ DesiredDone \/ CheckOperationMode \/ \E q \in Pods : AskView(q)
               \/ ShrinkSts \/ KeepSts
        PROVE  ~NotListed
    BY <1>1 DEF SkipDC, ScaleUp, ScaleDown, InDesired, NextDC, DesiredDone,
       CheckOperationMode, AskView, ShrinkSts, KeepSts
  <1>2. ASSUME \/ \E k \in SysKeyspaces : AlterSystemKeyspace(k)
               \/ CheckKeyspaces \/ SystemKeyspacesDone \/ DCsDone
               \/ RemoveReaper \/ RemoveSvc \/ RemoveSts
        PROVE  ~NotListed
    BY <1>2 DEF AlterSystemKeyspace, CheckKeyspaces, SystemKeyspacesDone, DCsDone,
       RemoveReaper, RemoveSvc, RemoveSts
  <1> HIDE DEF NotListed
  <1> QED
    BY <1>1, <1>2 DEF PassStep

\* The steps of the rest of the system leave the pass and the statefulsets alone.
LEMMA OutsidePass ==
  ASSUME [Next]_vars, ~PassStep, ~OperatorRestart
  PROVE  /\ PassStays
         /\ joined' = joined \/ \E p \in Pods : NodeCrash(p)
         /\ \A p \in joined' : ~NodeCrash(p)
  <1>1. PassStays /\ (joined' = joined \/ \E p \in Pods : NodeCrash(p))
    BY DEF PassStays, Next, JobStep, PodStep, NodeCrash, EditSpec, AlterKeyspace,
       DecommissionStart, DecommissionFail, DecommissionEnd, NodeStart, NodeShutdown, CreatePod,
       DeletePod, vars, kubeVars, opVars, passVars
  <1>2. \A p \in joined' : ~NodeCrash(p)
    BY DEF NodeCrash
  <1> QED
    BY <1>1, <1>2

LEMMA InitJoinedOK == Init => JoinedOK
  BY DEF Init, JoinedOK, NotListed

\* The target of a pass is covered, so it is still up or decommissioned.
LEMMA TargetKept ==
  ASSUME PassOK, JoinedOK, pc \in {"opmode", "views"}, tgt \in joined
  PROVE  Kept(tgt) /\ tgt \in Pods /\ Ord(tgt) < sts[DCof(tgt)]
  BY PodParts DEF PassOK, TargetOK, JoinedOK, NotListed, Untouched, TypeOK, PassTypeOK, Specs

LEMMA NextJoinedOK ==
  ASSUME PassOK, JoinedOK, [Next]_vars, PassOK'
  PROVE  JoinedOK'
  <1> USE DEF PassOK, TypeOK
  <1>2. joined \subseteq Pods /\ notLive \in Nat /\ wrong \in Nat
    BY DEF PassTypeOK
  <1>3. CASE OperatorRestart
    BY <1>3 DEF OperatorRestart, JoinedOK, NotListed
  <1>4. CASE PassStep
    <2>1. UNCHANGED nodeVars
      BY <1>4, PassKeepsNodes
    <2>2. \A p : Kept(p)' <=> Kept(p)
      BY <2>1 DEF Kept, Gossips, InRing, nodeVars
    <2>3. CASE pc' = "idle"
      BY <2>3 DEF JoinedOK, NotListed
    <2>4. CASE Begin
      <3>1. \A p \in joined' : Kept(p)'
        BY <2>2, <2>4 DEF Begin, Kept
      <3> QED
        BY <2>4, <3>1 DEF Begin, JoinedOK, NotListed
    <2>5. CASE pc' # "idle" /\ (ApplySts \/ Applied \/ \E d \in DCs : ApplyService(d))
      <3>1. /\ pc \in {"apply", "applySts"} /\ joined' = joined /\ cc' = cc
            /\ \A d \in DCs : sts'[d] = sts[d] \/ sts'[d] = cc[d]
        BY <2>5 DEF ApplySts, Applied, ApplyService, ApiFails, Return, ClusterTypeOK, kubeVars
      <3>2. \A p \in joined : Ord(p) < sts'[DCof(p)] /\ sts'[DCof(p)] # cc[DCof(p)] => Kept(p)
        BY <1>2, <3>1, PodParts DEF JoinedOK
      <3>3. \/ pc' \in {"apply", "applySts"}
            \/ pc' = "desired" /\ stsList' = sts /\ sts' = sts
        BY <2>5 DEF ApplySts, Applied, ApplyService, ApiFails, Return, kubeVars
      <3> QED
        BY <2>2, <3>1, <3>2, <3>3 DEF JoinedOK, NotListed, Untouched
    <2>6. CASE pc' # "idle" /\ ~NotListed
      <3>1. PassGoesOn /\ (pc' = "views" => (CheckOperationMode \/ \E q \in Pods : AskView(q)))
        BY <1>4, <2>6, PassEffect
      <3>2. \A p \in joined' : Ord(p) < stsList'[DCof(p)] /\ Untouched(DCof(p))' => Kept(p)'
        BY <1>2, <2>2, <3>1, PodParts DEF PassGoesOn, JoinedOK, Untouched
      <3>3. ASSUME pc' = "views", tgt' \in joined', mode'[tgt'] # "DECOMMISSIONED"
            PROVE  notLive' <= wrong'
        <4>1. CASE CheckOperationMode
          <5>1. notLive = 0 /\ notLive' = 0 /\ wrong = 0 /\ wrong' = 0
            BY <3>3, <4>1 DEF CheckOperationMode, ListOK, Handled, Return, passVars
          <5> QED
            BY <5>1
        <4>2. ASSUME NEW q \in Pods, AskView(q) PROVE notLive' <= wrong'
          <5>1. /\ pc = "views" /\ tgt' = tgt /\ tgt \in joined
                /\ mode[tgt] # "DECOMMISSIONED"
            BY <2>1, <3>1, <3>3, <4>2 DEF AskView, Return, PassGoesOn, nodeVars
          <5>2. Gossips(tgt) /\ notLive <= wrong
            BY <5>1, TargetKept DEF Kept, JoinedOK
          <5>3. \/ notLive' = notLive /\ wrong' = wrong
                \/ notLive' = notLive + 1 /\ wrong' = wrong + 1
            BY <3>3, <4>2, <5>2 DEF AskView, Return
          <5> QED
            BY <1>2, <5>2, <5>3
        <4> QED
          BY <3>1, <3>3, <4>1, <4>2
      <3> QED
        BY <3>1, <3>2, <3>3 DEF JoinedOK, PassGoesOn, NotListed
    <2> QED
      BY <1>4, <2>3, <2>4, <2>5, <2>6, NotListedStep
  <1>5. CASE ~PassStep /\ ~OperatorRestart
    <2>1. PassStays /\ \A p \in joined' : ~NodeCrash(p)
      BY <1>5, OutsidePass
    <2> USE DEF PassStays
    <2>2. \A p \in joined' : Kept(p) /\ Ord(p) < sts[DCof(p)] =>
             Kept(p)' /\ (mode[p] = "DECOMMISSIONED" => mode'[p] = "DECOMMISSIONED")
      BY <1>2, <2>1, KeptStep
    <2>3. pc' \in {"apply", "applySts"} =>
            \A p \in joined' :
                Ord(p) < sts'[DCof(p)] /\ sts'[DCof(p)] # cc'[DCof(p)] => Kept(p)'
      BY <2>1, <2>2 DEF JoinedOK
    <2>4. ~NotListed' =>
            \A p \in joined' : Ord(p) < stsList'[DCof(p)] /\ Untouched(DCof(p))' => Kept(p)'
      BY <2>1, <2>2 DEF JoinedOK, NotListed, Untouched
    <2>5. ASSUME pc' = "views", tgt' \in joined', mode'[tgt'] # "DECOMMISSIONED"
          PROVE  notLive' <= wrong'
      <3>1. /\ pc = "views" /\ tgt \in joined /\ tgt \in joined' /\ tgt' = tgt
            /\ notLive' = notLive /\ wrong' = wrong
        BY <2>1, <2>5
      <3>2. mode[tgt] # "DECOMMISSIONED"
        BY <2>2, <2>5, <3>1, TargetKept
      <3> QED
        BY <3>1, <3>2 DEF JoinedOK
    <2> QED
      BY <2>3, <2>4, <2>5 DEF JoinedOK
  <1> QED
    BY <1>3, <1>4, <1>5

LEMMA QuorumType == ASSUME PassTypeOK PROVE Quorum \in Int
  <1>1. IsFiniteSet(0..MaxReplicas - 1)
    BY ScalingAssumption, FS_Interval
  <1>2. IsFiniteSet(Pods)
    BY <1>1, ScalingAssumption, FS_Product DEF Pods
  <1>3. IsFiniteSet({p \in podList : cc[DCof(p)] > 0})
    BY <1>2, FS_Subset DEF PassTypeOK
  <1> QED
    BY <1>3, FS_CardinalityType DEF Quorum

\* Only podDecommissioned's verdict lowers the replicas of a statefulset by one.
LEMMA OnlyShrinkSts ==
  ASSUME PassOK, [Next]_vars, NEW d \in DCs, Shrinks(d)
  PROVE  ShrinkSts /\ d = DCof(tgt) /\ tgt = <<d, sts[d] - 1>>
  <1> USE ScalingAssumption DEF PassOK, TypeOK, Shrinks, NoSts
  <1>1. sts'[d] # sts[d] /\ sts[d] \in 1..MaxReplicas /\ sts'[d] = sts[d] - 1
    BY DEF ClusterTypeOK
  <1>2. PassStep
    BY <1>1, OutsidePass DEF PassStays, OperatorRestart, kubeVars
  <1>3. ~ApplySts
    BY <1>1 DEF ApplySts, ClusterTypeOK
  <1>4. ASSUME NEW e \in DCs, ScaleUp(e) PROVE FALSE
    <2>1. sts' = [sts EXCEPT ![e] = cc[e]]
      BY <1>1, <1>4 DEF ScaleUp
    <2>2. sts[e] < cc[e] /\ sts[e] \in Int /\ cc[e] \in Int
      BY <1>4 DEF ScaleUp, InDesired, IsFirst, ListOK, ClusterTypeOK, PassTypeOK, Specs
    <2> QED
      BY <1>1, <2>1, <2>2 DEF ClusterTypeOK
  <1>5. ASSUME RemoveSts PROVE FALSE
    <2>1. sts' = [sts EXCEPT ![DCof(tgt)] = NoSts]
      BY <1>1, <1>5 DEF RemoveSts
    <2>2. d # DCof(tgt) => sts'[d] = sts[d]
      BY <2>1 DEF ClusterTypeOK
    <2>3. d = DCof(tgt) => sts'[d] = NoSts
      BY <2>1 DEF ClusterTypeOK
    <2> QED
      BY <1>1, <2>2, <2>3
  <1>6. ShrinkSts
    BY <1>1, <1>2, <1>3, <1>4, <1>5 DEF PassStep, Begin, ApplyService, Applied, SkipDC,
       ScaleDown, NextDC, DesiredDone, CheckOperationMode, AskView, KeepSts, CheckKeyspaces,
       AlterSystemKeyspace, SystemKeyspacesDone, DCsDone, RemoveReaper, RemoveSvc, kubeVars
  <1>7. d = DCof(tgt)
    BY <1>1, <1>6 DEF ShrinkSts, ClusterTypeOK
  <1>8. tgt \in Pods /\ Ord(tgt) = sts[d] - 1
    BY <1>6, <1>7, PodParts DEF ShrinkSts, TargetOK
  <1>9. tgt = <<DCof(tgt), Ord(tgt)>>
    BY <1>8 DEF Pods, DCof, Ord
  <1> QED
    BY <1>6, <1>7, <1>8, <1>9

\* Whatever JMX, API and CQL requests fail, nodes crash, jobs are doubled or lost and
\* however often the operator restarts: a node that has been up in the ring since the
\* pass listed the pods, and was not decommissioned, is not taken out of its
\* statefulset, unless as many peers as podDecommissioned's quorum wrongly miss it.
THEOREM ShrinkSafety == Spec => ShrinkOnlyDecommissioned
  <1> DEFINE Safe == \A d \in DCs :
         /\ Shrinks(d)
         /\ wrong < Quorum
         /\ <<d, sts[d] - 1>> \in joined
         => mode[<<d, sts[d] - 1>>] = "DECOMMISSIONED"
  <1>1. Init => PassOK /\ JoinedOK
    BY InitPassOK, InitJoinedOK
  <1>2. PassOK /\ JoinedOK /\ [Next]_vars => PassOK' /\ JoinedOK'
    BY NextPassOK, NextJoinedOK
  <1>3. PassOK /\ JoinedOK /\ [Next]_vars => [Safe]_vars
    <2> SUFFICES ASSUME PassOK, JoinedOK, [Next]_vars,
                        NEW d \in DCs, Shrinks(d), wrong < Quorum,
                        <<d, sts[d] - 1>> \in joined,
                        mode[<<d, sts[d] - 1>>] # "DECOMMISSIONED"
                 PROVE  FALSE
      OBVIOUS
    <2>1. ShrinkSts /\ tgt = <<d, sts[d] - 1>>
      BY OnlyShrinkSts
    <2>2. pc = "views" /\ notLive >= Quorum /\ notLive <= wrong
      BY <2>1 DEF ShrinkSts, JoinedOK
    <2>3. notLive \in Int /\ wrong \in Int /\ Quorum \in Int
      BY QuorumType DEF PassOK, TypeOK, PassTypeOK
    <2> QED
      BY <2>2, <2>3
  <1> QED
    BY <1>1, <1>2, <1>3, PTL DEF Spec, ShrinkOnlyDecommissioned

-----------------------------------------------------------------------------
(* While the cluster only shrinks, one node per DC leaves at a time.       *)

\* The pods a spec asks for.
PodsOf(s) == {p \in Pods : Ord(p) < s[DCof(p)]}
\* More of them than can wrongly miss a node, and the node itself.
Enough(s) == \A b \in Starts : Cardinality(PodsOf(s)) > b.budget["miss"] + 1

\* No node crashes, every edit makes DCs smaller or removes them, and the cluster
\* stays large enough for podDecommissioned to have a quorum.
OnlyShrinking ==
    /\ \A b \in Starts : b.budget["crash"] = 0 /\ Enough(b.spec)
    /\ \A e \in Edits : Enough(e[2]) /\ \A d \in DCs : e[2][d] <= e[1][d]

\* What the faults of one start can still do: no crash, and no wrong answer to the
\* pass that has not cost one.
FaultsOK ==
    /\ budget["crash"] = 0
    /\ \E b \in Starts : /\ budget["miss"] <= b.budget["miss"]
                         /\ pc = "views" => wrong <= b.budget["miss"] - budget["miss"]

\* The spec is never above what the pass works with, and that never above the
\* statefulsets; all pods it asks for are listed.
SizesOK ==
    /\ Enough(spec) /\ \A d \in DCs : spec[d] > 0 => spec[d] <= sts[d]
    /\ pc # "idle" => /\ Enough(cc) /\ PodsOf(cc) \subseteq podList
                      /\ \A d \in DCs : spec[d] <= cc[d] /\ (cc[d] > 0 => cc[d] <= sts[d])
    /\ pc \in {"rmReaper", "rmSvc", "rmSts"} => sts[DCof(tgt)] = 0 /\ cc[DCof(tgt)] = 0

\* Above the last pod of a statefulset every node has left, below it none has been
\* asked to; the pass saw those of its pods in the ring that had not left.
LeavingOK ==
    \A p \in Pods :
        /\ Ord(p) >= sts[DCof(p)] => /\ mode[p] \in {"DECOMMISSIONED", "NEW"}
                                     /\ p \in pods => mode[p] = "DECOMMISSIONED"
        /\ Ord(p) < sts[DCof(p)] => /\ p \in pods /\ Kept(p)
                                    /\ pc # "idle" => p \in joined \/ mode[p] = "DECOMMISSIONED"
        /\ Ord(p) < sts[DCof(p)] - 1 => mode[p] = "NORMAL" /\ calls[p] = 0

\* What a pass that has begun leaves alone, and when it removes a DC.
LEMMA PassFrame ==
  ASSUME PassOK, PassStep, ~Begin
  PROVE  /\ pc # "idle" /\ UNCHANGED <<userVars, pods, mode, up>>
         /\ pc' = "idle" \/ UNCHANGED <<cc, podList, joined>>
         /\ sysDCs' # sysDCs => \A k \in SysKeyspaces : sysDCs'[k] \in {sysDCs[k], DesiredDCs(cc)}
         /\ \A p \in Pods : calls'[p] = calls[p] \/ (p = tgt /\ pc = "opmode")
         /\ pc' \in {"rmReaper", "rmSvc", "rmSts"} =>
              \/ pc \in {"rmReaper", "rmSvc"} /\ tgt' = tgt /\ sts' = sts
              \/ /\ pc = "dcs" /\ sts' = sts
                 /\ \E d \in todo : DCof(tgt') = d /\ stsList[d] = 0
  <1> USE DEF Return, ApiFails, userVars, kubeVars, nodeVars, jobVars, opVars, passVars
  <1>1. CASE ApplySts \/ Applied \/ \E d \in DCs : ApplyService(d)
    BY <1>1 DEF ApplySts, Applied, ApplyService
  <1>2. CASE \E d \in DCs : SkipDC(d) \/ ScaleUp(d) \/ ScaleDown(d)
    BY <1>2 DEF SkipDC, ScaleUp, ScaleDown, InDesired
  <1>3. CASE \E d \in DCs : NextDC(d)
    BY <1>3 DEF NextDC, IsFirst, DCof
  <1>4. CASE DesiredDone \/ CheckKeyspaces \/ KeepSts \/ DCsDone
    BY <1>4 DEF DesiredDone, CheckKeyspaces, KeepSts, DCsDone
  <1>5. CASE CheckOperationMode
    <2>1. \A p \in Pods : calls'[p] = calls[p] \/ p = tgt
      BY <1>5 DEF CheckOperationMode, RunJob, PassOK, TypeOK, ClusterTypeOK
    <2> QED
      BY <1>5, <2>1 DEF CheckOperationMode, Handled
  <1>6. CASE \E q \in Pods : AskView(q)
    BY <1>6 DEF AskView
  <1>7. CASE ShrinkSts
    BY <1>7 DEF ShrinkSts, Handled, RemoveJob
  <1>8. CASE SystemKeyspacesDone \/ \E k \in SysKeyspaces : AlterSystemKeyspace(k)
    <2>1. ASSUME NEW k \in SysKeyspaces, AlterSystemKeyspace(k)
          PROVE  \A j \in SysKeyspaces : sysDCs'[j] \in {sysDCs[j], DesiredDCs(cc)}
      BY <2>1 DEF AlterSystemKeyspace, PassOK, TypeOK, ClusterTypeOK
    <2> QED
      BY <1>8, <2>1 DEF SystemKeyspacesDone, AlterSystemKeyspace
  <1>9. CASE RemoveReaper \/ RemoveSvc \/ RemoveSts
    BY <1>9 DEF RemoveReaper, RemoveSvc, RemoveSts
  <1> QED
    BY <1>1, <1>2, <1>3, <1>4, <1>5, <1>6, <1>7, <1>8, <1>9 DEF PassStep

LEMMA PodsOfFinite ==
  ASSUME NEW S, S \subseteq Pods
  PROVE  IsFiniteSet(S) /\ Cardinality(S) \in Nat
  <1>1. IsFiniteSet(0..MaxReplicas - 1)
    BY ScalingAssumption, FS_Interval
  <1>2. IsFiniteSet(Pods)
    BY <1>1, ScalingAssumption, FS_Product DEF Pods
  <1> QED
    BY <1>2, FS_Subset, FS_CardinalityType

LEMMA InitFaultsOK == ASSUME OnlyShrinking, Init PROVE FaultsOK
  <1>1. PICK s \in Starts : budget = s.budget
    BY DEF Init
  <1>2. s.budget["crash"] = 0 /\ s.budget["miss"] \in Nat /\ pc = "idle"
    BY ScalingAssumption DEF Init, OnlyShrinking, FaultKinds
  <1> QED
    BY <1>1, <1>2 DEF FaultsOK

LEMMA NextFaultsOK ==
  ASSUME PassOK, FaultsOK, [Next]_vars, PassOK'
  PROVE  FaultsOK'
  <1> USE DEF PassOK, TypeOK
  <1>1. PICK b \in Starts : /\ budget["miss"] <= b.budget["miss"]
                            /\ pc = "views" => wrong <= b.budget["miss"] - budget["miss"]
    BY DEF FaultsOK
  <1>2. /\ budget["crash"] = 0 /\ budget'["crash"] = 0
        /\ budget["miss"] \in Nat /\ budget'["miss"] \in Nat /\ budget'["miss"] <= budget["miss"]
        /\ b.budget["miss"] \in Nat /\ wrong \in Nat
    BY BudgetStep, ScalingAssumption DEF FaultsOK, ClusterTypeOK, PassTypeOK, FaultKinds
  <1>3. ASSUME pc' = "views" PROVE wrong' <= b.budget["miss"] - budget'["miss"]
    <2>1. CASE ~PassStep
      <3>1. pc = "views" /\ wrong' = wrong
        BY <1>3, <2>1, OutsidePass DEF OperatorRestart, PassStays
      <3> QED
        BY <1>1, <1>2, <3>1
    <2>2. CASE PassStep
      <3>1. ~NotListed
        BY <1>3, <2>2, NotListedStep DEF Begin, ApplySts, Applied, ApplyService, ApiFails, Return
      <3>2. CheckOperationMode \/ \E q \in Pods : AskView(q)
        BY <1>3, <2>2, <3>1, PassEffect
      <3>3. CASE CheckOperationMode
        <4>1. wrong' = 0
          BY <1>3, <3>3 DEF CheckOperationMode, ListOK, Handled, Return, passVars
        <4> QED
          BY <1>1, <1>2, <4>1
      <3>4. ASSUME NEW q \in Pods, AskView(q)
            PROVE  wrong' <= b.budget["miss"] - budget'["miss"]
        <4>1. /\ pc = "views"
              /\ wrong' = wrong \/ (wrong' = wrong + 1 /\ Spend("miss"))
          BY <1>3, <3>4 DEF AskView, Return
        <4>2. Spend("miss") => budget'["miss"] = budget["miss"] - 1
          BY DEF Spend, ClusterTypeOK, FaultKinds
        <4> QED
          BY <1>1, <1>2, <4>1, <4>2
      <3> QED
        BY <3>2, <3>3, <3>4
    <2> QED
      BY <2>1, <2>2
  <1>4. budget'["miss"] <= b.budget["miss"]
    BY <1>1, <1>2
  <1> QED
    BY <1>2, <1>3, <1>4 DEF FaultsOK

\* The pods of the spec that the pass listed give podDecommissioned its quorum.
LEMMA QuorumEnough ==
  ASSUME PassOK, SizesOK, FaultsOK, pc = "views"
  PROVE  wrong < Quorum
  <1> DEFINE L == {p \in podList : cc[DCof(p)] > 0}
  <1>1. L \subseteq Pods /\ PodsOf(cc) \subseteq L
    BY PodParts DEF PassOK, TypeOK, PassTypeOK, SizesOK, PodsOf, Specs
  <1>2. IsFiniteSet(L) /\ Cardinality(L) \in Nat /\ Cardinality(PodsOf(cc)) \in Nat
    BY <1>1, PodsOfFinite
  <1>3. Cardinality(PodsOf(cc)) <= Cardinality(L)
    BY <1>1, <1>2, FS_Subset
  <1>4. PICK b \in Starts : /\ budget["miss"] <= b.budget["miss"]
                            /\ wrong <= b.budget["miss"] - budget["miss"]
    BY DEF FaultsOK
  <1>5. Cardinality(PodsOf(cc)) > b.budget["miss"] + 1
    BY DEF SizesOK, Enough
  <1>6. b.budget["miss"] \in Nat /\ budget["miss"] \in Nat /\ wrong \in Nat
    BY ScalingAssumption DEF FaultKinds, PassOK, TypeOK, ClusterTypeOK, PassTypeOK
  <1>7. Quorum = Cardinality(L) - 1
    BY DEF Quorum
  <1> HIDE DEF L
  <1> QED
    BY <1>2, <1>3, <1>4, <1>5, <1>6, <1>7

\* So the pod a statefulset loses has left.
LEMMA TargetLeft ==
  ASSUME PassOK, JoinedOK, FaultsOK, SizesOK, LeavingOK, ShrinkSts
  PROVE  mode[tgt] = "DECOMMISSIONED"
  <1>1. /\ pc = "views" /\ notLive >= Quorum /\ tgt \in Pods /\ Ord(tgt) < sts[DCof(tgt)]
    BY PodParts DEF ShrinkSts, PassOK, TargetOK
  <1>2. wrong < Quorum
    BY <1>1, QuorumEnough
  <1>3. notLive \in Int /\ wrong \in Int /\ Quorum \in Int
    BY QuorumType DEF PassOK, TypeOK, PassTypeOK
  <1>4. tgt \in joined /\ mode[tgt] # "DECOMMISSIONED" => notLive <= wrong
    BY <1>1 DEF JoinedOK
  <1>5. tgt \in joined \/ mode[tgt] = "DECOMMISSIONED"
    BY <1>1 DEF LeavingOK
  <1> QED
    BY <1>1, <1>2, <1>3, <1>4, <1>5

\* No statefulset grows: one loses its last pod, or is removed without pods.
LEMMA StsEffect ==
  ASSUME PassOK, JoinedOK, FaultsOK, SizesOK, LeavingOK, PassStep, ~Begin
  PROVE  \/ sts' = sts
         \/ /\ ShrinkSts /\ tgt \in Pods /\ sts[DCof(tgt)] = Ord(tgt) + 1
            /\ sts' = [sts EXCEPT ![DCof(tgt)] = Ord(tgt)]
            /\ cc[DCof(tgt)] <= Ord(tgt) /\ mode[tgt] = "DECOMMISSIONED"
         \/ /\ RemoveSts /\ tgt \in Pods /\ sts[DCof(tgt)] = 0 /\ cc[DCof(tgt)] = 0
            /\ sts' = [sts EXCEPT ![DCof(tgt)] = NoSts] /\ pc' = "idle"
  <1> USE DEF kubeVars
  <1>1. CASE ApplySts
    <2>1. DCof(tgt) \in DCs /\ cc[DCof(tgt)] > 0 /\ pc # "idle"
      BY <1>1, PodParts DEF ApplySts, PassOK, TargetOK
    <2>2. cc[DCof(tgt)] \in Nat /\ sts[DCof(tgt)] \in Int /\ cc[DCof(tgt)] <= sts[DCof(tgt)]
      BY <2>1, SizesType DEF SizesOK
    <2>3. sts[DCof(tgt)] # NoSts
      BY <2>1, <2>2 DEF NoSts
    <2> QED
      BY <1>1, <2>3 DEF ApplySts, PassOK, TypeOK, ClusterTypeOK
  <1>2. ASSUME NEW d \in DCs, ScaleUp(d) PROVE FALSE
    <2>1. sts[d] < cc[d] /\ cc[d] > 0 /\ pc # "idle" /\ sts[d] \in Int /\ cc[d] \in Int
      BY <1>2, ScalingAssumption DEF ScaleUp, InDesired, IsFirst, PassOK, ListOK, TypeOK, ClusterTypeOK, PassTypeOK, Specs, NoSts
    <2> QED
      BY <2>1 DEF SizesOK
  <1>3. CASE ShrinkSts
    <2>1. /\ tgt \in Pods /\ stsList[DCof(tgt)] = Ord(tgt) + 1
          /\ cc[DCof(tgt)] < stsList[DCof(tgt)] /\ sts[DCof(tgt)] = stsList[DCof(tgt)]
      BY <1>3 DEF ShrinkSts, PassOK, TargetOK
    <2>2. Ord(tgt) \in Nat /\ DCof(tgt) \in DCs /\ cc[DCof(tgt)] \in Nat
      BY <2>1, PodParts DEF PassOK, TypeOK, PassTypeOK, Specs
    <2>3. sts' = sts \/ sts' = [sts EXCEPT ![DCof(tgt)] = stsList[DCof(tgt)] - 1]
      BY <1>3 DEF ShrinkSts
    <2>4. stsList[DCof(tgt)] - 1 = Ord(tgt) /\ cc[DCof(tgt)] <= Ord(tgt)
      BY <2>1, <2>2
    <2> QED
      BY <1>3, <2>1, <2>3, <2>4, TargetLeft
  <1>4. CASE RemoveSts
    <2>1. tgt \in Pods /\ sts[DCof(tgt)] = 0 /\ cc[DCof(tgt)] = 0
      BY <1>4 DEF RemoveSts, PassOK, TargetOK, SizesOK
    <2> QED
      BY <1>4, <2>1 DEF RemoveSts, Return
  <1> QED
    BY <1>1, <1>2, <1>3, <1>4 DEF PassStep, ApplyService, Applied, SkipDC, ScaleDown, NextDC,
       DesiredDone, CheckOperationMode, AskView, KeepSts, CheckKeyspaces, AlterSystemKeyspace,
       SystemKeyspacesDone, DCsDone, RemoveReaper, RemoveSvc

LEMMA PassSizesOK ==
  ASSUME PassOK, JoinedOK, FaultsOK, SizesOK, LeavingOK, PassStep, ~Begin
  PROVE  SizesOK'
  <1>1. /\ pc # "idle" /\ spec' = spec
        /\ pc' = "idle" \/ (cc' = cc /\ podList' = podList)
        /\ pc' \in {"rmReaper", "rmSvc", "rmSts"} =>
              \/ pc \in {"rmReaper", "rmSvc"} /\ tgt' = tgt /\ sts' = sts
              \/ /\ pc = "dcs" /\ sts' = sts
                 /\ \E d \in todo : DCof(tgt') = d /\ stsList[d] = 0
    BY PassFrame DEF userVars
  <1>2. \A d \in DCs : cc[d] > 0 => cc[d] <= sts'[d]
    <2> SUFFICES ASSUME NEW d \in DCs, cc[d] > 0 PROVE cc[d] <= sts'[d]
      OBVIOUS
    <2>1. cc[d] <= sts[d]
      BY <1>1 DEF SizesOK
    <2>2. DOMAIN sts = DCs
      BY DEF PassOK, TypeOK, ClusterTypeOK
    <2> QED
      BY <2>1, <2>2, StsEffect
  <1>3. \A d \in DCs : spec[d] <= cc[d] /\ spec[d] \in Nat /\ cc[d] \in Nat
    BY <1>1, SizesType DEF SizesOK
  <1>4. \A d \in DCs : sts'[d] \in Int
    <2>1. PassOK'
      BY NextPassOK DEF Next
    <2> QED
      BY <2>1, ScalingAssumption DEF PassOK, TypeOK, ClusterTypeOK, NoSts
  <1>5. \A d \in DCs : spec[d] > 0 => spec[d] <= sts'[d]
    BY <1>2, <1>3, <1>4
  <1>6. ASSUME pc' \in {"rmReaper", "rmSvc", "rmSts"}
        PROVE  sts'[DCof(tgt')] = 0 /\ cc'[DCof(tgt')] = 0
    <2>1. cc' = cc
      BY <1>1, <1>6
    <2>2. CASE pc \in {"rmReaper", "rmSvc"} /\ tgt' = tgt /\ sts' = sts
      BY <2>1, <2>2 DEF SizesOK
    <2>3. ASSUME pc = "dcs", sts' = sts, NEW d \in todo, DCof(tgt') = d, stsList[d] = 0
          PROVE  sts'[DCof(tgt')] = 0 /\ cc'[DCof(tgt')] = 0
      BY <2>1, <2>3 DEF PassOK, ListOK, InRemoval
    <2> QED
      BY <1>1, <1>6, <2>2, <2>3
  <1>7. Enough(spec') /\ (pc' # "idle" => Enough(cc') /\ PodsOf(cc') \subseteq podList')
    BY <1>1 DEF SizesOK
  <1> QED
    BY <1>1, <1>2, <1>3, <1>5, <1>6, <1>7 DEF SizesOK, Enough, PodsOf

LEMMA PassLeavingOK ==
  ASSUME PassOK, JoinedOK, FaultsOK, SizesOK, LeavingOK, PassStep, ~Begin
  PROVE  LeavingOK'
  <1>1. /\ pc # "idle" /\ UNCHANGED <<pods, mode, up>>
        /\ pc' = "idle" \/ joined' = joined
        /\ \A p \in Pods : calls'[p] = calls[p] \/ (p = tgt /\ pc = "opmode")
    BY PassFrame
  <1>2. DOMAIN sts = DCs
    BY DEF PassOK, TypeOK, ClusterTypeOK
  <1> SUFFICES ASSUME NEW p \in Pods
               PROVE  /\ Ord(p) >= sts'[DCof(p)] => /\ mode'[p] \in {"DECOMMISSIONED", "NEW"}
                                                    /\ p \in pods' => mode'[p] = "DECOMMISSIONED"
                      /\ Ord(p) < sts'[DCof(p)] =>
                            /\ p \in pods' /\ Kept(p)'
                            /\ pc' # "idle" => p \in joined' \/ mode'[p] = "DECOMMISSIONED"
                      /\ Ord(p) < sts'[DCof(p)] - 1 => mode'[p] = "NORMAL" /\ calls'[p] = 0
    BY DEF LeavingOK
  <1>3. Ord(p) \in Nat /\ DCof(p) \in DCs /\ sts[DCof(p)] \in Int
    BY PodParts, SizesType
  <1>4. Kept(p)' <=> Kept(p)
    BY <1>1 DEF Kept, Gossips, InRing
  <1>5. \/ sts'[DCof(p)] = sts[DCof(p)]
        \/ /\ sts'[DCof(p)] = sts[DCof(p)] - 1
           /\ Ord(p) = sts[DCof(p)] - 1 => mode[p] = "DECOMMISSIONED"
        \/ sts'[DCof(p)] = -1 /\ sts[DCof(p)] = 0
    <2>1. CASE sts' = sts
      BY <2>1
    <2>2. CASE /\ tgt \in Pods /\ sts[DCof(tgt)] = Ord(tgt) + 1
               /\ sts' = [sts EXCEPT ![DCof(tgt)] = Ord(tgt)]
               /\ mode[tgt] = "DECOMMISSIONED"
      <3>1. Ord(tgt) \in Nat
        BY <2>2, PodParts
      <3>2. DCof(p) = DCof(tgt) /\ Ord(p) = Ord(tgt) => p = tgt
        BY <2>2 DEF Pods, DCof, Ord
      <3> QED
        BY <1>2, <1>3, <2>2, <3>1, <3>2
    <2>3. CASE /\ tgt \in Pods /\ sts[DCof(tgt)] = 0
               /\ sts' = [sts EXCEPT ![DCof(tgt)] = NoSts]
      BY <1>2, <1>3, <2>3 DEF NoSts
    <2> QED
      BY <2>1, <2>2, <2>3, StsEffect
  <1>6. Ord(p) >= sts[DCof(p)] => /\ mode[p] \in {"DECOMMISSIONED", "NEW"}
                                  /\ p \in pods => mode[p] = "DECOMMISSIONED"
    BY DEF LeavingOK
  <1>7. Ord(p) < sts[DCof(p)] => /\ p \in pods /\ Kept(p)
                                 /\ p \in joined \/ mode[p] = "DECOMMISSIONED"
    BY <1>1 DEF LeavingOK
  <1>8. Ord(p) < sts[DCof(p)] - 1 => mode[p] = "NORMAL" /\ calls[p] = 0 /\ calls'[p] = 0
    <2>1. p = tgt /\ pc = "opmode" => sts[DCof(p)] = Ord(p) + 1
      BY DEF PassOK, TargetOK
    <2> QED
      BY <1>1, <1>3, <2>1 DEF LeavingOK
  <1> QED
    BY <1>1, <1>3, <1>4, <1>5, <1>6, <1>7, <1>8

\* The start of a pass, and of the operator.
LEMMA StartLeavingOK ==
  ASSUME PassOK, SizesOK, LeavingOK, Begin \/ OperatorRestart
  PROVE  SizesOK' /\ LeavingOK'
  <1> USE DEF userVars, kubeVars, nodeVars, jobVars
  <1>1. CASE Begin
    <2>1. PodsOf(spec) \subseteq pods
      <3> SUFFICES ASSUME NEW p \in Pods, Ord(p) < spec[DCof(p)] PROVE p \in pods
        BY DEF PodsOf
      <3>1. Ord(p) \in Nat /\ sts[DCof(p)] \in Int /\ spec[DCof(p)] \in Nat /\ DCof(p) \in DCs
        BY PodParts, SizesType
      <3> QED
        BY <3>1 DEF SizesOK, LeavingOK
    <2>2. \A d \in DCs : spec[d] <= spec[d]
      BY SizesType
    <2>3. SizesOK'
      BY <1>1, <2>1, <2>2 DEF Begin, SizesOK, Enough, PodsOf
    <2>4. LeavingOK'
      BY <1>1 DEF Begin, LeavingOK, Kept, Gossips, InRing
    <2> QED
      BY <2>3, <2>4
  <1>2. CASE OperatorRestart
    BY <1>2 DEF OperatorRestart, SizesOK, LeavingOK, Enough, PodsOf, Kept, Gossips, InRing
  <1> QED
    BY <1>1, <1>2

\* Jobs, nodes, the statefulset controller and the user.
LEMMA OutsideSizesOK ==
  ASSUME OnlyShrinking, PassOK, SizesOK, [Next]_vars, ~PassStep, ~OperatorRestart
  PROVE  SizesOK'
  <1>1. PassStays
    BY OutsidePass
  <1>2. Enough(spec') /\ \A d \in DCs : spec'[d] <= spec[d]
    <2>1. CASE spec' = spec
      BY <2>1, SizesType DEF SizesOK
    <2>2. ASSUME NEW new \in Specs, EditSpec(new) PROVE Enough(spec') /\ \A d \in DCs : spec'[d] <= spec[d]
      BY <2>2 DEF EditSpec, OnlyShrinking
    <2> QED
      BY <2>1, <2>2 DEF Next, JobStep, PodStep, NodeCrash, AlterKeyspace, DecommissionStart,
         DecommissionFail, DecommissionEnd, NodeStart, NodeShutdown, CreatePod, DeletePod,
         vars, userVars
  <1>3. \A d \in DCs : sts[d] \in Int /\ cc[d] \in Nat /\ spec[d] \in Nat /\ spec'[d] \in Nat
    BY SizesType, NextPassOK DEF PassOK, TypeOK, ClusterTypeOK, Specs
  <1>4. \A d \in DCs : spec'[d] > 0 => spec'[d] <= sts[d]
    BY <1>2, <1>3 DEF SizesOK
  <1>5. pc # "idle" => \A d \in DCs : spec'[d] <= cc[d]
    BY <1>2, <1>3 DEF SizesOK
  <1> QED
    BY <1>1, <1>2, <1>4, <1>5 DEF PassStays, SizesOK, Enough, PodsOf

LEMMA OutsideLeavingOK ==
  ASSUME PassOK, FaultsOK, LeavingOK, [Next]_vars, ~PassStep, ~OperatorRestart
  PROVE  LeavingOK'
  <1>0. \A p \in Pods : ~NodeCrash(p)
    BY DEF FaultsOK, NodeCrash, Spend
  <1>1. PassStays /\ joined' = joined
    BY <1>0, OutsidePass
  <1>2. \A p \in Pods : Ord(p) \in Nat /\ sts[DCof(p)] \in Int
    BY PodParts, SizesType
  <1>3. /\ mode \in [Pods -> Modes] /\ up \in [Pods -> BOOLEAN]
        /\ calls \in [Pods -> 0..MaxCalls] /\ pods \subseteq Pods
    BY DEF PassOK, TypeOK, ClusterTypeOK
  <1>4. \A p \in Pods : p \in pods /\ ~up[p] => mode[p] = "DECOMMISSIONED"
    BY <1>2 DEF LeavingOK, Kept, Gossips
  <1> DEFINE Frame ==
         /\ pods' \subseteq pods
         /\ \A p \in Pods : Ord(p) >= sts[DCof(p)] => mode'[p] = mode[p] \/ (mode'[p] = "NEW" /\ p \notin pods')
         /\ \A p \in Pods : Ord(p) < sts[DCof(p)] /\ p \in pods => p \in pods'
         /\ \A p \in Pods : Ord(p) < sts[DCof(p)] - 1 => mode'[p] = mode[p] /\ calls'[p] = calls[p]
  <1>5. Frame
    <2> USE DEF kubeVars, nodeVars, jobVars
    <2>1. ASSUME NEW q \in Pods, DecommissionStart(q) PROVE Frame
      BY <1>2, <1>3, <2>1 DEF DecommissionStart, LeavingOK
    <2>2. ASSUME NEW q \in Pods, DecommissionFail(q) PROVE Frame
      BY <1>2, <1>3, <2>2 DEF DecommissionFail, LeavingOK
    <2>3. ASSUME NEW q \in Pods, DecommissionEnd(q) PROVE Frame
      BY <1>2, <1>3, <2>3 DEF DecommissionEnd, LeavingOK
    <2>4. ASSUME NEW q \in Pods, NodeStart(q) PROVE Frame
      BY <1>4, <2>4 DEF NodeStart
    <2>5. ASSUME NEW q \in Pods, NodeShutdown(q) PROVE Frame
      BY <1>2, <1>3, <2>5 DEF NodeShutdown
    <2>6. ASSUME NEW q \in Pods, CreatePod(q) PROVE Frame
      BY <2>6 DEF CreatePod, LeavingOK
    <2>7. ASSUME NEW q \in Pods, DeletePod(q) PROVE Frame
      BY <1>2, <1>3, <2>7 DEF DeletePod
    <2>8. ASSUME NEW q \in Pods, NodeCrash(q) PROVE Frame
      BY <1>0, <2>8
    <2>9. ASSUME \/ \E new \in Specs : EditSpec(new)
                 \/ \E d \in DCs : AlterKeyspace(d)
                 \/ UNCHANGED vars
          PROVE  Frame
      BY <2>9 DEF EditSpec, AlterKeyspace, vars
    <2> QED
      BY <2>1, <2>2, <2>3, <2>4, <2>5, <2>6, <2>7, <2>8, <2>9 DEF Next, JobStep, PodStep
  <1>6. \A p \in Pods : Kept(p) /\ Ord(p) < sts[DCof(p)] =>
            Kept(p)' /\ (mode[p] = "DECOMMISSIONED" => mode'[p] = "DECOMMISSIONED")
    BY <1>0, KeptStep DEF PassOK, TypeOK
  <1>7. pc' = pc /\ joined' = joined /\ sts' = sts
    BY <1>1 DEF PassStays
  <1> QED
    BY <1>5, <1>6, <1>7 DEF LeavingOK

LEMMA InitLeavingOK == ASSUME OnlyShrinking, Init PROVE SizesOK /\ LeavingOK
  <1>0. PICK s \in Starts : InitCluster(s.spec)
    BY DEF Init
  <1>1. \A d \in DCs : s.spec[d] \in Nat
    BY ScalingAssumption DEF Specs
  <1>2. SizesOK
    BY <1>0, <1>1 DEF Init, InitCluster, OnlyShrinking, SizesOK
  <1>3. LeavingOK
    <2> SUFFICES ASSUME NEW p \in Pods
                 PROVE  /\ Ord(p) >= sts[DCof(p)] => mode[p] = "NEW" /\ p \notin pods
                        /\ Ord(p) < sts[DCof(p)] =>
                             p \in pods /\ mode[p] = "NORMAL" /\ up[p] /\ calls[p] = 0
      <3>1. \A p \in Pods : Ord(p) \in Nat /\ sts[DCof(p)] \in Int
        BY PodParts, SizesType, InitPassOK
      <3>2. pc = "idle"
        BY DEF Init
      <3> QED
        BY <3>1, <3>2 DEF LeavingOK, Kept, Gossips, InRing
    <2>1. Ord(p) \in Nat /\ DCof(p) \in DCs
      BY PodParts
    <2>2. /\ sts[DCof(p)] = IF s.spec[DCof(p)] > 0 THEN s.spec[DCof(p)] ELSE NoSts
          /\ p \in pods <=> Ord(p) < s.spec[DCof(p)]
      BY <1>0, <2>1 DEF InitCluster
    <2>3. /\ mode[p] = IF p \in pods THEN "NORMAL" ELSE "NEW"
          /\ calls[p] = 0 /\ (p \in pods => up[p])
      BY <1>0 DEF Init, InitCluster
    <2>4. s.spec[DCof(p)] \in Nat
      BY <1>1, <2>1
    <2>5. Ord(p) < sts[DCof(p)] <=> p \in pods
      BY <2>1, <2>2, <2>4 DEF NoSts
    <2>6. Ord(p) >= sts[DCof(p)] => ~(Ord(p) < sts[DCof(p)])
      BY <2>1, <2>2, <2>4 DEF NoSts
    <2> QED
      BY <2>3, <2>5, <2>6
  <1> QED
    BY <1>2, <1>3

\* The inductive invariant of the two theorems.
ShrinkInv == PassOK /\ JoinedOK /\ FaultsOK /\ SizesOK /\ LeavingOK

LEMMA InitShrinkInv == ASSUME OnlyShrinking, Init PROVE ShrinkInv
  BY InitPassOK, InitJoinedOK, InitFaultsOK, InitLeavingOK DEF ShrinkInv

LEMMA NextShrinkInv == ASSUME OnlyShrinking, ShrinkInv, [Next]_vars PROVE ShrinkInv'
  <1>1. PassOK /\ JoinedOK /\ FaultsOK /\ SizesOK /\ LeavingOK
    BY DEF ShrinkInv
  <1>2. PassOK' /\ JoinedOK' /\ FaultsOK'
    BY <1>1, NextPassOK, NextJoinedOK, NextFaultsOK
  <1>3. SizesOK' /\ LeavingOK'
    <2>1. CASE PassStep /\ ~Begin
      BY <1>1, <2>1, PassSizesOK, PassLeavingOK
    <2>2. CASE Begin \/ OperatorRestart
      BY <1>1, <2>2, StartLeavingOK
    <2>3. CASE ~PassStep /\ ~OperatorRestart
      BY <1>1, <2>3, OutsideSizesOK, OutsideLeavingOK
    <2> QED
      BY <2>1, <2>2, <2>3
  <1> QED
    BY <1>2, <1>3 DEF ShrinkInv

\* While the user only shrinks the cluster and no node crashes, two nodes of a DC
\* never leave at the same time: handlePodDecommission asks only the last pod of a
\* statefulset to leave, and lowers the replicas only when it has left, although
\* passes work with old lists, jobs fail or are lost and the operator restarts.
THEOREM OneLeavesAtATime ==
  ASSUME OnlyShrinking
  PROVE  Spec => []OneLeavingPerDC
  <1>1. ShrinkInv => OneLeavingPerDC
    <2> SUFFICES ASSUME ShrinkInv, NEW p \in Pods, NEW q \in Pods, mode[p] = "LEAVING",
                        mode[q] = "LEAVING", DCof(p) = DCof(q)
                 PROVE  p = q
      BY DEF OneLeavingPerDC
    <2>1. Ord(p) \in Nat /\ Ord(q) \in Nat /\ sts[DCof(p)] \in Int
      BY PodParts, SizesType DEF ShrinkInv
    <2>2. Ord(p) = sts[DCof(p)] - 1 /\ Ord(q) = sts[DCof(p)] - 1
      BY <2>1 DEF ShrinkInv, LeavingOK
    <2> QED
      BY <2>2 DEF Pods, DCof, Ord
  <1> QED
    BY <1>1, InitShrinkInv, NextShrinkInv, PTL DEF Spec

\* Under the same hypotheses, what the documentation says of a scale down holds: a
\* statefulset loses a pod only after the pod's node has left the ring.
THEOREM ShrinkAfterLeaving ==
  ASSUME OnlyShrinking
  PROVE  Spec => ShrinkAfterDecommission
  <1> DEFINE Safe == \A d \in DCs : Shrinks(d) => ~InRing(<<d, sts[d] - 1>>)
  <1>1. ShrinkInv /\ [Next]_vars => [Safe]_vars
    <2> SUFFICES ASSUME ShrinkInv, [Next]_vars, NEW d \in DCs, Shrinks(d)
                 PROVE  ~InRing(<<d, sts[d] - 1>>)
      OBVIOUS
    <2>1. ShrinkSts /\ tgt = <<d, sts[d] - 1>>
      BY OnlyShrinkSts DEF ShrinkInv
    <2>2. mode[tgt] = "DECOMMISSIONED"
      BY <2>1, TargetLeft DEF ShrinkInv
    <2> QED
      BY <2>1, <2>2 DEF InRing
  <1> QED
    BY <1>1, InitShrinkInv, NextShrinkInv, PTL DEF Spec, ShrinkAfterDecommission

-----------------------------------------------------------------------------
(* The keyspaces keep their nodes.                                         *)

\* The user brings no DC (back) into the spec.
NoneAdded == \A e \in Edits : \A d \in DCs : e[1][d] = 0 => e[2][d] = 0

\* The first node of the DC stays: it is in the ring and nothing asks it to leave.
HasNode(d) == sts[d] >= 1 /\ mode[<<d, 0>>] = "NORMAL" /\ calls[<<d, 0>>] = 0

\* The pass is decommissioning or removing DCs.
Removing == InRemoval \/ pc \in {"rmReaper", "rmSvc", "rmSts"}

\* Every DC that the spec or the pass asks for, and every DC a keyspace relies on,
\* has a node that stays; a pass that removes DCs has seen that none relies on them.
NodesOK ==
    /\ \A d \in DesiredDCs(spec) \cup (ksDCs \ late) : HasNode(d)
    /\ \A k \in SysKeyspaces : \A d \in sysDCs[k] : HasNode(d)
    /\ pc # "idle" => /\ \A d \in DesiredDCs(cc) : HasNode(d)
                      /\ DesiredDCs(spec) \subseteq DesiredDCs(cc)
    /\ pc = "alter" \/ Removing => (ksDCs \ late) \cap RemovedSts = {}
    /\ Removing => \A k \in SysKeyspaces : sysDCs[k] = DesiredDCs(cc)
    /\ pc \in {"rmReaper", "rmSvc", "rmSts"} => DCof(tgt) \in RemovedSts

\* The first pod of a DC.
LEMMA FirstPod ==
  ASSUME NEW d \in DCs
  PROVE  <<d, 0>> \in Pods /\ DCof(<<d, 0>>) = d /\ Ord(<<d, 0>>) = 0
  BY ScalingAssumption DEF Pods, DCof, Ord

\* Jobs, nodes, the statefulset controller and the user leave such a node alone.
LEMMA OutsideKeepsNode ==
  ASSUME PassOK, [Next]_vars, ~PassStep, NEW d \in DCs, HasNode(d)
  PROVE  HasNode(d)'
  <1> USE DEF HasNode, PassOK, TypeOK, ClusterTypeOK
  <1> DEFINE f == <<d, 0>>
  <1>1. f \in Pods /\ DCof(f) = d /\ Ord(f) = 0
    BY FirstPod
  <1>2. CASE OperatorRestart
    BY <1>1, <1>2 DEF OperatorRestart, kubeVars, nodeVars
  <1>3. CASE ~OperatorRestart
    <2>1. sts' = sts
      BY <1>3, OutsidePass DEF PassStays
    <2>2. ASSUME NEW p \in Pods, DecommissionStart(p) \/ DecommissionFail(p)
          PROVE  mode'[f] = mode[f] /\ calls'[f] = calls[f]
      BY <1>1, <2>2 DEF DecommissionStart, DecommissionFail, nodeVars
    <2>3. ASSUME NEW p \in Pods, DecommissionEnd(p) \/ NodeStart(p) \/ NodeShutdown(p) \/ CreatePod(p)
          PROVE  mode'[f] = mode[f] /\ calls'[f] = calls[f]
      BY <1>1, <2>3 DEF DecommissionEnd, NodeStart, NodeShutdown, CreatePod, nodeVars, jobVars
    <2>4. ASSUME NEW p \in Pods, DeletePod(p)
          PROVE  mode'[f] = mode[f] /\ calls'[f] = calls[f]
      <3>1. p # f
        BY <1>1, <2>4, SizesType DEF DeletePod
      <3> QED
        BY <1>1, <2>4, <3>1 DEF DeletePod
    <2>5. ASSUME NEW p \in Pods, NodeCrash(p)
          PROVE  mode'[f] = mode[f] /\ calls'[f] = calls[f]
      BY <1>1, <2>5 DEF NodeCrash
    <2>6. ASSUME \/ \E new \in Specs : EditSpec(new)
                 \/ \E e \in DCs : AlterKeyspace(e)
                 \/ UNCHANGED vars
          PROVE  mode'[f] = mode[f] /\ calls'[f] = calls[f]
      BY <2>6 DEF EditSpec, AlterKeyspace, vars, nodeVars, jobVars
    <2> QED
      BY <1>3, <2>1, <2>2, <2>3, <2>4, <2>5, <2>6 DEF Next, JobStep, PodStep
  <1> QED
    BY <1>2, <1>3

\* A pass takes the first node only from a DC that it removes.
LEMMA PassKeepsNode ==
  ASSUME PassOK, NodesOK, PassStep, ~Begin, NEW d \in DCs, HasNode(d),
         ~(Removing /\ d \in RemovedSts)
  PROVE  HasNode(d)'
  <1> USE DEF PassOK, TypeOK
  <1> DEFINE f == <<d, 0>>
  <1>1. f \in Pods /\ DCof(f) = d /\ Ord(f) = 0
    BY FirstPod
  <1>2. /\ UNCHANGED mode
        /\ calls'[f] = calls[f] \/ (f = tgt /\ pc = "opmode")
    BY <1>1, PassFrame
  <1>3. cc[d] \in Nat /\ sts[d] \in Int
    BY SizesType
  <1>4. ASSUME pc \in {"opmode", "views"}, DCof(tgt) = d
        PROVE  cc[d] > 0 /\ Ord(tgt) >= 1 /\ Ord(tgt) \in Nat /\ stsList[d] - 1 = Ord(tgt)
    <2>1. /\ tgt \in Pods /\ stsList[d] = Ord(tgt) + 1 /\ cc[d] < stsList[d]
      BY <1>4 DEF TargetOK
    <2>2. Ord(tgt) \in Nat
      BY <2>1, PodParts
    <2>3. cc[d] = 0 => Removing /\ d \in RemovedSts
      BY <1>4, <2>1, <2>2 DEF Removing, InRemoval, RemovedSts, DesiredDCs, NoSts
    <2> QED
      BY <1>3, <2>1, <2>2, <2>3
  <1>5. calls'[f] = 0
    BY <1>1, <1>2, <1>4 DEF HasNode
  <1>6. sts'[d] >= 1
    <2> USE DEF HasNode
    <2>1. CASE sts'[d] = sts[d]
      BY <2>1
    <2>2. CASE ApplySts
      <3>1. sts' = sts \/ sts' = [sts EXCEPT ![DCof(tgt)] = IF @ = NoSts THEN cc[DCof(tgt)] ELSE @]
        BY <2>2 DEF ApplySts
      <3>2. sts'[d] = sts[d]
        BY <1>3, <3>1 DEF ClusterTypeOK, NoSts
      <3> QED
        BY <3>2
    <2>3. ASSUME NEW e \in DCs, ScaleUp(e) PROVE sts'[d] >= 1
      <3>1. cc[e] > 0 /\ (sts' = sts \/ sts' = [sts EXCEPT ![e] = cc[e]])
        BY <2>3 DEF ScaleUp, InDesired, IsFirst, ListOK
      <3> QED
        BY <1>3, <3>1 DEF ClusterTypeOK
    <2>4. CASE ShrinkSts
      <3>1. sts' = sts \/ sts' = [sts EXCEPT ![DCof(tgt)] = stsList[DCof(tgt)] - 1]
        BY <2>4 DEF ShrinkSts
      <3>2. d # DCof(tgt) => sts'[d] = sts[d]
        BY <3>1 DEF ClusterTypeOK
      <3>3. d = DCof(tgt) => sts'[d] = sts[d] \/ sts'[d] = Ord(tgt)
        BY <1>4, <2>4, <3>1 DEF ShrinkSts, ClusterTypeOK
      <3> QED
        BY <1>4, <2>4, <3>2, <3>3 DEF ShrinkSts
    <2>5. CASE RemoveSts
      <3>1. d # DCof(tgt)
        BY <2>5 DEF RemoveSts, NodesOK, Removing
      <3> QED
        BY <2>5, <3>1 DEF RemoveSts, ClusterTypeOK
    <2> QED
      BY <2>1, <2>2, <2>3, <2>4, <2>5 DEF PassStep, Begin, ApplyService, Applied, SkipDC,
         ScaleDown, NextDC, DesiredDone, CheckOperationMode, AskView, KeepSts, CheckKeyspaces,
         AlterSystemKeyspace, SystemKeyspacesDone, DCsDone, RemoveReaper, RemoveSvc, kubeVars
  <1> QED
    BY <1>2, <1>5, <1>6 DEF HasNode

\* How a pass gets to the removal of DCs.
LEMMA RemovalFrame ==
  ASSUME PassOK, PassStep, pc' # "idle"
  PROVE  /\ Removing' => /\ UNCHANGED <<cc, stsList, sysDCs>>
                         /\ Removing \/ SystemKeyspacesDone
         /\ pc' = "alter" => /\ UNCHANGED <<cc, stsList>>
                             /\ pc = "alter" \/ ksDCs \cap RemovedSts = {}
         /\ pc' \in {"rmReaper", "rmSvc", "rmSts"} =>
               (tgt' = tgt /\ pc \in {"rmReaper", "rmSvc"}) \/ \E d \in DCs : NextDC(d)
  <1> USE DEF Removing, InRemoval, Return, ApiFails
  <1>1. CASE Begin \/ ApplySts \/ Applied \/ \E d \in DCs : ApplyService(d)
    BY <1>1 DEF Begin, ApplySts, Applied, ApplyService
  <1>2. CASE \E d \in DCs : SkipDC(d) \/ ScaleUp(d)
    BY <1>2 DEF SkipDC, ScaleUp, InDesired
  <1>3. ASSUME NEW d \in DCs, ScaleDown(d) PROVE ~Removing' /\ pc' = "opmode"
    <2>1. stsList[d] \in 1..MaxReplicas /\ cc[d] > 0
      BY <1>3, ScalingAssumption
      DEF ScaleDown, InDesired, IsFirst, ListOK, PassOK, TypeOK, PassTypeOK, Specs, NoSts
    <2> QED
      BY <1>3, <2>1, LastPodParts DEF ScaleDown
  <1>4. CASE DesiredDone \/ KeepSts \/ DCsDone
    BY <1>4 DEF DesiredDone, KeepSts, DCsDone
  <1>5. CASE CheckOperationMode \/ ShrinkSts
    <2>1. cc[DCof(tgt)] = 0 \/ cc[DCof(tgt)] > 0
      <3>1. DCof(tgt) \in DCs
        BY <1>5, PodParts DEF CheckOperationMode, ShrinkSts, PassOK, TargetOK
      <3>2. cc[DCof(tgt)] \in Nat
        BY <3>1, SizesType
      <3> QED
        BY <3>2
    <2> QED
      BY <1>5, <2>1 DEF CheckOperationMode, ShrinkSts, Handled, passVars
  <1>6. CASE \E q \in Pods : AskView(q)
    BY <1>6 DEF AskView
  <1>7. CASE CheckKeyspaces \/ SystemKeyspacesDone
    BY <1>7 DEF CheckKeyspaces, SystemKeyspacesDone, passVars
  <1>8. CASE \E k \in SysKeyspaces : AlterSystemKeyspace(k)
    BY <1>8 DEF AlterSystemKeyspace, opVars, passVars
  <1>9. CASE \E d \in DCs : NextDC(d)
    BY <1>9 DEF NextDC
  <1>10. CASE RemoveReaper \/ RemoveSvc \/ RemoveSts
    BY <1>10 DEF RemoveReaper, RemoveSvc, RemoveSts, passVars
  <1> QED
    BY <1>1, <1>2, <1>3, <1>4, <1>5, <1>6, <1>7, <1>8, <1>9, <1>10 DEF PassStep

LEMMA PassNodesOK ==
  ASSUME PassOK, NodesOK, PassStep, ~Begin
  PROVE  NodesOK'
  <1>1. /\ pc # "idle" /\ UNCHANGED userVars
        /\ pc' = "idle" \/ UNCHANGED cc
        /\ sysDCs' # sysDCs => \A k \in SysKeyspaces : sysDCs'[k] \in {sysDCs[k], DesiredDCs(cc)}
    BY PassFrame
  <1>2. UNCHANGED <<spec, ksDCs, late>>
    BY <1>1 DEF userVars
  <1> DEFINE Relied == DesiredDCs(cc) \cup (ksDCs \ late) \cup UNION {sysDCs[k] : k \in SysKeyspaces}
  <1>3. Relied \subseteq DCs
    BY DEF DesiredDCs, PassOK, TypeOK, ClusterTypeOK
  <1>4. Removing => Relied \cap RemovedSts = {}
    BY DEF NodesOK, RemovedSts
  <1>5. \A d \in Relied : HasNode(d)
    BY <1>1 DEF NodesOK
  <1>6. \A d \in Relied : HasNode(d)'
    BY <1>3, <1>4, <1>5, PassKeepsNode
  <1>7. DesiredDCs(spec) \subseteq DesiredDCs(cc)
    BY <1>1 DEF NodesOK
  <1>8. \A d \in DesiredDCs(spec') \cup (ksDCs' \ late') : HasNode(d)'
    BY <1>2, <1>6, <1>7
  <1>9. \A k \in SysKeyspaces : \A d \in sysDCs'[k] : HasNode(d)'
    BY <1>1, <1>6
  <1>10. pc' # "idle" => /\ \A d \in DesiredDCs(cc') : HasNode(d)'
                         /\ DesiredDCs(spec') \subseteq DesiredDCs(cc')
    BY <1>1, <1>2, <1>6, <1>7
  <1>11. ASSUME pc' # "idle"
         PROVE  /\ pc' = "alter" \/ Removing' => (ksDCs' \ late') \cap RemovedSts' = {}
                /\ Removing' => \A k \in SysKeyspaces : sysDCs'[k] = DesiredDCs(cc')
    <2>1. /\ Removing' => /\ UNCHANGED <<cc, stsList, sysDCs>>
                          /\ Removing \/ SystemKeyspacesDone
          /\ pc' = "alter" => /\ UNCHANGED <<cc, stsList>>
                              /\ pc = "alter" \/ ksDCs \cap RemovedSts = {}
      BY <1>11, RemovalFrame
    <2>2. ASSUME UNCHANGED <<cc, stsList>> PROVE RemovedSts' = RemovedSts
      BY <2>2 DEF RemovedSts, DesiredDCs
    <2>3. SystemKeyspacesDone => pc = "alter" /\ \A k \in SysKeyspaces : sysDCs[k] = DesiredDCs(cc)
      BY DEF SystemKeyspacesDone
    <2>4. Removing \/ pc = "alter" => (ksDCs \ late) \cap RemovedSts = {}
      BY DEF NodesOK
    <2>5. Removing => \A k \in SysKeyspaces : sysDCs[k] = DesiredDCs(cc)
      BY DEF NodesOK
    <2> HIDE DEF Relied
    <2>6. ASSUME Removing'
          PROVE  /\ (ksDCs' \ late') \cap RemovedSts' = {}
                 /\ \A k \in SysKeyspaces : sysDCs'[k] = DesiredDCs(cc')
      <3>1. UNCHANGED <<cc, stsList, sysDCs>> /\ RemovedSts' = RemovedSts
        BY <2>1, <2>2, <2>6
      <3>2. /\ (ksDCs \ late) \cap RemovedSts = {}
            /\ \A k \in SysKeyspaces : sysDCs[k] = DesiredDCs(cc)
        BY <2>1, <2>3, <2>4, <2>5, <2>6
      <3> QED
        BY <1>2, <3>1, <3>2
    <2>7. ASSUME pc' = "alter" PROVE (ksDCs' \ late') \cap RemovedSts' = {}
      BY <1>2, <2>1, <2>2, <2>4, <2>7
    <2> QED
      BY <2>6, <2>7
  <1>12. ASSUME pc' \in {"rmReaper", "rmSvc", "rmSts"} PROVE DCof(tgt') \in RemovedSts'
    <2>1. /\ UNCHANGED <<cc, stsList>>
          /\ (tgt' = tgt /\ pc \in {"rmReaper", "rmSvc"}) \/ \E d \in DCs : NextDC(d)
      BY <1>12, RemovalFrame DEF Removing
    <2>2. RemovedSts' = RemovedSts
      BY <2>1 DEF RemovedSts, DesiredDCs
    <2>3. ASSUME NEW d \in DCs, NextDC(d) PROVE DCof(tgt') \in RemovedSts
      <3>1. pc = "dcs" /\ d \in todo /\ tgt' = <<d, 0>>
        BY <1>12, <2>3 DEF NextDC, IsFirst
      <3> QED
        BY <3>1, FirstPod DEF PassOK, ListOK, InRemoval, RemovedSts, DesiredDCs
    <2> QED
      BY <2>1, <2>2, <2>3 DEF NodesOK
  <1>13. pc' = "idle" => ~Removing' /\ pc' # "alter"
    BY DEF Removing, InRemoval
  <1> HIDE DEF Relied
  <1> QED
    BY <1>8, <1>9, <1>10, <1>11, <1>12, <1>13 DEF NodesOK

LEMMA OutsideNodesOK ==
  ASSUME NoneAdded, PassOK, NodesOK, [Next]_vars, ~PassStep, ~OperatorRestart
  PROVE  NodesOK'
  <1>1. PassStays
    BY OutsidePass
  <1>2. \A d \in DCs : HasNode(d) => HasNode(d)'
    BY OutsideKeepsNode
  <1>3. /\ UNCHANGED sysDCs
        /\ \/ UNCHANGED userVars
           \/ \E new \in Specs : EditSpec(new)
           \/ \E d \in DCs : AlterKeyspace(d)
    BY DEF Next, JobStep, PodStep, NodeCrash, EditSpec, AlterKeyspace, DecommissionStart,
       DecommissionFail, DecommissionEnd, NodeStart, NodeShutdown, CreatePod, DeletePod, vars
  <1>4. DesiredDCs(spec') \subseteq DesiredDCs(spec)
    <2>1. ASSUME NEW new \in Specs, EditSpec(new) PROVE \A d \in DCs : spec[d] = 0 => spec'[d] = 0
      BY <2>1 DEF EditSpec, NoneAdded
    <2>2. \A d \in DCs : spec[d] \in Nat /\ spec'[d] \in Nat
      BY SizesType, NextPassOK DEF PassOK, TypeOK, ClusterTypeOK, Specs
    <2> QED
      BY <1>3, <2>1, <2>2 DEF AlterKeyspace, userVars, DesiredDCs
  <1>5. \A d \in ksDCs' \ late' : d \in ksDCs \ late \/ d \in DesiredDCs(spec)
    <2>1. ASSUME NEW e \in DCs, AlterKeyspace(e), NEW d \in ksDCs' \ late'
          PROVE  d \in ksDCs \ late \/ d \in DesiredDCs(spec)
      <3>1. CASE e \in ksDCs
        BY <2>1, <3>1 DEF AlterKeyspace
      <3>2. CASE e \notin ksDCs /\ d = e
        BY <2>1, <3>2, SizesType DEF AlterKeyspace, DesiredDCs
      <3>3. CASE e \notin ksDCs /\ d # e
        BY <2>1, <3>3 DEF AlterKeyspace
      <3> QED
        BY <3>1, <3>2, <3>3
    <2> QED
      BY <1>3, <2>1 DEF EditSpec, userVars
  <1>6. /\ DesiredDCs(spec) \cup (ksDCs \ late) \cup DesiredDCs(cc) \subseteq DCs
        /\ \A k \in SysKeyspaces : sysDCs[k] \subseteq DCs
    BY DEF DesiredDCs, PassOK, TypeOK, ClusterTypeOK
  <1>7. /\ pc' = pc /\ cc' = cc /\ stsList' = stsList /\ tgt' = tgt
        /\ RemovedSts' = RemovedSts /\ (Removing' <=> Removing) /\ DesiredDCs(cc)' = DesiredDCs(cc)
    BY <1>1 DEF PassStays, RemovedSts, DesiredDCs, Removing, InRemoval
  <1>8. pc # "idle" => DesiredDCs(spec) \cap RemovedSts = {}
    BY DEF NodesOK, RemovedSts
  <1>9. Removing => pc # "idle"
    BY DEF Removing, InRemoval
  <1>10. \A d \in DesiredDCs(spec') \cup (ksDCs' \ late') : HasNode(d)'
    BY <1>2, <1>4, <1>5, <1>6 DEF NodesOK
  <1>11. \A k \in SysKeyspaces : \A d \in sysDCs'[k] : HasNode(d)'
    BY <1>2, <1>3, <1>6 DEF NodesOK
  <1>12. pc' # "idle" => /\ \A d \in DesiredDCs(cc') : HasNode(d)'
                         /\ DesiredDCs(spec') \subseteq DesiredDCs(cc')
    BY <1>2, <1>4, <1>6, <1>7 DEF NodesOK
  <1>13. pc' = "alter" \/ Removing' => (ksDCs' \ late') \cap RemovedSts' = {}
    BY <1>5, <1>7, <1>8, <1>9 DEF NodesOK
  <1>14. /\ Removing' => \A k \in SysKeyspaces : sysDCs'[k] = DesiredDCs(cc')
         /\ pc' \in {"rmReaper", "rmSvc", "rmSts"} => DCof(tgt') \in RemovedSts'
    BY <1>3, <1>7 DEF NodesOK
  <1> QED
    BY <1>10, <1>11, <1>12, <1>13, <1>14 DEF NodesOK

LEMMA NextNodesOK ==
  ASSUME NoneAdded, PassOK, NodesOK, [Next]_vars
  PROVE  NodesOK'
  <1>1. CASE Begin
    <2>1. /\ pc' = "apply" /\ cc' = spec
          /\ UNCHANGED <<spec, ksDCs, late, sts, mode, calls, sysDCs>>
      BY <1>1 DEF Begin, userVars, kubeVars, nodeVars, jobVars
    <2> QED
      BY <2>1 DEF NodesOK, HasNode, DesiredDCs, Removing, InRemoval
  <1>2. CASE OperatorRestart
    <2>1. /\ pc' = "idle" /\ UNCHANGED <<spec, ksDCs, late, sysDCs>>
      BY <1>2 DEF OperatorRestart, userVars
    <2>2. \A d \in DCs : HasNode(d) => HasNode(d)'
      BY <1>2, FirstPod DEF OperatorRestart, HasNode, kubeVars, nodeVars
    <2>3. /\ DesiredDCs(spec) \cup (ksDCs \ late) \subseteq DCs
          /\ \A k \in SysKeyspaces : sysDCs[k] \subseteq DCs
      BY DEF DesiredDCs, PassOK, TypeOK, ClusterTypeOK
    <2> QED
      BY <2>1, <2>2, <2>3 DEF NodesOK, Removing, InRemoval
  <1>3. CASE PassStep /\ ~Begin
    BY <1>3, PassNodesOK
  <1>4. CASE ~PassStep /\ ~OperatorRestart
    BY <1>4, OutsideNodesOK
  <1> QED
    BY <1>1, <1>2, <1>3, <1>4

LEMMA InitNodesOK == ASSUME Init PROVE NodesOK
  <1>0. PICK s \in Starts : InitCluster(s.spec)
    BY DEF Init
  <1>1. \A d \in DesiredDCs(s.spec) : HasNode(d)
    <2> SUFFICES ASSUME NEW d \in DCs, s.spec[d] > 0 PROVE HasNode(d)
      BY DEF DesiredDCs
    <2>1. <<d, 0>> \in Pods /\ DCof(<<d, 0>>) = d /\ Ord(<<d, 0>>) = 0 /\ s.spec[d] \in Nat
      BY FirstPod, ScalingAssumption DEF Specs
    <2> QED
      BY <1>0, <2>1 DEF Init, InitCluster, HasNode
  <1> QED
    BY <1>0, <1>1 DEF Init, InitCluster, NodesOK, Removing, InRemoval

\* While the user brings no DC back, no keyspace replicates to a DC without a node
\* in the ring: whatever ALTER, JMX or API request fails, node crashes or operator
\* restarts, with a spec, lists and keyspaces a pass has read before they changed.
THEOREM KeyspacesKeepNodes ==
  ASSUME NoneAdded
  PROVE  Spec => []KeyspacesHaveNodes
  <1>1. Init => PassOK /\ NodesOK
    BY InitPassOK, InitNodesOK
  <1>2. PassOK /\ NodesOK /\ [Next]_vars => PassOK' /\ NodesOK'
    BY NextPassOK, NextNodesOK
  <1>3. PassOK /\ NodesOK => KeyspacesHaveNodes
    <2> SUFFICES ASSUME PassOK, NodesOK,
                        NEW d \in (ksDCs \ late) \cup UNION {sysDCs[k] : k \in SysKeyspaces}
                 PROVE  \E p \in Pods : DCof(p) = d /\ InRing(p)
      BY DEF KeyspacesHaveNodes
    <2>1. d \in DCs /\ HasNode(d)
      BY DEF NodesOK, PassOK, TypeOK, ClusterTypeOK
    <2>2. <<d, 0>> \in Pods /\ DCof(<<d, 0>>) = d /\ InRing(<<d, 0>>)
      BY <2>1, FirstPod DEF HasNode, InRing
    <2> QED
      BY <2>2
  <1> QED
    BY <1>1, <1>2, <1>3, PTL DEF Spec

-----------------------------------------------------------------------------
(* A removed DC has left nothing behind.                                   *)

\* A DC that was removed has no part left; those the pass asks for have got their
\* parts back before it creates reapers; and a DC that is being removed loses its
\* reaper, its service and its statefulset in order, unless an error was ignored.
NothingLeftOK ==
    /\ NothingLeftBehind
    /\ ~NotListed => DesiredDCs(cc) \cap removed = {}
    /\ pc \in {"rmReaper", "rmSvc", "rmSts"} => cc[DCof(tgt)] = 0
    /\ pc \in {"rmSvc", "rmSts"} /\ wrong = 0 => DCof(tgt) \notin reaper
    /\ pc = "rmSts" /\ wrong = 0 => DCof(tgt) \notin svc

\* Steps that touch nothing the invariant speaks of but where the pass is.
LEMMA SameLeftOK ==
  ASSUME NothingLeftOK, UNCHANGED <<svc, reaper, removed>>,
         \/ pc' \in {"idle", "apply", "applySts"}
         \/ /\ ~NotListed /\ cc' = cc
            /\ pc' \in {"rmReaper", "rmSvc", "rmSts"} => UNCHANGED <<pc, tgt, wrong>>
  PROVE  NothingLeftOK'
  BY DEF NothingLeftOK, NothingLeftBehind, NotListed, DesiredDCs

LEMMA NextNothingLeftOK ==
  ASSUME PassOK, NothingLeftOK, [Next]_vars
  PROVE  NothingLeftOK'
  <1> USE DEF Return, ApiFails
  <1>1. wrong \in Nat
    BY DEF PassOK, TypeOK, PassTypeOK
  <1>2. CASE ~PassStep
    <2>1. UNCHANGED <<svc, reaper, removed>>
      BY <1>2 DEF Next, OperatorRestart, JobStep, PodStep, NodeCrash, EditSpec, AlterKeyspace,
         DecommissionStart, DecommissionFail, DecommissionEnd, NodeStart, NodeShutdown, CreatePod,
         DeletePod, vars, kubeVars
    <2>2. CASE OperatorRestart
      BY <2>1, <2>2, SameLeftOK DEF OperatorRestart
    <2>3. CASE ~OperatorRestart
      BY <1>2, <2>1, <2>3, OutsidePass, SameLeftOK DEF PassStays, NotListed
    <2> QED
      BY <2>2, <2>3
  <1>3. CASE Begin \/ ApplySts
    BY <1>3, SameLeftOK DEF Begin, ApplySts, kubeVars
  <1>4. ASSUME NEW d \in DCs, ApplyService(d) PROVE NothingLeftOK'
    <2>1. CASE UNCHANGED <<svc, removed>>
      BY <1>4, <2>1, SameLeftOK DEF ApplyService
    <2>2. CASE svc' = svc \cup {d} /\ removed' = removed \ {d} /\ pc' = "applySts"
      BY <1>4, <2>2 DEF ApplyService, NothingLeftOK, NothingLeftBehind, NotListed
    <2> QED
      BY <1>4, <2>1, <2>2 DEF ApplyService
  <1>5. CASE Applied
    <2>1. CASE pc' = "idle"
      BY <1>5, <2>1, SameLeftOK DEF Applied, kubeVars
    <2>2. CASE pc' # "idle"
      <3>1. pc' = "desired" /\ cc' = cc /\ UNCHANGED <<svc, reaper, removed>> /\ Missing = {}
        BY <1>5, <2>2 DEF Applied, kubeVars
      <3>2. DesiredDCs(cc) \subseteq svc
        BY <3>1 DEF Missing
      <3>3. DesiredDCs(cc') \cap removed' = {}
        BY <3>1, <3>2 DEF NothingLeftOK, NothingLeftBehind
      <3> QED
        BY <3>1, <3>3 DEF NothingLeftOK, NothingLeftBehind
    <2> QED
      BY <2>1, <2>2
  <1>6. ASSUME NEW d \in DCs, SkipDC(d) \/ ScaleUp(d) \/ ScaleDown(d) PROVE NothingLeftOK'
    BY <1>6, SameLeftOK DEF SkipDC, ScaleUp, ScaleDown, InDesired, kubeVars, NotListed
  <1>7. ASSUME NEW d \in DCs, NextDC(d) PROVE NothingLeftOK'
    <2>1. cc[d] = 0 /\ pc = "dcs" /\ UNCHANGED <<svc, reaper, removed, cc>>
      BY <1>7 DEF NextDC, IsFirst, PassOK, ListOK, InRemoval, kubeVars
    <2>2. \/ pc' = "rmReaper" /\ DCof(tgt') = d
          \/ pc' = "opmode"
      BY <1>7 DEF NextDC, DCof
    <2> QED
      BY <2>1, <2>2 DEF NothingLeftOK, NothingLeftBehind, NotListed, DesiredDCs
  <1>8. CASE DesiredDone
    <2>1. CASE pc' = "idle"
      <3>1. DesiredDCs(cc) \cap removed = {}
        BY <1>8 DEF DesiredDone, NothingLeftOK, NotListed
      <3>2. reaper' \subseteq reaper \cup DesiredDCs(cc) /\ UNCHANGED <<svc, removed>>
        BY <1>8 DEF DesiredDone
      <3> QED
        BY <2>1, <3>1, <3>2 DEF NothingLeftOK, NothingLeftBehind, NotListed
    <2>2. CASE pc' # "idle"
      BY <1>8, <2>2, SameLeftOK DEF DesiredDone, passVars, NotListed
    <2> QED
      BY <2>1, <2>2
  <1>9. CASE CheckOperationMode \/ ShrinkSts
    BY <1>9, SameLeftOK
    DEF CheckOperationMode, ShrinkSts, Handled, kubeVars, passVars, NotListed
  <1>10. ASSUME NEW q \in Pods, AskView(q) PROVE NothingLeftOK'
    BY <1>10, SameLeftOK DEF AskView, kubeVars, NotListed
  <1>11. CASE \/ KeepSts \/ CheckKeyspaces \/ SystemKeyspacesDone \/ DCsDone
              \/ \E k \in SysKeyspaces : AlterSystemKeyspace(k)
    BY <1>11, SameLeftOK
    DEF KeepSts, CheckKeyspaces, SystemKeyspacesDone, DCsDone, AlterSystemKeyspace, kubeVars,
        opVars, passVars, NotListed
  <1>12. CASE RemoveReaper
    <2>1. CASE pc' = "idle"
      BY <1>12, <2>1, SameLeftOK DEF RemoveReaper
    <2>2. CASE pc' # "idle"
      <3>1. /\ reaper' \subseteq reaper /\ pc = "rmReaper" /\ pc' = "rmSvc"
            /\ DCof(tgt) \notin reaper' \/ wrong' = wrong + 1
            /\ UNCHANGED <<svc, removed, cc, tgt>>
        BY <1>12, <2>2 DEF RemoveReaper, passVars
      <3>2. wrong' = wrong + 1 => wrong' # 0
        BY <1>1
      <3> QED
        BY <3>1, <3>2 DEF NothingLeftOK, NothingLeftBehind, NotListed, DesiredDCs
    <2> QED
      BY <2>1, <2>2
  <1>13. CASE RemoveSvc
    <2>1. \/ pc' = "idle" /\ svc' \subseteq svc /\ UNCHANGED <<reaper, removed>>
          \/ /\ pc = "rmSvc" /\ pc' = "rmSts"
             /\ (DCof(tgt) \notin svc /\ wrong' = wrong) \/ wrong' = wrong + 1
             /\ UNCHANGED <<svc, reaper, removed, cc, tgt>>
      BY <1>13 DEF RemoveSvc
    <2>2. wrong' = wrong + 1 => wrong' # 0
      BY <1>1
    <2> QED
      BY <2>1, <2>2 DEF NothingLeftOK, NothingLeftBehind, NotListed, DesiredDCs
  <1>14. CASE RemoveSts
    <2>1. /\ removed' = removed \/ (wrong = 0 /\ removed' = removed \cup {DCof(tgt)})
          /\ pc' = "idle" /\ pc = "rmSts" /\ UNCHANGED <<svc, reaper>>
      BY <1>14 DEF RemoveSts
    <2> QED
      BY <2>1 DEF NothingLeftOK, NothingLeftBehind, NotListed
  <1> QED
    BY <1>2, <1>3, <1>4, <1>5, <1>6, <1>7, <1>8, <1>9, <1>10, <1>11, <1>12, <1>13, <1>14
    DEF PassStep

\* A DC that the operator removed without passing over an error has neither its
\* service nor its reaper, and none comes back before the user brings the DC back:
\* although a pass may have read the spec before the DC left it, although any request
\* may fail, and although the operator may restart between any two requests, those of
\* removeDC and those that create a DC's service and its statefulset.
THEOREM NothingLeft == Spec => []NothingLeftBehind
  <1>1. Init => PassOK /\ NothingLeftOK
    BY InitPassOK DEF Init, InitCluster, NothingLeftOK, NothingLeftBehind, NotListed
  <1>2. PassOK /\ NothingLeftOK /\ [Next]_vars => PassOK' /\ NothingLeftOK'
    BY NextPassOK, NextNothingLeftOK
  <1>3. NothingLeftOK => NothingLeftBehind
    BY DEF NothingLeftOK
  <1> QED
    BY <1>1, <1>2, <1>3, PTL DEF Spec
=============================================================================

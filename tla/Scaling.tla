------------------------------ MODULE Scaling ------------------------------
(***************************************************************************)
(* Scaling of the Cassandra statefulsets by the operator.                  *)
(*                                                                         *)
(* The module follows controllers/cassandra_scaling.go: one reconcile pass *)
(* compares the replicas of each DC in the CassandraCluster with the       *)
(* replicas of its statefulset, grows statefulsets at once, and shrinks    *)
(* them one pod at a time after the pod's node has been decommissioned.    *)
(* DCs that left the spec are decommissioned and then removed.  Around the *)
(* operator the module has the job goroutines of controllers/jobs, the     *)
(* workqueue that wakes the operator up and, as external parts, the        *)
(* statefulset controller, the Cassandra nodes and the user.               *)
(***************************************************************************)
EXTENDS Integers, FiniteSets

CONSTANTS
    DCs,          \* data centres; numbers, ordered as sort.Strings orders names
    MaxReplicas,  \* largest number of replicas a DC may have
    Starts,       \* specs a cluster was built from, each with a budget: how often
                  \* each fault, and each edit, may happen from then on
    Edits,        \* pairs <<old, new>> of specs: what the user may change
    MaxCalls,     \* bound on decommission goroutines of one pod
    SysKeyspaces, \* system keyspaces the operator manages, but system_auth
    Persistence   \* TRUE if nodes keep their data on a claim that outlives the pod

FaultKinds == {"edit", "alter", "crash", "jmx", "miss", "cql", "api", "restart"}

\* dc.Replicas of each DC; 0 stands for a DC that is not in the spec.
Specs == [DCs -> 0..MaxReplicas]
NoSts == -1

ASSUME ScalingAssumption ==
    /\ DCs \subseteq Nat
    /\ IsFiniteSet(DCs)
    /\ MaxReplicas \in Nat \ {0}
    /\ Starts \subseteq [spec : Specs, budget : [FaultKinds -> Nat]]
    /\ Edits \subseteq Specs \X Specs
    /\ MaxCalls \in Nat \ {0}
    /\ Persistence \in BOOLEAN

Pods == DCs \X (0..MaxReplicas - 1)
NoPod == <<-1, -1>>
DCof(p) == p[1]
Ord(p) == p[2]

Modes == {"NEW", "NORMAL", "LEAVING", "DECOMMISSIONED"}

VARIABLES
    spec,       \* spec.dcs of the CassandraCluster
    sts,        \* replicas of each DC's statefulset, NoSts if it does not exist
    svc,        \* DCs that have their service
    reaper,     \* DCs that have their reaper deployment
    pods,       \* cassandra pods that exist
    mode,       \* operation mode of the node on each pod's volume
    up,         \* the node's process is running (and answers JMX requests)
    ksDCs,      \* DCs the user's keyspaces replicate to
    late,       \* history: those the user added when they had left the spec
    removed,    \* history: DCs the operator removed, ignoring no error, and has not
                \* created again
    sysDCs,     \* DCs each system keyspace (but system_auth) replicates to
    jobsList,   \* JobManager.jobsList
    calls,      \* decommission goroutines that have not reached the node yet
    waiting,    \* pods whose decommission call is answered when the node has left
    dirty,      \* a reconcile request is queued
    pc,         \* where the reconcile pass is
    cc,         \* the spec this pass works with
    podList,    \* the pods this pass works with
    stsList,    \* the statefulsets this pass works with
    todo,       \* DCs this pass still has to look at
    tgt,        \* the pod this pass is decommissioning
    asked,      \* pods whose cluster view this pass has asked for
    notLive,    \* notLiveView of podDecommissioned
    wrong,      \* history: wrong answers, and errors the code ignores, about tgt
    joined,     \* history: the pods of podList whose node has gossiped since
    budget      \* faults and edits that are left

userVars == <<spec, ksDCs, late>>
kubeVars == <<sts, svc, reaper, pods, removed>>
nodeVars == <<mode, up>>
jobVars == <<jobsList, calls, waiting>>
passVars == <<cc, podList, stsList, todo, tgt, asked, notLive, wrong, joined>>
opVars == <<pc, passVars>>
vars == <<userVars, kubeVars, nodeVars, sysDCs, jobVars, dirty, opVars, budget>>

-----------------------------------------------------------------------------
(* Faults and what the provers and the runs count them with.               *)

Spend(k) == /\ budget[k] > 0
            /\ budget' = [budget EXCEPT ![k] = @ - 1]

\* The node owns a part of the token ring.
InRing(p) == mode[p] \in {"NORMAL", "LEAVING"}
\* The node takes part in gossip, so its peers see it as live.
Gossips(p) == up[p] /\ InRing(p)

DesiredDCs(s) == {d \in DCs : s[d] > 0}

\* dcsMap and desiredDCsSTS: statefulsets of DCs that are in the spec.
DesiredSts(list) == {d \in DesiredDCs(cc) : list[d] # NoSts}
\* decommissionDCsSTS: statefulsets of DCs that left the spec.
RemovedSts == {d \in DCs \ DesiredDCs(cc) : stsList[d] # NoSts}
\* sort.Strings, then the next name of the loop.
IsFirst(d, S) == d \in S /\ \A e \in S : d <= e

InitCluster(s) ==
    /\ spec = s
    /\ sts = [d \in DCs |-> IF s[d] > 0 THEN s[d] ELSE NoSts]
    /\ svc = DesiredDCs(s)
    /\ reaper = DesiredDCs(s)
    /\ pods = {p \in Pods : Ord(p) < s[DCof(p)]}
    /\ up = [p \in Pods |-> p \in pods]
    /\ mode = [p \in Pods |-> IF p \in pods THEN "NORMAL" ELSE "NEW"]
    /\ ksDCs \in SUBSET DesiredDCs(s)
    /\ late = {} /\ removed = {}
    /\ sysDCs = [k \in SysKeyspaces |-> DesiredDCs(s)]

Init ==
    /\ \E s \in Starts : InitCluster(s.spec) /\ budget = s.budget
    /\ jobsList = [p \in Pods |-> "none"]
    /\ calls = [p \in Pods |-> 0]
    /\ waiting = {}
    /\ dirty = TRUE
    /\ pc = "idle"
    /\ cc = [d \in DCs |-> 0]
    /\ podList = {}
    /\ stsList = [d \in DCs |-> NoSts]
    /\ todo = {}
    /\ tgt = NoPod
    /\ asked = {}
    /\ notLive = 0 /\ wrong = 0
    /\ joined = {}

-----------------------------------------------------------------------------
(* JobManager.                                                             *)

\* Run refuses a name that is in jobsList; it never puts a name there.
JobExists(p) == jobsList[p] # "none"
JobIsRunning(p) == jobsList[p] = "running"
RunJob(p) == /\ calls' = [calls EXCEPT ![p] = @ + 1]
             /\ UNCHANGED <<jobsList, waiting>>
\* RemoveJob forgets a job (its caller has met the error for a running one).
RemoveJob(p) == /\ jobsList' = [jobsList EXCEPT ![p] = "none"]
                /\ UNCHANGED <<calls, waiting>>

\* The goroutine's request reaches a node that can be decommissioned.
DecommissionStart(p) ==
    /\ calls[p] > 0
    /\ up[p] /\ mode[p] = "NORMAL"
    /\ mode' = [mode EXCEPT ![p] = "LEAVING"]
    /\ calls' = [calls EXCEPT ![p] = @ - 1]
    /\ waiting' = waiting \cup {p}
    /\ UNCHANGED <<userVars, kubeVars, up, sysDCs, jobsList, dirty, opVars, budget>>

\* The request fails: no node answers, the node is not NORMAL, or (a JMX fault)
\* the request is lost.  The job ends and its event queues a reconcile request.
DecommissionFail(p) ==
    /\ calls[p] > 0
    /\ \/ /\ ~up[p] \/ mode[p] # "NORMAL"
          /\ UNCHANGED budget
       \/ /\ up[p] /\ mode[p] = "NORMAL"
          /\ Spend("jmx")
    /\ calls' = [calls EXCEPT ![p] = @ - 1]
    /\ dirty' = TRUE
    /\ UNCHANGED <<userVars, kubeVars, nodeVars, sysDCs, jobsList, waiting, opVars>>

\* The node has streamed its data away.  The job that waits for it (unless the
\* operator restarted) and the readiness of the pod both wake the operator.
DecommissionEnd(p) ==
    /\ up[p] /\ mode[p] = "LEAVING"
    /\ mode' = [mode EXCEPT ![p] = "DECOMMISSIONED"]
    /\ waiting' = waiting \ {p}
    /\ dirty' = TRUE
    /\ UNCHANGED <<userVars, kubeVars, up, sysDCs, jobsList, calls, opVars, budget>>

-----------------------------------------------------------------------------
(* Nodes and the statefulset controller (external).                        *)

\* A new node joins, a crashed one comes back; a decommissioned one refuses to.
NodeStart(p) ==
    /\ p \in pods /\ ~up[p] /\ mode[p] \in {"NEW", "NORMAL"}
    /\ up' = [up EXCEPT ![p] = TRUE]
    /\ mode' = [mode EXCEPT ![p] = "NORMAL"]
    /\ dirty' = TRUE
    /\ UNCHANGED <<userVars, kubeVars, sysDCs, jobVars, opVars, budget>>

\* The liveness probe (a TCP connect to the cql port) fails once the node has
\* left, and the restarted process exits.
NodeShutdown(p) ==
    /\ up[p] /\ mode[p] = "DECOMMISSIONED"
    /\ up' = [up EXCEPT ![p] = FALSE]
    /\ UNCHANGED <<userVars, kubeVars, mode, sysDCs, jobVars, dirty, opVars, budget>>

\* A crash interrupts a decommission: after the restart the node is NORMAL.
NodeCrash(p) ==
    /\ Gossips(p)
    /\ Spend("crash")
    /\ up' = [up EXCEPT ![p] = FALSE]
    /\ mode' = [mode EXCEPT ![p] = "NORMAL"]
    /\ waiting' = waiting \ {p}
    /\ dirty' = TRUE
    /\ joined' = joined \ {p}
    /\ UNCHANGED <<userVars, kubeVars, sysDCs, jobsList, calls, pc, cc, podList, stsList,
                   todo, tgt, asked, notLive, wrong>>

CreatePod(p) ==
    /\ Ord(p) < sts[DCof(p)] /\ p \notin pods
    /\ pods' = pods \cup {p}
    /\ dirty' = TRUE
    /\ UNCHANGED <<userVars, sts, svc, reaper, removed, nodeVars, sysDCs, jobVars, opVars,
                   budget>>

\* The volume of a removed pod is kept when the claim is persistent.
DeletePod(p) ==
    /\ p \in pods /\ Ord(p) >= sts[DCof(p)]
    /\ pods' = pods \ {p}
    /\ up' = [up EXCEPT ![p] = FALSE]
    /\ mode' = [mode EXCEPT ![p] = IF Persistence THEN @ ELSE "NEW"]
    /\ waiting' = waiting \ {p}
    /\ dirty' = TRUE
    /\ UNCHANGED <<userVars, sts, svc, reaper, removed, sysDCs, jobsList, calls, opVars,
                   budget>>

-----------------------------------------------------------------------------
(* The user.                                                               *)

EditSpec(new) ==
    /\ <<spec, new>> \in Edits
    /\ Spend("edit")
    /\ spec' = new
    /\ dirty' = TRUE
    /\ UNCHANGED <<ksDCs, late, kubeVars, nodeVars, sysDCs, jobVars, opVars>>

\* The user takes a DC out of the replication settings of the keyspaces, or adds
\* one, which may have left the spec before.
AlterKeyspace(d) ==
    /\ Spend("alter")
    /\ IF d \in ksDCs
       THEN ksDCs' = ksDCs \ {d} /\ late' = late \ {d}
       ELSE /\ ksDCs' = ksDCs \cup {d}
            /\ late' = IF spec[d] = 0 THEN late \cup {d} ELSE late
    /\ UNCHANGED <<spec, kubeVars, nodeVars, sysDCs, jobVars, dirty, opVars>>

-----------------------------------------------------------------------------
(* The operator's reconcile pass.                                          *)

ForgetPass ==
    /\ cc' = [d \in DCs |-> 0]
    /\ podList' = {}
    /\ stsList' = [d \in DCs |-> NoSts]
    /\ todo' = {} /\ tgt' = NoPod
    /\ asked' = {} /\ notLive' = 0 /\ wrong' = 0 /\ joined' = {}

\* The pass returns; "requeue" stands for an error, Requeue or RequeueAfter.
\* "event" says that an owned object changed in this step.
Return(requeue, event) ==
    /\ pc' = "idle"
    /\ dirty' = (dirty \/ requeue \/ event)
    /\ ForgetPass

\* An API request that fails ends the pass with an error.
ApiFails == Spend("api") /\ Return(TRUE, FALSE)

\* The request is taken from the queue; the pass reads the CassandraCluster
\* and the pods.
Begin ==
    /\ pc = "idle" /\ dirty
    /\ dirty' = FALSE
    /\ pc' = "apply"
    /\ cc' = spec
    /\ podList' = pods
    /\ joined' = {p \in pods : Gossips(p)}
    /\ UNCHANGED <<userVars, kubeVars, nodeVars, sysDCs, jobVars, stsList, todo,
                   tgt, asked, notLive, wrong, budget>>

\* Mutant of Missing: a DC that has its service is taken to be complete.
MissingService == {d \in DesiredDCs(cc) : d \notin svc}

\* reconcileCassandra creates what the DCs of the spec miss, a DC at a time in the
\* order of the spec: first the service, which ...
Missing == {d \in DesiredDCs(cc) : d \notin svc \/ sts[d] = NoSts}

ApplyService(d) ==
    /\ pc = "apply" /\ d \in Missing
    /\ UNCHANGED <<userVars, sts, reaper, pods, nodeVars, sysDCs, jobVars>>
    /\ \/ /\ svc' = svc \cup {d}
          /\ removed' = removed \ {d}
          /\ dirty' = (dirty \/ d \notin svc)
          /\ tgt' = <<d, 0>> /\ pc' = "applySts"
          /\ UNCHANGED <<cc, podList, stsList, todo, asked, notLive, wrong, joined, budget>>
       \/ ApiFails /\ UNCHANGED <<svc, removed>>

\* ... the statefulset follows.  One that exists keeps its replicas.
ApplySts ==
    /\ pc = "applySts"
    /\ UNCHANGED <<userVars, svc, reaper, pods, removed, nodeVars, sysDCs, jobVars>>
    /\ \/ /\ sts' = [sts EXCEPT ![DCof(tgt)] = IF @ = NoSts THEN cc[DCof(tgt)] ELSE @]
          /\ dirty' = (dirty \/ sts' # sts)
          /\ tgt' = NoPod /\ pc' = "apply"
          /\ UNCHANGED <<cc, podList, stsList, todo, asked, notLive, wrong, joined, budget>>
       \/ ApiFails /\ UNCHANGED sts

\* All are there: the scaling begins with the list of the statefulsets.
Applied ==
    /\ pc = "apply" /\ Missing = {}
    /\ UNCHANGED <<userVars, kubeVars, nodeVars, sysDCs, jobVars>>
    /\ \/ /\ stsList' = sts
          /\ todo' = DesiredSts(sts)
          /\ pc' = "desired"
          /\ UNCHANGED <<dirty, cc, podList, tgt, asked, notLive, wrong, joined, budget>>
       \/ ApiFails

\* The loop over the statefulsets of desired DCs, in the order of their names.
InDesired(d) == pc = "desired" /\ IsFirst(d, todo)

\* Nothing to scale, or no pods to scale down with.
SkipDC(d) ==
    /\ InDesired(d)
    /\ stsList[d] = cc[d] \/ (stsList[d] > cc[d] /\ podList = {})
    /\ todo' = todo \ {d}
    /\ UNCHANGED <<userVars, kubeVars, nodeVars, sysDCs, jobVars, dirty, pc, cc,
                   podList, stsList, tgt, asked, notLive, wrong, joined, budget>>

ScaleUp(d) ==
    /\ InDesired(d)
    /\ stsList[d] < cc[d]
    /\ UNCHANGED <<userVars, svc, reaper, pods, removed, nodeVars, sysDCs, jobVars>>
    /\ \/ /\ sts' = [sts EXCEPT ![d] = cc[d]]
          /\ dirty' = TRUE
          /\ todo' = todo \ {d}
          /\ UNCHANGED <<pc, cc, podList, stsList, tgt, asked, notLive, wrong, joined, budget>>
       \/ ApiFails /\ UNCHANGED sts

\* Mutant of LastPod: the ordinals are taken to start at one.
LastPodFromOne(d) == <<d, stsList[d]>>

\* sts.Name + "-" + (replicas - 1): the pod the statefulset removes next.
LastPod(d) == <<d, stsList[d] - 1>>

ScaleDown(d) ==
    /\ InDesired(d)
    /\ stsList[d] > cc[d] /\ podList # {}
    /\ tgt' = LastPod(d)
    /\ pc' = "opmode"
    /\ UNCHANGED <<userVars, kubeVars, nodeVars, sysDCs, jobVars, dirty, cc, podList,
                   stsList, todo, asked, notLive, wrong, joined, budget>>

\* All desired statefulsets have their replicas.  Without a DC to decommission
\* the reconcile goes on and ends with RequeueAfter.  When the cluster is ready
\* it gets as far as reconcileReaper and reconcileKeyspaces, which alters the
\* system keyspaces one by one and may stop after some of them.
ClusterReady == \A p \in Pods : Ord(p) < cc[DCof(p)] => p \in pods /\ up[p]

DesiredDone ==
    /\ pc = "desired" /\ todo = {}
    /\ UNCHANGED <<userVars, sts, svc, pods, removed, nodeVars, jobVars, budget>>
    /\ \/ /\ RemovedSts = {} /\ ClusterReady
          /\ reaper' = reaper \cup DesiredDCs(cc)
          /\ \E S \in SUBSET SysKeyspaces :
               sysDCs' = [k \in SysKeyspaces |->
                            IF k \in S THEN DesiredDCs(cc) ELSE sysDCs[k]]
          /\ Return(TRUE, FALSE)
       \/ /\ RemovedSts = {} /\ ~ClusterReady
          /\ Return(TRUE, FALSE)
          /\ UNCHANGED <<reaper, sysDCs>>
       \/ /\ RemovedSts # {}
          /\ pc' = "keyspaces"
          /\ UNCHANGED <<reaper, sysDCs, dirty, passVars>>

\* handlePodDecommission returned nil: a scale down ends the pass with "scaling
\* in progress" and no requeue, a DC decommission goes on with the next DC.
Handled(event) ==
    IF cc[DCof(tgt)] > 0
    THEN Return(FALSE, event)
    ELSE /\ pc' = "dcs"
         /\ dirty' = (dirty \/ event)
         /\ todo' = todo \ {DCof(tgt)}
         /\ tgt' = NoPod /\ asked' = {} /\ notLive' = 0 /\ wrong' = 0
         /\ UNCHANGED <<cc, podList, stsList, joined>>

\* handlePodDecommission up to podDecommissioned: a job that runs is waited for,
\* a pod that is not in the list is an error, an unreachable node may have been
\* decommissioned already, a LEAVING node is waited for, and in any other
\* operation mode a decommission is started.
CheckOperationMode ==
    /\ pc = "opmode"
    /\ UNCHANGED <<userVars, kubeVars, nodeVars, sysDCs>>
    /\ IF JobExists(tgt) /\ JobIsRunning(tgt)
       THEN Handled(FALSE) /\ UNCHANGED <<jobVars, budget>>
       ELSE \/ /\ tgt \notin podList
               /\ Return(TRUE, FALSE)
               /\ UNCHANGED <<jobVars, budget>>
            \/ /\ tgt \in podList
               /\ IF up[tgt] THEN Spend("jmx") ELSE UNCHANGED budget
               /\ pc' = "views"
               /\ UNCHANGED <<jobVars, dirty, passVars>>
            \/ /\ tgt \in podList /\ up[tgt] /\ mode[tgt] = "LEAVING"
               /\ Handled(FALSE)
               /\ UNCHANGED <<jobVars, budget>>
            \/ /\ tgt \in podList /\ up[tgt] /\ mode[tgt] # "LEAVING"
               /\ UNCHANGED budget
               /\ IF JobExists(tgt)
                  THEN Return(TRUE, FALSE) /\ UNCHANGED jobVars
                  ELSE calls[tgt] < MaxCalls /\ RunJob(tgt) /\ Handled(FALSE)

-----------------------------------------------------------------------------
(* podDecommissioned.                                                      *)

\* Mutant of Quorum: the node itself is discounted twice.
QuorumMinusTwo == Cardinality({p \in podList : cc[DCof(p)] > 0}) - 2

\* The number of pods that have to agree that the node is decommissioned.
Quorum == Cardinality({p \in podList : cc[DCof(p)] > 0}) - 1

\* The pods whose cluster view is asked for.
Peers == {p \in podList : p # tgt /\ cc[DCof(p)] > 0}

\* ClusterView of q: does it list the target under LiveNodes?  A node that is
\* down may still be listed until its failure is detected, and one that left the
\* ring stopped updating its list.
MayListLive(q) == Gossips(tgt) \/ (InRing(tgt) /\ ~up[tgt]) \/ ~InRing(q)

AskView(q) ==
    /\ pc = "views" /\ q \in Peers \ asked
    /\ UNCHANGED <<userVars, kubeVars, nodeVars, sysDCs, jobVars>>
    /\ \/ /\ IF up[q] THEN Spend("jmx") ELSE UNCHANGED budget
          /\ Return(TRUE, FALSE)
       \/ /\ up[q] /\ MayListLive(q)
          /\ asked' = asked \cup {q}
          /\ UNCHANGED <<dirty, pc, cc, podList, stsList, todo, tgt, notLive, wrong,
                         joined, budget>>
       \/ /\ up[q]
          /\ IF Gossips(tgt) THEN Spend("miss") /\ wrong' = wrong + 1
                             ELSE UNCHANGED <<budget, wrong>>
          /\ asked' = asked \cup {q}
          /\ notLive' = notLive + 1
          /\ UNCHANGED <<dirty, pc, cc, podList, stsList, todo, tgt, joined>>

\* Mutant of ShrinkSts: a node that does not answer is taken to have left.
ShrinkStsUnchecked ==
    /\ pc = "views" /\ Peers \subseteq asked
    /\ UNCHANGED <<userVars, svc, reaper, pods, removed, nodeVars, sysDCs>>
    /\ sts' = [sts EXCEPT ![DCof(tgt)] = stsList[DCof(tgt)] - 1]
    /\ UNCHANGED budget
    /\ RemoveJob(tgt) /\ Handled(TRUE)

\* Enough peers do not see the node: the statefulset loses its last pod.
ShrinkSts ==
    /\ pc = "views" /\ Peers \subseteq asked /\ notLive >= Quorum
    /\ UNCHANGED <<userVars, svc, reaper, pods, removed, nodeVars, sysDCs>>
    /\ \/ /\ sts' = [sts EXCEPT ![DCof(tgt)] = stsList[DCof(tgt)] - 1]
          /\ UNCHANGED budget
          /\ IF JobIsRunning(tgt)
             THEN Return(TRUE, TRUE) /\ UNCHANGED jobVars
             ELSE RemoveJob(tgt) /\ Handled(TRUE)
       \/ ApiFails /\ UNCHANGED <<sts, jobVars>>

\* Some peer still sees the node: an error.
KeepSts ==
    /\ pc = "views" /\ Peers \subseteq asked /\ notLive < Quorum
    /\ Return(TRUE, FALSE)
    /\ UNCHANGED <<userVars, kubeVars, nodeVars, sysDCs, jobVars, budget>>

-----------------------------------------------------------------------------
(* handleDCsDecommission and removeDC.                                     *)

\* newCassandraConfig connects to the service of the first DC of the spec.
CqlUp == \E p \in pods : IsFirst(DCof(p), DesiredDCs(cc)) /\ Gossips(p)

\* A keyspace that still replicates to a DC blocks its decommission.
CheckKeyspaces ==
    /\ pc = "keyspaces"
    /\ IF CqlUp /\ ksDCs \cap RemovedSts = {}
       THEN pc' = "alter" /\ UNCHANGED <<dirty, passVars>>
       ELSE Return(TRUE, FALSE)
    /\ UNCHANGED <<userVars, kubeVars, nodeVars, sysDCs, jobVars, budget>>

\* A system keyspace (but system_auth) stops replicating to the removed DCs: one
\* after the other is altered, and the first request that fails ends the pass.
AlterSystemKeyspace(k) ==
    /\ pc = "alter" /\ sysDCs[k] # DesiredDCs(cc)
    /\ UNCHANGED <<userVars, kubeVars, nodeVars, jobVars>>
    /\ \/ /\ sysDCs' = [sysDCs EXCEPT ![k] = DesiredDCs(cc)]
          /\ UNCHANGED <<dirty, opVars, budget>>
       \/ Spend("cql") /\ Return(TRUE, FALSE) /\ UNCHANGED sysDCs

\* Mutant of SystemKeyspacesDone: a keyspace that could not be altered does not
\* keep the loop from going on.
SystemKeyspacesTried ==
    /\ pc = "alter" /\ \E k \in SysKeyspaces : sysDCs[k] = DesiredDCs(cc)
    /\ todo' = RemovedSts
    /\ pc' = "dcs"
    /\ UNCHANGED <<userVars, kubeVars, nodeVars, sysDCs, jobVars, dirty, cc, podList,
                   stsList, tgt, asked, notLive, wrong, joined, budget>>

SystemKeyspacesDone ==
    /\ pc = "alter" /\ \A k \in SysKeyspaces : sysDCs[k] = DesiredDCs(cc)
    /\ todo' = RemovedSts
    /\ pc' = "dcs"
    /\ UNCHANGED <<userVars, kubeVars, nodeVars, sysDCs, jobVars, dirty, cc, podList,
                   stsList, tgt, asked, notLive, wrong, joined, budget>>

\* The loop over the statefulsets to decommission.
NextDC(d) ==
    /\ pc = "dcs" /\ IsFirst(d, todo)
    /\ IF stsList[d] = 0
       THEN pc' = "rmReaper" /\ tgt' = <<d, 0>>
       ELSE pc' = "opmode" /\ tgt' = LastPod(d)
    /\ UNCHANGED <<userVars, kubeVars, nodeVars, sysDCs, jobVars, dirty, cc, podList,
                   stsList, todo, asked, notLive, wrong, joined, budget>>

DCsDone ==
    /\ pc = "dcs" /\ todo = {}
    /\ Return(FALSE, FALSE)
    /\ UNCHANGED <<userVars, kubeVars, nodeVars, sysDCs, jobVars, budget>>

\* Mutant of RemoveReaper: the reaper deployment is left alone.
RemoveNoReaper ==
    /\ pc = "rmReaper"
    /\ pc' = "rmSvc"
    /\ UNCHANGED <<userVars, kubeVars, nodeVars, sysDCs, jobVars, dirty, passVars, budget>>

\* A reaper that cannot be read is passed over; one that cannot be deleted is an
\* error.
RemoveReaper ==
    /\ pc = "rmReaper"
    /\ UNCHANGED <<userVars, sts, svc, pods, removed, nodeVars, sysDCs, jobVars>>
    /\ \/ /\ reaper' = reaper \ {DCof(tgt)}
          /\ dirty' = (dirty \/ DCof(tgt) \in reaper)
          /\ pc' = "rmSvc"
          /\ UNCHANGED <<passVars, budget>>
       \/ /\ DCof(tgt) \in reaper /\ Spend("api")
          /\ pc' = "rmSvc" /\ wrong' = wrong + 1
          /\ UNCHANGED <<reaper, dirty, cc, podList, stsList, todo, tgt, asked, notLive, joined>>
       \/ DCof(tgt) \in reaper /\ ApiFails /\ UNCHANGED reaper

\* A service that was deleted ends the pass; one that could not be deleted (or
\* is gone) lets it go on to the statefulset.
RemoveSvc ==
    /\ pc = "rmSvc"
    /\ UNCHANGED <<userVars, sts, reaper, pods, removed, nodeVars, sysDCs, jobVars>>
    /\ \/ /\ DCof(tgt) \in svc
          /\ svc' = svc \ {DCof(tgt)}
          /\ Return(FALSE, TRUE)
          /\ UNCHANGED budget
       \/ /\ IF DCof(tgt) \in svc THEN Spend("api") /\ wrong' = wrong + 1
                                  ELSE UNCHANGED <<budget, wrong>>
          /\ pc' = "rmSts"
          /\ UNCHANGED <<svc, dirty, cc, podList, stsList, todo, tgt, asked, notLive, joined>>

RemoveSts ==
    /\ pc = "rmSts"
    /\ UNCHANGED <<userVars, svc, reaper, pods, nodeVars, sysDCs, jobVars>>
    /\ \/ /\ sts' = [sts EXCEPT ![DCof(tgt)] = NoSts]
          /\ removed' = IF wrong = 0 THEN removed \cup {DCof(tgt)} ELSE removed
          /\ Return(FALSE, TRUE)
          /\ UNCHANGED budget
       \/ ApiFails /\ UNCHANGED <<sts, removed>>

\* The operator's process restarts: the pass and the job goroutines are gone,
\* a decommission a node already works on goes on, and every CassandraCluster
\* is queued.
OperatorRestart ==
    /\ Spend("restart")
    /\ pc' = "idle" /\ ForgetPass
    /\ jobsList' = [p \in Pods |-> "none"]
    /\ calls' = [p \in Pods |-> 0]
    /\ waiting' = {}
    /\ dirty' = TRUE
    /\ UNCHANGED <<userVars, kubeVars, nodeVars, sysDCs>>

-----------------------------------------------------------------------------
PassStep ==
    \/ Begin \/ ApplySts \/ Applied
    \/ \E d \in DCs : \/ ApplyService(d) \/ SkipDC(d) \/ ScaleUp(d) \/ ScaleDown(d)
                      \/ NextDC(d)
    \/ DesiredDone \/ CheckOperationMode
    \/ \E q \in Pods : AskView(q)
    \/ ShrinkSts \/ KeepSts
    \/ \E k \in SysKeyspaces : AlterSystemKeyspace(k)
    \/ CheckKeyspaces \/ SystemKeyspacesDone \/ DCsDone
    \/ RemoveReaper \/ RemoveSvc \/ RemoveSts

JobStep(p) == DecommissionStart(p) \/ DecommissionFail(p)

PodStep(p) == DecommissionEnd(p) \/ NodeStart(p) \/ NodeShutdown(p)
              \/ CreatePod(p) \/ DeletePod(p)

Next ==
    \/ PassStep
    \/ \E p \in Pods : JobStep(p) \/ PodStep(p) \/ NodeCrash(p)
    \/ \E new \in Specs : EditSpec(new)
    \/ \E d \in DCs : AlterKeyspace(d)
    \/ OperatorRestart

\* The operator's worker, the job goroutines, the nodes, the kubelet and the
\* statefulset controller keep running; faults and the user owe nothing.
Fairness ==
    /\ WF_vars(PassStep)
    /\ \A p \in Pods : WF_vars(JobStep(p)) /\ WF_vars(PodStep(p))

Spec == Init /\ [][Next]_vars
FairSpec == Spec /\ Fairness

-----------------------------------------------------------------------------
(* Properties.                                                             *)

PCs == {"idle", "apply", "applySts", "desired", "opmode", "views", "keyspaces", "alter", "dcs",
        "rmReaper", "rmSvc", "rmSts"}

\* The types of the shared state, and of what one pass keeps.
ClusterTypeOK ==
    /\ spec \in Specs /\ sts \in [DCs -> NoSts..MaxReplicas]
    /\ svc \subseteq DCs /\ reaper \subseteq DCs /\ pods \subseteq Pods
    /\ mode \in [Pods -> Modes] /\ up \in [Pods -> BOOLEAN]
    /\ ksDCs \subseteq DCs /\ late \subseteq ksDCs /\ removed \subseteq DCs
    /\ sysDCs \in [SysKeyspaces -> SUBSET DCs]
    /\ jobsList \in [Pods -> {"none", "running", "finished"}]
    /\ calls \in [Pods -> 0..MaxCalls] /\ waiting \subseteq Pods
    /\ dirty \in BOOLEAN /\ budget \in [FaultKinds -> Nat]

PassTypeOK ==
    /\ pc \in PCs /\ cc \in Specs
    /\ stsList \in [DCs -> NoSts..MaxReplicas]
    /\ podList \subseteq Pods /\ joined \subseteq podList /\ asked \subseteq Pods
    /\ todo \subseteq DCs /\ tgt \in Pods \cup {NoPod}
    /\ notLive \in Nat /\ wrong \in Nat

\* Every variable has its type (the fields of the Go structs it stands for).
TypeOK == ClusterTypeOK /\ PassTypeOK

\* The pod a statefulset loses when its replicas go down by one.
Shrinks(d) == sts[d] > 0 /\ sts'[d] = sts[d] - 1

\* handlePodDecommission lowers the replicas of a statefulset only after the last
\* pod's node has been decommissioned, however many JMX requests fail, as long as
\* fewer peers than the quorum of podDecommissioned wrongly miss the node: a node
\* that has been up in the ring since the pass listed the pods is never cut off.
ShrinkOnlyDecommissioned ==
    [][\A d \in DCs :
         /\ Shrinks(d)
         /\ wrong < Quorum
         /\ <<d, sts[d] - 1>> \in joined
         => mode[<<d, sts[d] - 1>>] = "DECOMMISSIONED"]_vars

\* docs/docs/cassandracluster-lifecycle.md: the operator decommissions the node,
\* and only then are the replicas decreased: the pod's node is out of the ring.
ShrinkAfterDecommission ==
    [][\A d \in DCs : Shrinks(d) => ~InRing(<<d, sts[d] - 1>>)]_vars

\* handleDCsDecommission lets the nodes of a DC go only when nothing replicates to
\* it: a keyspace of the user, or a system keyspace the operator manages, never
\* replicates to a DC without a node in the ring, although a pass may stop between
\* two ALTERs, work with an outdated spec or be repeated after a restart.  (A DC
\* the user adds to a keyspace when it has left the spec is the user's affair.)
KeyspacesHaveNodes ==
    \A d \in (ksDCs \ late) \cup UNION {sysDCs[k] : k \in SysKeyspaces} :
        \E p \in Pods : DCof(p) = d /\ InRing(p)

\* removeDC deletes the statefulset last, and nothing of a DC comes back by itself:
\* one that was removed has neither its service nor its reaper until the user
\* brings it back, whatever restarts or fails, unless removeDC itself goes on after
\* an error ("After all cassandra nodes are removed, the operator remove the
\* statefulset, service and Reaper", cassandracluster-lifecycle.md).
NothingLeftBehind == removed \cap (svc \cup reaper) = {}

\* The nodes of a DC leave one at a time: while the user only shrinks the
\* cluster, a node starts to leave only when the one above it has left.
OneLeavingPerDC ==
    \A p, q \in Pods : mode[p] = "LEAVING" /\ mode[q] = "LEAVING"
                       /\ DCof(p) = DCof(q) => p = q

\* A removed DC whose keyspaces still replicate to it waits for the user.
Blocked == \E d \in DCs : spec[d] = 0 /\ sts[d] # NoSts /\ d \in ksDCs
\* Every DC has its parts and its replicas, and a DC that left the spec neither a
\* statefulset nor a system keyspace that replicates to it.
Settled == /\ \A p \in Pods : p \in pods <=> Ord(p) < spec[DCof(p)]
           /\ \A p \in pods : mode[p] = "NORMAL"
           /\ \A d \in DesiredDCs(spec) : sts[d] = spec[d] /\ d \in svc
           /\ \A d \in DCs \ DesiredDCs(spec) :
                sts[d] = NoSts /\ \A k \in SysKeyspaces : d \notin sysDCs[k]

\* reconcileCassandra may be cut off between a DC's service and its statefulset,
\* and reconcileCassandraScaling returns without a requeue while a scaling is in
\* progress: no wakeup is lost, and the cluster reaches the spec for good unless a
\* keyspace blocks the removal of a DC.  No decommissioned node keeps its pod:
\* "Once decommissioned, the statefulset replicas parameter is decreased and the
\* pod is removed" (cassandracluster-lifecycle.md).
Converges == <>[](Settled \/ Blocked)
=============================================================================

------------------------------ MODULE PodsInit ------------------------------
(***************************************************************************)
(* The ordered start of Cassandra pods in one region.                      *)
(*                                                                         *)
(* All pods of a statefulset are created in parallel.  The init container  *)
(* of a pod waits for the entry of the pod in the pods config map, and     *)
(* goes on when the entry says PAUSE_INIT=false.  The operator rebuilds    *)
(* the config map in every reconcile pass                                  *)
(* (controllers/cassandra_pods_config.go) from the pods it listed and the  *)
(* readiness the statefulsets report, labels the seed pods                 *)
(* (cassandra_pod_labels.go) and scales the statefulsets; the scaling is   *)
(* one step here and is taken apart in module Scaling.  External: the      *)
(* statefulset controller, the kubelet, the nodes and the user.            *)
(***************************************************************************)
EXTENDS Integers, FiniteSets

CONSTANTS
    DCs,          \* data centres; numbers, in the order of spec.dcs
    MaxReplicas,  \* largest number of replicas a DC may have
    NumSeeds,     \* spec.cassandra.numSeeds
    Base,         \* base the ordinals in pod names are written in (10 in the code)
    HostPort,     \* hostPort is enabled (and no managed region is configured)
    Persistence,  \* TRUE if nodes keep their data on a claim that outlives the pod
    Scenarios,    \* how a behaviour starts: the CassandraCluster's spec, TRUE if it is
                  \* up and running, and how often each fault, and an edit, may happen
    Edits         \* pairs <<old, new>> of specs: what the user may change

\* dc.Replicas of each DC; 0 stands for a DC that is not in the spec.
Specs == [DCs -> 0..MaxReplicas]
NoSts == -1
FaultKinds == {"edit", "crash", "lose", "loseNew", "abort"}

ASSUME PodsInitAssumption ==
    /\ DCs \subseteq Nat /\ IsFiniteSet(DCs)
    /\ MaxReplicas \in Nat \ {0} /\ NumSeeds \in Nat \ {0}
    /\ Base \in Nat \ {0} /\ MaxReplicas <= Base * Base
    /\ HostPort \in BOOLEAN /\ Persistence \in BOOLEAN
    /\ Scenarios \subseteq [spec : Specs, deployed : BOOLEAN, budget : [FaultKinds -> Nat]]
    /\ Edits \subseteq Specs \X Specs
    /\ \A e \in Edits, d \in DCs : e[1][d] > 0 => e[2][d] > 0  \* no DC is removed

Pods == DCs \X (0..MaxReplicas - 1)
DCof(p) == p[1]
Ord(p) == p[2]

\* The pod's life: absent, pending (created but without an IP), waiting (in the init
\* container), starting (in the cassandra container but not ready), ready, left
\* (decommissioned and shut down).  Its entry: none, paused, go.
VARIABLES
    spec,     \* spec.dcs of the CassandraCluster
    sts,      \* replicas of each DC's statefulset, NoSts if it does not exist
    status,   \* status.readyReplicas of each statefulset
    phase,    \* where each pod is in its life
    mode,     \* operation mode of the node: NEW until its first start is over,
              \* JOINING if its pod has been ready but it still bootstraps
    seed,     \* pods with the seed label
    cm,       \* the pod's entry (PAUSE_INIT) in the pods config map
    mounted,  \* the entry as the pod sees it on its volume
    dirty,    \* a reconcile request is queued
    pc,       \* where the reconcile pass is
    cc,       \* the spec this pass works with
    list,     \* podList of this pass: the phases,
    listSeed, \* and the labels
    replaced, \* listed pods that are gone by now: their UID is used up
    budget    \* faults and edits that are left

podVars == <<phase, mode, seed, mounted>>
passVars == <<pc, cc, list, listSeed, replaced>>
vars == <<spec, sts, status, podVars, cm, dirty, passVars, budget>>

NoPods == [p \in Pods |-> "absent"]
DesiredDCs(s) == {d \in DCs : s[d] > 0}
SpecPods(s) == {p \in Pods : Ord(p) < s[DCof(p)]}

Spend(k) == budget[k] > 0 /\ budget' = [budget EXCEPT ![k] = @ - 1]

\* dcNumberOfSeeds: at least one pod of a DC with several pods is no seed.
dcNumberOfSeeds(r) == IF NumSeeds < r THEN NumSeeds ELSE IF r <= 1 THEN r ELSE r - 1
SeedPods(s) == {p \in Pods : Ord(p) < dcNumberOfSeeds(s[DCof(p)])}

InitPods(s) ==
    LET running == IF s.deployed THEN SpecPods(s.spec) ELSE {} IN
    /\ spec = s.spec
    /\ sts = [d \in DCs |-> IF s.deployed /\ s.spec[d] > 0 THEN s.spec[d] ELSE NoSts]
    /\ status = [d \in DCs |-> IF s.deployed THEN s.spec[d] ELSE 0]
    /\ phase = [p \in Pods |-> IF p \in running THEN "ready" ELSE "absent"]
    /\ mode = [p \in Pods |-> IF p \in running THEN "NORMAL" ELSE "NEW"]
    /\ seed = running \cap SeedPods(s.spec)
    /\ cm = [p \in Pods |-> IF p \in running THEN "go" ELSE "none"]
    /\ mounted = cm
    /\ budget = s.budget

Init ==
    /\ \E s \in Scenarios : InitPods(s)
    /\ dirty = TRUE
    /\ pc = "idle" /\ cc = [d \in DCs |-> 0] /\ list = NoPods
    /\ listSeed = {} /\ replaced = {}

-----------------------------------------------------------------------------
(* Statefulset controller, kubelet, nodes and user (external).             *)

\* The statefulset controller creates pods in the order of their ordinals, and
\* a new pod has a new UID: no label, no entry.
CreatePod(p) ==
    /\ phase[p] = "absent" /\ Ord(p) < sts[DCof(p)]
    /\ \A q \in Pods : DCof(q) = DCof(p) /\ Ord(q) < Ord(p) => phase[q] # "absent"
    /\ phase' = [phase EXCEPT ![p] = "pending"]
    /\ dirty' = TRUE
    /\ UNCHANGED <<spec, sts, status, mode, seed, cm, mounted, passVars, budget>>

\* A decommission that was under way is interrupted.
AfterRestart(m) == IF m = "LEAVING" THEN "NORMAL" ELSE m

\* What is left of a pod that is gone: its volume, if the claim is persistent.
Remove(p) ==
    /\ phase' = [phase EXCEPT ![p] = "absent"]
    /\ seed' = seed \ {p}
    /\ cm' = [cm EXCEPT ![p] = "none"]
    /\ mounted' = [mounted EXCEPT ![p] = "none"]
    /\ mode' = [mode EXCEPT ![p] = IF ~Persistence THEN "NEW"
                                   ELSE AfterRestart(@)]
    /\ replaced' = IF pc = "idle" THEN replaced ELSE replaced \cup {p}
    /\ dirty' = TRUE
    /\ UNCHANGED <<spec, sts, status, pc, cc, list, listSeed>>

DeletePod(p) ==
    /\ phase[p] # "absent" /\ Ord(p) >= sts[DCof(p)]
    /\ Remove(p) /\ UNCHANGED budget

\* A pod is evicted or deleted; the statefulset controller creates it again.
LosePod(p) ==
    /\ phase[p] # "absent" /\ Ord(p) < sts[DCof(p)]
    /\ Spend(IF mode[p] = "NEW" THEN "loseNew" ELSE "lose")
    /\ Remove(p)

SchedulePod(p) ==
    /\ phase[p] = "pending"
    /\ phase' = [phase EXCEPT ![p] = "waiting"]
    /\ dirty' = TRUE
    /\ UNCHANGED <<spec, sts, status, mode, seed, cm, mounted, passVars, budget>>

\* The kubelet brings the volume of the config map up to date, some time later.
SyncVolume(p) ==
    /\ phase[p] = "waiting" /\ mounted[p] # cm[p]
    /\ mounted' = [mounted EXCEPT ![p] = cm[p]]
    /\ UNCHANGED <<spec, sts, status, phase, mode, seed, cm, dirty, passVars, budget>>

\* The loops of the init container end, and the cassandra container starts.
StartNode(p) ==
    /\ phase[p] = "waiting" /\ mounted[p] = "go"
    /\ phase' = [phase EXCEPT ![p] = "starting"]
    /\ UNCHANGED <<spec, sts, status, mode, seed, cm, mounted, dirty, passVars, budget>>

\* The process runs, so JMX requests may reach it; one that was decommissioned exits.
Answers(p) == phase[p] \in {"starting", "ready"} /\ mode[p] # "DECOMMISSIONED"

\* A node has bootstrapped and is in the ring.  Seeds do not need another node.
NodeJoin(p) ==
    /\ Answers(p) /\ mode[p] \in {"NEW", "JOINING"}
    /\ \/ p \in SeedPods(spec)
       \/ \E q \in Pods : Answers(q) /\ mode[q] = "NORMAL"
    /\ mode' = [mode EXCEPT ![p] = "NORMAL"]
    /\ UNCHANGED <<spec, sts, status, phase, seed, cm, mounted, dirty, passVars, budget>>

\* isNodeReady: the nodes whose view of the others counts.
HealthyNodes == {q \in Pods : Answers(q) /\ mode[q] = "NORMAL"}

\* The readiness probe succeeds: there are healthy nodes, and by now all of them see
\* the node UP.  Whether it still bootstraps does not matter; a node that was
\* decommissioned refuses to start.
PodReady(p) ==
    /\ phase[p] = "starting" /\ mode[p] # "DECOMMISSIONED"
    /\ HealthyNodes # {}
    /\ phase' = [phase EXCEPT ![p] = "ready"]
    /\ mode' = [mode EXCEPT ![p] = IF @ = "NEW" THEN "JOINING" ELSE @]
    /\ dirty' = TRUE
    /\ UNCHANGED <<spec, sts, status, seed, cm, mounted, passVars, budget>>

\* The container restarts, without its init containers.
NodeCrash(p) ==
    /\ phase[p] = "ready" /\ Spend("crash")
    /\ phase' = [phase EXCEPT ![p] = "starting"]
    /\ mode' = [mode EXCEPT ![p] = AfterRestart(@)]
    /\ dirty' = TRUE
    /\ UNCHANGED <<spec, sts, status, seed, cm, mounted, passVars>>

NodeLeft(p) ==
    /\ Answers(p) /\ mode[p] = "LEAVING"
    /\ phase' = [phase EXCEPT ![p] = "left"]
    /\ mode' = [mode EXCEPT ![p] = "DECOMMISSIONED"]
    /\ dirty' = TRUE
    /\ UNCHANGED <<spec, sts, status, seed, cm, mounted, passVars, budget>>

ReadyPods(d) == Cardinality({p \in Pods : DCof(p) = d /\ phase[p] = "ready"})

UpdateStatus(d) ==
    /\ sts[d] # NoSts /\ status[d] # ReadyPods(d)
    /\ status' = [status EXCEPT ![d] = ReadyPods(d)]
    /\ dirty' = TRUE
    /\ UNCHANGED <<spec, sts, podVars, cm, passVars, budget>>

EditSpec(new) ==
    /\ <<spec, new>> \in Edits
    /\ Spend("edit")
    /\ spec' = new
    /\ dirty' = TRUE
    /\ UNCHANGED <<sts, status, podVars, cm, passVars>>

-----------------------------------------------------------------------------
(* getInitOrderInfo, nextNonSeedPodToInit and pausePodInit.                *)

None == -1

\* unreadyDCs: the statefulset is missing, or does not report the spec's replicas.
Unready(d) == sts[d] = NoSts \/ status[d] # cc[d]

\* getNextLocalDCToInit: the first DC of the spec that is not ready.
NextDCToInit ==
    LET unready == {d \in DesiredDCs(cc) : Unready(d)} IN
    IF HostPort \/ unready = {} THEN None
    ELSE CHOOSE d \in unready : \A e \in unready : d <= e

Listed == {p \in Pods : list[p] # "absent"}

\* Mutant of SeedsReady: it looks at all pods of the DC.
SeedsReadyAll(dc) == \A p \in Listed : DCof(p) = dc => list[p] = "ready"

\* dcSeedPodsReady: no container of a seed pod in the list is unready.  A pending
\* pod has no container yet.
SeedsReady(dc) ==
    \A p \in Listed \cap listSeed : DCof(p) = dc => list[p] \in {"pending", "ready"}

\* sort.Strings on the pod names of one DC: "10" comes before "2".
NameKey(i) == IF i < Base THEN i * (Base + 1) ELSE (i \div Base) * (Base + 1) + 1 + (i % Base)
SortedBefore(p, q) == NameKey(Ord(p)) < NameKey(Ord(q))

\* Mutant of IsNextNonSeed: a pod that runs counts as ready.
IsNextNotRunning(p, dc) ==
    LET todo == {q \in Listed \ listSeed : DCof(q) = dc /\ list[q] \notin {"starting", "ready"}}
    IN  p \in todo /\ \A q \in todo \ {p} : SortedBefore(p, q)

\* nextNonSeedPodToInit: p is the first pod that is neither a seed nor ready.
IsNextNonSeed(p, dc) ==
    LET todo == {q \in Listed \ listSeed : DCof(q) = dc /\ list[q] # "ready"}
    IN  p \in todo /\ \A q \in todo \ {p} : SortedBefore(p, q)

\* Mutants of pausePodInit: non-seeds do not wait for the seeds, or DCs do not
\* wait for each other.
PauseNoSeeds(p, dc) ==
    /\ dc # None
    /\ \/ DCof(p) # dc
       \/ p \notin listSeed /\ list[p] # "ready" /\ ~IsNextNonSeed(p, dc)
PauseNoDCs(p, dc) ==
    /\ dc # None /\ DCof(p) = dc /\ p \notin listSeed
    /\ ~SeedsReady(dc) \/ (list[p] # "ready" /\ ~IsNextNonSeed(p, dc))

\* pausePodInit: PAUSE_INIT of a pod; dc is the DC that may start.
pausePodInit(p, dc) ==
    /\ dc # None
    /\ \/ DCof(p) # dc
       \/ /\ p \notin listSeed
          /\ ~SeedsReady(dc) \/ (list[p] # "ready" /\ ~IsNextNonSeed(p, dc))

-----------------------------------------------------------------------------
(* The operator's reconcile pass.                                          *)

\* The pass returns; "requeue" stands for an error, Requeue or RequeueAfter, or
\* for the event of a statefulset that this step changed.
Return(requeue) ==
    /\ pc' = "idle" /\ dirty' = (dirty \/ requeue)
    /\ cc' = [d \in DCs |-> 0] /\ list' = NoPods /\ listSeed' = {} /\ replaced' = {}

\* The pass reads the CassandraCluster and lists the pods.
Begin ==
    /\ pc = "idle" /\ dirty
    /\ dirty' = FALSE
    /\ pc' = "config"
    /\ cc' = spec
    /\ list' = phase /\ listSeed' = seed /\ replaced' = {}
    /\ UNCHANGED <<spec, sts, status, podVars, cm, budget>>

\* podsConfigMapData fails while a listed pod has no address.
WaitForAddresses ==
    /\ pc = "config" /\ \E p \in Listed : list[p] = "pending"
    /\ Return(TRUE)
    /\ UNCHANGED <<spec, sts, status, podVars, cm, budget>>

\* reconcileCassandraPodsConfigMap replaces all entries.  The entry of a pod that
\* was created again since it was listed has the UID of its predecessor.
WritePodsConfig ==
    /\ pc = "config" /\ \A p \in Listed : list[p] # "pending"
    /\ LET dc == NextDCToInit IN
       cm' = [p \in Pods |->
                IF p \notin Listed \ replaced THEN "none"
                ELSE IF pausePodInit(p, dc) THEN "paused" ELSE "go"]
    /\ pc' = "cassandra"
    /\ UNCHANGED <<spec, sts, status, podVars, dirty, cc, list, listSeed, replaced, budget>>

\* reconcileCassandra creates the missing statefulsets and labels the pods.
ReconcileCassandra ==
    /\ pc = "cassandra"
    /\ sts' = [d \in DCs |-> IF cc[d] > 0 /\ sts[d] = NoSts THEN cc[d] ELSE sts[d]]
    /\ seed' = {p \in SeedPods(cc) : phase[p] # "absent"}
    /\ dirty' = (dirty \/ sts' # sts)
    /\ pc' = "scale"
    /\ UNCHANGED <<spec, status, phase, mode, mounted, cm, cc, list, listSeed, replaced,
                   budget>>

\* The statefulsets to shrink; without pods there is nothing to shrink with.
Shrinking == {d \in DesiredDCs(cc) : sts[d] > cc[d] /\ Listed # {}}

\* The statefulsets grow that come before the first one to shrink.
Grown == [d \in DCs |-> IF sts[d] # NoSts /\ sts[d] < cc[d]
                           /\ \A e \in Shrinking : d < e
                        THEN cc[d] ELSE sts[d]]

\* No statefulset has to shrink: the pass goes on and ends with RequeueAfter.
ScaleUp ==
    /\ pc = "scale" /\ Shrinking = {}
    /\ sts' = Grown
    /\ Return(TRUE)
    /\ UNCHANGED <<spec, status, podVars, cm, budget>>

\* The pods podDecommissioned asks for their cluster view.
Peers(t) == Listed \ {t}

\* handlePodDecommission of the last pod t.  A node that answers is told to leave,
\* or waited for; one that still bootstraps refuses.  If it does not answer, every
\* other pod must report that t is not live: none may be down, and t may be listed
\* as long as it was not decommissioned.
ScaleDown(d) ==
    /\ pc = "scale" /\ d \in Shrinking /\ \A e \in Shrinking : d <= e
    /\ LET t == <<d, sts[d] - 1>>
       IN \/ /\ t \notin Listed
             /\ sts' = Grown /\ UNCHANGED mode /\ Return(TRUE)
          \/ /\ t \in Listed /\ Answers(t) /\ mode[t] \in {"NORMAL", "LEAVING"}
             /\ mode' = [mode EXCEPT ![t] = "LEAVING"]
             /\ sts' = Grown /\ Return(FALSE)
          \/ /\ t \in Listed /\ Answers(t) /\ mode[t] \in {"NEW", "JOINING"}
             /\ sts' = Grown /\ UNCHANGED mode /\ Return(TRUE)
          \/ /\ t \in Listed /\ phase[t] # "ready" /\ \A q \in Peers(t) : Answers(q)
             /\ sts' = [Grown EXCEPT ![d] = @ - 1]
             /\ UNCHANGED mode /\ Return(TRUE)
          \/ /\ t \in Listed /\ phase[t] # "ready"
             /\ mode[t] \in {"NORMAL", "LEAVING", "JOINING"} \/ \E q \in Peers(t) : ~Answers(q)
             /\ sts' = Grown /\ UNCHANGED mode /\ Return(TRUE)
    /\ UNCHANGED <<spec, status, phase, seed, mounted, cm, budget>>

\* An API request fails or the operator restarts: the pass is gone.
AbortPass ==
    /\ pc # "idle" /\ Spend("abort")
    /\ Return(TRUE)
    /\ UNCHANGED <<spec, sts, status, podVars, cm>>

-----------------------------------------------------------------------------
PassStep == \/ Begin \/ WaitForAddresses \/ WritePodsConfig \/ ReconcileCassandra
            \/ ScaleUp \/ (\E d \in DCs : ScaleDown(d))

PodStep(p) == \/ CreatePod(p) \/ DeletePod(p) \/ SchedulePod(p) \/ SyncVolume(p)
              \/ StartNode(p) \/ NodeJoin(p) \/ PodReady(p) \/ NodeLeft(p)

Next ==
    \/ PassStep \/ AbortPass
    \/ \E p \in Pods : PodStep(p) \/ LosePod(p) \/ NodeCrash(p)
    \/ \E d \in DCs : UpdateStatus(d)
    \/ \E new \in Specs : EditSpec(new)

\* The operator's worker, the kubelet, the nodes and the statefulset controller
\* keep running; faults and the user owe nothing.
Fairness ==
    /\ WF_vars(PassStep)
    /\ \A p \in Pods : WF_vars(PodStep(p))
    /\ \A d \in DCs : WF_vars(UpdateStatus(d))

Spec == Init /\ [][Next]_vars
FairSpec == Spec /\ Fairness

-----------------------------------------------------------------------------
(* Properties.                                                             *)

\* The nodes that start for the first time: neither in the ring, nor ever ready.
FirstStarts == {p \in Pods : phase[p] = "starting" /\ mode[p] = "NEW"}
MayBeSeed(p) == Ord(p) < NumSeeds

\* "They will start one node at a time even though all pods will be created in
\* parallel" (cassandracluster-lifecycle.md), as far as pausePodInit goes: seeds are
\* not paused, and a pod that is ready no longer holds the next one back.  Apart from
\* seeds, no node of a DC starts for the first time while another one does.
OneStartPerDC ==
    \A p, q \in FirstStarts : p # q /\ DCof(p) = DCof(q) => MayBeSeed(p) /\ MayBeSeed(q)

\* A node that is not a seed starts after all seeds of its DC have been ready, or are
\* in the ring.
SeedsFirst ==
    \A p \in FirstStarts : Ord(p) >= dcNumberOfSeeds(spec[DCof(p)]) =>
        \A q \in SeedPods(spec) : DCof(q) = DCof(p) => mode[q] # "NEW"

\* A node of a DC starts only when all nodes of the DCs before it in the spec have
\* been ready, or are in the ring.
DCsInOrder ==
    \A p \in FirstStarts, q \in SpecPods(spec) : DCof(q) < DCof(p) => mode[q] # "NEW"

\* Pausing never locks the cluster up: in the end all pods of the spec, and no
\* others, are ready for good.
AllReady == <>[](\A p \in Pods : phase[p] = IF p \in SpecPods(spec) THEN "ready" ELSE "absent")

\* "Once decommissioned, the statefulset replicas parameter is decreased and the pod
\* is removed.  The process is repeated if needed" (cassandracluster-lifecycle.md).
DecommissionedIsRemoved == \A p \in Pods : phase[p] = "left" ~> phase[p] = "absent"
=============================================================================

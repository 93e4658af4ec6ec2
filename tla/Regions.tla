------------------------------ MODULE Regions ------------------------------
(***************************************************************************)
(* Several regions that form one Cassandra cluster.                        *)
(*                                                                         *)
(* Every region has an operator of its own, and a prober.  An operator     *)
(* writes what it knows of its region into its own prober (the DCs, the    *)
(* seeds, whether the region and its Reaper are ready) and reads the       *)
(* probers of the regions its CassandraCluster names, each with a request  *)
(* of its own (controllers/prober/prober.go, prober/prober/handlers.go).   *)
(* With what it read a pass decides with which credentials a new region    *)
(* starts (admin_auth.go), which of its pods may start and with which      *)
(* seeds (cassandra_pods_config.go), where system_auth is replicated       *)
(* (keyspaces.go), whether the cluster is ready (readiness.go) and when    *)
(* Reaper is deployed.  The prober keeps all of it in memory.              *)
(*                                                                         *)
(* hostPort is enabled, as managed regions require, and every DC has one   *)
(* pod, its seed: a node is named by its DC, and by its address.  The      *)
(* order among the pods of a DC is in PodsInit, the requests to Cassandra  *)
(* are taken apart in AdminAuth and Repairs.  External: the users, the     *)
(* statefulset controller, the kubelets, the nodes, Reaper's start.        *)
(***************************************************************************)
EXTENDS Integers, FiniteSets

CONSTANTS
    DCsOf,      \* the DCs of each region; numbers, in the order of spec.dcs
    Scenarios   \* how a behaviour starts: which region runs, alone and complete,
                \* if any, and how often each fault may happen

\* Regions are numbers, ordered as their prober hosts are.
Regions == DOMAIN DCsOf
Nodes == UNION {DCsOf[r] : r \in Regions}
NoAddress == 0
FaultKinds == {"restart", "lost", "refused", "replace"}

ASSUME RegionsAssumption ==
    /\ Regions \subseteq Nat \ {0} /\ IsFiniteSet(Regions)
    /\ \A r \in Regions : DCsOf[r] \subseteq Nat \ {NoAddress} /\ DCsOf[r] # {}
    /\ \A r, s \in Regions : r # s => DCsOf[r] \cap DCsOf[s] = {}
    /\ \A s \in Scenarios :
          /\ s.running \subseteq Regions /\ Cardinality(s.running) <= 1
          /\ s.budget \in [FaultKinds -> Nat]

RegionOf(d) == CHOOSE r \in Regions : d \in DCsOf[r]
Least(S) == CHOOSE x \in S : \A y \in S : x <= y

VARIABLES
    managed,  \* spec.externalRegions.managed of each region, {} if it runs alone
    created,  \* regions whose CassandraCluster exists
    active,   \* the credentials of the active secret
    prober,   \* the state of each prober
    sts,      \* regions whose statefulsets exist
    phase,    \* the pod of each DC: absent, pending, waiting, starting or up
    entry,    \* its entry in the pods config map: PAUSE_INIT and CASSANDRA_SEEDS
    started,  \* nodes that have been started
    joined,   \* nodes that have joined the ring
    roles,    \* superusers in Cassandra: "default", "admin"
    auth,     \* DCs with replicas of system_auth
    reaper,   \* the Reaper of each region
    ready,    \* status.ready of each CassandraCluster
    pass,     \* the reconcile pass of each operator
    budget    \* faults that are left

podVars == <<phase, entry, started, joined>>
ringVars == <<roles, auth>>
userVars == <<managed, created>>
vars == <<userVars, active, prober, sts, podVars, ringVars, reaper, ready, pass, budget>>

EmptyProber == [dcs |-> FALSE, seeds |-> {}, region |-> FALSE, reaper |-> FALSE]
NoEntry == [go |-> FALSE, seeds |-> {}]
Idle == [pc |-> "idle", managed |-> {}, list |-> {}, seeds |-> {}, todo |-> {},
         unready |-> {}, status |-> {}]

Others(r) == Regions \ {r}
Spend(k) == budget[k] > 0 /\ budget' = [budget EXCEPT ![k] = @ - 1]

\* A region that runs has created its own admin role and dropped the default
\* one, and replicates system_auth in its own DCs.  The replication a new ring
\* starts with does not distinguish DCs.
Init ==
    \E s \in Scenarios :
        LET running == s.running
            nodes == UNION {DCsOf[r] : r \in running}
        IN
        /\ managed = [r \in Regions |-> IF r \in running THEN {} ELSE Others(r)]
        /\ created = running /\ sts = running
        /\ active = [r \in Regions |-> IF r \in running THEN "admin" ELSE "none"]
        /\ prober = [r \in Regions |->
              IF r \in running
              THEN [dcs |-> TRUE, seeds |-> DCsOf[r], region |-> TRUE, reaper |-> TRUE]
              ELSE EmptyProber]
        /\ phase = [d \in Nodes |-> IF d \in nodes THEN "up" ELSE "absent"]
        /\ entry = [d \in Nodes |-> IF d \in nodes THEN [go |-> TRUE, seeds |-> nodes] ELSE NoEntry]
        /\ started = nodes /\ joined = nodes
        /\ roles = IF running = {} THEN {"default"} ELSE {"admin"}
        /\ auth = IF running = {} THEN Nodes ELSE nodes
        /\ reaper = [r \in Regions |-> IF r \in running THEN "up" ELSE "none"]
        /\ ready = [r \in Regions |-> r \in running]
        /\ pass = [r \in Regions |-> Idle]
        /\ budget = s.budget

-----------------------------------------------------------------------------
(* Cassandra, as the operators and the probers see it (external).          *)

\* A prober asks a node with the credentials of the active secret, and Cassandra
\* checks them where system_auth has replicas: else the node is never ready.
NodeReady(d) == phase[d] = "up" /\ active[RegionOf(d)] \in roles /\ d \in auth

\* A CQL session through the nodes of region r.
Login(r, role) == role \in roles /\ \E d \in DCsOf[r] : phase[d] = "up" /\ d \in auth

unreadyDCs(r) == {d \in DCsOf[r] : ~NodeReady(d)}

-----------------------------------------------------------------------------
(* The users, Kubernetes and the nodes (external).                         *)

\* The new region's CassandraCluster names all the other regions.
CreateRegion(r) ==
    /\ r \notin created
    /\ created' = created \cup {r}
    /\ UNCHANGED <<managed, active, prober, sts, podVars, ringVars, reaper, ready, pass, budget>>

\* The region that runs alone is told of the others.
Connect(r) ==
    /\ r \in created /\ managed[r] # Others(r)
    /\ managed' = [managed EXCEPT ![r] = Others(r)]
    /\ UNCHANGED <<created, active, prober, sts, podVars, ringVars, reaper, ready, pass, budget>>

SetPhase(d, from, to) ==
    /\ phase[d] = from /\ phase' = [phase EXCEPT ![d] = to]
    /\ UNCHANGED <<userVars, active, prober, sts, entry, ringVars, reaper, ready, pass, budget>>

CreatePod(d) ==
    /\ RegionOf(d) \in sts /\ SetPhase(d, "absent", "pending")
    /\ UNCHANGED <<started, joined>>

SchedulePod(d) == SetPhase(d, "pending", "waiting") /\ UNCHANGED <<started, joined>>

\* The init container waits for an entry that does not pause the pod.
StartNode(d) ==
    /\ entry[d].go /\ SetPhase(d, "waiting", "starting")
    /\ started' = started \cup {d} /\ UNCHANGED joined

JoinRing(d) ==
    /\ SetPhase(d, "starting", "up")
    /\ joined' = joined \cup {d} /\ UNCHANGED started

\* The pod is deleted and created again: the entry of its old UID is no use.
ReplacePod(d) ==
    /\ phase[d] \notin {"absent", "pending"} /\ Spend("replace")
    /\ phase' = [phase EXCEPT ![d] = "pending"]
    /\ entry' = [entry EXCEPT ![d] = NoEntry]
    /\ pass' = [pass EXCEPT ![RegionOf(d)].list = @ \ {d}]
    /\ UNCHANGED <<userVars, active, prober, sts, started, joined, ringVars, reaper, ready>>

ReaperStarts(r) ==
    /\ reaper[r] = "starting"
    /\ reaper' = [reaper EXCEPT ![r] = "up"]
    /\ UNCHANGED <<userVars, active, prober, sts, podVars, ringVars, ready, pass, budget>>

\* The prober is restarted: all it knew is gone.
RestartProber(r) ==
    /\ active[r] # "none" /\ prober[r] # EmptyProber /\ Spend("restart")
    /\ prober' = [prober EXCEPT ![r] = EmptyProber]
    /\ UNCHANGED <<userVars, active, sts, podVars, ringVars, reaper, ready, pass>>

-----------------------------------------------------------------------------
(* A reconcile pass of region r.                                           *)

At(r, pc) == pass[r].pc = pc
Go(r, p) == pass' = [pass EXCEPT ![r] = p]
\* The deferred update of status.ready ends every pass.
End(r, b) ==
    /\ pass' = [pass EXCEPT ![r] = Idle]
    /\ ready' = [ready EXCEPT ![r] = b]

\* An update of the own prober; the client does not look at the status of the
\* answer, so one that is refused is not noticed.
Put(r, p) ==
    \/ prober' = [prober EXCEPT ![r] = p] /\ UNCHANGED budget
    \/ Spend("refused") /\ UNCHANGED prober

\* A prober answers from the time its region's first pass has created it.
Answers(s) == active[s] # "none"
\* Any region of those that are left to ask is next: the order is the spec's.
Asks(r, pc, s) == At(r, pc) /\ s \in pass[r].todo
Asked(r, pc) == At(r, pc) /\ pass[r].todo = {}
Answered(r, s) == [pass[r] EXCEPT !.todo = @ \ {s}]

\* createClusterAdminSecrets: a region that is ready is taken to be one with the
\* admin role; a request that fails counts as a region that is not ready.  The
\* pass ends, since the prober it creates is not up yet.
FirstPass(r) ==
    LET joining == \E s \in managed[r] : Answers(s) /\ prober[s].region IN
    /\ At(r, "idle") /\ r \in created /\ active[r] = "none"
    /\ \/ active' = [active EXCEPT ![r] = IF joining THEN "admin" ELSE "default"]
          /\ UNCHANGED budget
       \/ joining /\ Spend("lost")
          /\ active' = [active EXCEPT ![r] = "default"]
    /\ UNCHANGED <<userVars, prober, sts, podVars, ringVars, reaper, ready, pass>>

\* The spec is read, and UpdateDCs.
StartPass(r) ==
    /\ At(r, "idle") /\ r \in created /\ active[r] # "none"
    /\ Go(r, [Idle EXCEPT !.pc = "list", !.managed = managed[r]])
    /\ Put(r, [prober[r] EXCEPT !.dcs = TRUE])
    /\ UNCHANGED <<userVars, active, sts, podVars, ringVars, reaper, ready>>

\* The pods are listed and the seeds published; a seed that has no pod yet is
\* published as an empty address.  Without pods there is nothing to configure.
\* ErrPodNotScheduled ends the pass before that if a pod has no worker node, whose
\* address is its own; and, after it has read the other regions, if one has no IP.
PublishSeeds(r) ==
    LET list == {d \in DCsOf[r] : phase[d] # "absent"}
        seeds == {IF d \in list THEN d ELSE NoAddress : d \in DCsOf[r]}
    IN
    /\ At(r, "list")
    /\ \/ /\ list = {}
          /\ Go(r, [pass[r] EXCEPT !.pc = "order"])
          /\ UNCHANGED <<prober, ready, budget>>
       \/ /\ \E d \in list : phase[d] = "pending"
          /\ End(r, FALSE)
          /\ UNCHANGED <<prober, budget>> \/ Put(r, [prober[r] EXCEPT !.seeds = seeds])
       \/ /\ list # {} /\ \A d \in list : phase[d] # "pending"
          /\ Go(r, [pass[r] EXCEPT !.pc = "seeds", !.list = list, !.seeds = seeds, !.todo = pass[r].managed])
          /\ Put(r, [prober[r] EXCEPT !.seeds = seeds]) /\ UNCHANGED ready
    /\ UNCHANGED <<userVars, active, sts, podVars, ringVars, reaper>>

\* Mutant of HasSeeds: any answer is taken.
AnySeeds(s) == Answers(s)
HasSeeds(s) == Answers(s) /\ prober[s].seeds # {}

\* getSeedsList: no answer, or no seeds, ends the pass with ErrRegionNotReady.
GetSeeds(r, s) ==
    /\ Asks(r, "seeds", s)
    /\ IF HasSeeds(s)
       THEN Go(r, [Answered(r, s) EXCEPT !.seeds = @ \cup prober[s].seeds]) /\ UNCHANGED ready
       ELSE End(r, FALSE)
    /\ UNCHANGED <<userVars, active, prober, sts, podVars, ringVars, reaper, budget>>

\* getInitOrderInfo, first half: the DCs of the own region.
LocalStatus(r) ==
    /\ Asked(r, "seeds")
    /\ Go(r, [pass[r] EXCEPT !.pc = "order", !.todo = pass[r].managed, !.unready = unreadyDCs(r)])
    /\ UNCHANGED <<userVars, active, prober, sts, podVars, ringVars, reaper, ready, budget>>

\* getRemoteClusterRegionsStatuses
GetStatus(r, s) ==
    /\ Asks(r, "order", s)
    /\ IF Answers(s)
       THEN /\ Go(r, [Answered(r, s) EXCEPT !.status = IF prober[s].region THEN @ \cup {s} ELSE @])
            /\ UNCHANGED ready
       ELSE End(r, FALSE)
    /\ UNCHANGED <<userVars, active, prober, sts, podVars, ringVars, reaper, budget>>

\* The first region, in the order of the hosts, that is not ready.
getNextRegionToInit(r, p) == Least((p.managed \cup {r}) \ p.status)

\* Mutant of Goes: the region's own DCs are in order, the regions are not.
GoesWithoutTurn(r, p, d) == p.managed = {} \/ p.unready = {} \/ d = Least(p.unready)

\* getInitOrderInfo and pausePodInit: without managed regions, or when the
\* region is ready, no pod is paused; else those of the region's next DC go on,
\* if it is the region's turn.
Goes(r, p, d) ==
    \/ p.managed = {} \/ p.unready = {}
    \/ getNextRegionToInit(r, p) = r /\ d = Least(p.unready)

\* The config map, then reconcileCassandra.
WriteConfig(r) ==
    LET p == pass[r] IN
    /\ Asked(r, "order")
    /\ entry' = [d \in Nodes |->
          IF d \in p.list THEN [go |-> Goes(r, p, d), seeds |-> p.seeds] ELSE entry[d]]
    /\ sts' = sts \cup {r}
    /\ Go(r, [Idle EXCEPT !.pc = "dcs", !.managed = p.managed, !.todo = p.managed])
    /\ UNCHANGED <<userVars, active, prober, phase, started, joined, ringVars, reaper, ready, budget>>

\* getAllDCs
GetDCs(r, s) ==
    /\ Asks(r, "dcs", s)
    /\ IF Answers(s) /\ prober[s].dcs
       THEN Go(r, Answered(r, s)) /\ UNCHANGED ready
       ELSE End(r, FALSE)
    /\ UNCHANGED <<userVars, active, prober, sts, podVars, ringVars, reaper, budget>>

allDCs(r) == UNION {DCsOf[s] : s \in pass[r].managed \cup {r}}

\* Mutant of MakesRoom: only once all regions are ready.
RoomWhenReady(r) ==
    Login(r, "admin") /\ \A s \in pass[r].managed : prober[s].region
MakesRoom(r) == pass[r].managed # {} /\ Login(r, "admin")

\* reconcileSystemAuthIfReady: a region whose nodes take the admin role makes
\* room for the DCs of a new region, before the cluster as a whole is ready.
SystemAuthIfReady(r) ==
    /\ Asked(r, "dcs")
    /\ auth' = IF MakesRoom(r) THEN allDCs(r) ELSE auth
    /\ Go(r, [pass[r] EXCEPT !.pc = "check"])
    /\ UNCHANGED <<userVars, active, prober, sts, podVars, roles, reaper, ready, budget>>

\* clusterReady: the own region's state is published first.
ClusterReady(r) ==
    /\ At(r, "check")
    /\ Put(r, [prober[r] EXCEPT !.region = (unreadyDCs(r) = {})])
    /\ IF unreadyDCs(r) = {}
       THEN Go(r, [pass[r] EXCEPT !.pc = "regions", !.todo = pass[r].managed]) /\ UNCHANGED ready
       ELSE End(r, FALSE)
    /\ UNCHANGED <<userVars, active, sts, podVars, ringVars, reaper>>

\* unreadyRegions
GetRegionReady(r, s) ==
    /\ Asks(r, "regions", s)
    /\ IF Answers(s) /\ prober[s].region
       THEN Go(r, Answered(r, s)) /\ UNCHANGED ready
       ELSE End(r, FALSE)
    /\ UNCHANGED <<userVars, active, prober, sts, podVars, ringVars, reaper, budget>>

\* reconcileAdminRole: the admin role exists, or is created with the default one.
AdminRole(r) ==
    /\ Asked(r, "regions")
    /\ IF Login(r, "admin") \/ Login(r, "default")
       THEN /\ roles' = roles \cup {"admin"} /\ auth' = allDCs(r)
            /\ active' = [active EXCEPT ![r] = "admin"]
            /\ Go(r, [pass[r] EXCEPT !.pc = "reaper"]) /\ UNCHANGED ready
       ELSE End(r, TRUE) /\ UNCHANGED <<ringVars, active>>
    /\ UNCHANGED <<userVars, prober, sts, podVars, reaper, budget>>

firstRegion(r) == Least(pass[r].managed \cup {r})

\* Mutant of FirstReaperReady: no region waits.
NoWait(r) == firstRegion(r) \in Regions
FirstReaperReady(r) ==
    \/ firstRegion(r) = r
    \/ Answers(firstRegion(r)) /\ prober[firstRegion(r)].reaper

\* waitForFirstRegionReaper
FirstRegionReaper(r) ==
    /\ At(r, "reaper")
    /\ IF FirstReaperReady(r)
       THEN Go(r, [pass[r] EXCEPT !.pc = "deploy"]) /\ UNCHANGED ready
       ELSE End(r, TRUE)
    /\ UNCHANGED <<userVars, active, prober, sts, podVars, ringVars, reaper, budget>>

\* reconcileReaper, IsRunning and UpdateReaperStatus.  The pass ends when Reaper
\* is not up, with or without publishing it.
DeployReaper(r) ==
    /\ At(r, "deploy")
    /\ reaper' = IF reaper[r] = "none" THEN [reaper EXCEPT ![r] = "starting"] ELSE reaper
    /\ IF reaper[r] = "up"
       THEN /\ Put(r, [prober[r] EXCEPT !.reaper = TRUE])
            /\ Go(r, [pass[r] EXCEPT !.pc = "drop"]) /\ UNCHANGED ready
       ELSE /\ \/ Put(r, [prober[r] EXCEPT !.reaper = FALSE])
               \/ UNCHANGED <<prober, budget>>
            /\ End(r, TRUE)
    /\ UNCHANGED <<userVars, active, sts, podVars, ringVars>>

\* removeDefaultRoleIfExists ends a pass that got this far.
DropDefaultRole(r) ==
    /\ At(r, "drop")
    /\ roles' = IF Login(r, "default") THEN roles \ {"default"} ELSE roles
    /\ End(r, TRUE)
    /\ UNCHANGED <<userVars, active, prober, sts, podVars, auth, reaper, budget>>

\* A request to a prober, the own one or another region's, that fails.
RequestFails(r) ==
    /\ pass[r].pc \in {"list", "seeds", "order", "dcs", "check", "regions", "reaper", "deploy"}
    /\ Spend("lost") /\ End(r, pass[r].pc \in {"reaper", "deploy"})
    /\ UNCHANGED <<userVars, active, prober, sts, podVars, ringVars, reaper>>

\* The operator is restarted in the middle of a pass.
CrashOperator(r) ==
    /\ ~At(r, "idle") /\ Spend("lost")
    /\ pass' = [pass EXCEPT ![r] = Idle]
    /\ UNCHANGED <<userVars, active, prober, sts, podVars, ringVars, reaper, ready>>

-----------------------------------------------------------------------------
PassStep(r) ==
    \/ FirstPass(r) \/ StartPass(r) \/ PublishSeeds(r) \/ LocalStatus(r) \/ WriteConfig(r)
    \/ SystemAuthIfReady(r) \/ ClusterReady(r) \/ AdminRole(r) \/ FirstRegionReaper(r)
    \/ DeployReaper(r) \/ DropDefaultRole(r)
    \/ \E s \in Regions : GetSeeds(r, s) \/ GetStatus(r, s) \/ GetDCs(r, s) \/ GetRegionReady(r, s)

NodeStep(d) == CreatePod(d) \/ SchedulePod(d) \/ StartNode(d) \/ JoinRing(d)
UserStep(r) == CreateRegion(r) \/ Connect(r)

Fault ==
    \/ \E d \in Nodes : ReplacePod(d)
    \/ \E r \in Regions : RestartProber(r) \/ RequestFails(r) \/ CrashOperator(r)

Environment ==
    \/ \E r \in Regions : UserStep(r) \/ ReaperStarts(r)
    \/ \E d \in Nodes : NodeStep(d)

Next == (\E r \in Regions : PassStep(r)) \/ Environment \/ Fault

Spec == Init /\ [][Next]_vars

\* Every operator goes on with its passes: one that ends is queued again.  The
\* users complete what they began, pods are created, nodes and Reaper start; each
\* of these steps happens a bounded number of times, so that one condition for
\* all of them leaves none out.
Fairness ==
    /\ \A r \in Regions : WF_vars(PassStep(r))
    /\ WF_vars(Environment)

FairSpec == Spec /\ Fairness

-----------------------------------------------------------------------------
(* Correctness.                                                            *)

FirstStart(d) == d \notin started /\ d \in started'

\* The first node founds the ring; every other one is given the address of a node
\* that has joined it, whatever the passes that read the seeds and the statuses
\* of other regions missed meanwhile.  A node with no such seed founds a ring of
\* its own.
OneRing ==
    [][\A d \in Nodes : FirstStart(d) /\ started # {} => entry[d].seeds \cap joined # {}]_vars

\* A region starts its first nodes when all nodes of the regions before it have
\* joined the ring (docs/docs/multi-region-cluster-configuration.md: "Regions
\* initialize one at a time according to the ingress domain names'
\* lexicographical ordering").
RegionsInOrder ==
    [][\A d \in Nodes : FirstStart(d) =>
          \A s \in Regions : s < RegionOf(d) => DCsOf[s] \subseteq joined]_vars

\* While no Reaper has come up yet only one region has one: two that start at
\* once would both migrate the schema of their common keyspace.
OneMigration ==
    Cardinality({r \in Regions : reaper[r] = "starting"}) > 1 =>
        \E r \in Regions : reaper[r] = "up"

\* Every region's CassandraCluster becomes ready and stays so, with its Reaper,
\* and the default role is gone.
AllReady ==
    /\ roles = {"admin"}
    /\ \A r \in Regions : ready[r] /\ reaper[r] = "up" /\ unreadyDCs(r) = {}
RegionsReady == <>[]AllReady

\* The same, if no region is left with credentials Cassandra does not have.
CredentialsKept == \A r \in Regions : active[r] = "none" \/ active[r] \in roles
RegionsSettle == []CredentialsKept => <>[]AllReady
=============================================================================

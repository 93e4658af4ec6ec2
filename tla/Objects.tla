------------------------------ MODULE Objects ------------------------------
(***************************************************************************)
(* The Kubernetes objects a pass of the operator keeps (controller.go,     *)
(* reconcileWithContext), in the order in which it comes to them: RBAC,    *)
(* config maps, service monitors, prober, statefulsets, Reaper, network    *)
(* policies.  An object's content is known by what it is computed from:    *)
(* the labels of the CassandraCluster, images, configuration, the parts of *)
(* the spec that shape it, and addresses.                                  *)
(*                                                                         *)
(* One statefulset and its pods stand for those of every DC; Reaper has a  *)
(* deployment for the first DC and one for any other.  TLS, credentials,   *)
(* scaling, keyspaces, roles and schedules, on which the pass also works,  *)
(* are modules of their own.                                               *)
(***************************************************************************)
EXTENDS Integers, Sequences, FiniteSets

CONSTANTS
    Hosts,       \* the worker nodes the pods may run on
    Remote,      \* the addresses that another region's prober answers with
    DefaultImage, \* the image of each component in the operator's configuration
    Scenarios    \* what a behaviour starts with: the specs a user applies one after
                 \* the other, and the budget

Components == {"cassandra", "icarus", "prober", "reaper"}
Features == {"monitoring", "policies", "hostPort", "ingress", "regions", "extra",
             "ingressRules", "persistence"}
Charges == {"fault", "delete", "tamper", "move"}
Specs == [labels : 0..1, images : [Components -> 0..2], agent : {"", "tlp", "datastax"},
          config : 1..2, monitor : {"off", "own", "other", "missing"}, on : SUBSET Features]

CassandraRBAC == {"role", "roleBinding", "serviceAccount"}
ProberRBAC == {"proberServiceAccount", "proberRole", "proberRoleBinding"}
Reapers == {"reaper1", "reaper2"}
Policies == {"clusterPolicy", "hostPortPolicy", "regionsPolicy", "hostPortReaperPolicy",
             "extraRulesPolicy", "extraPrometheusPolicy", "extraIPsPolicy", "proberPolicy",
             "reaperPolicy"}

\* The objects in the order of the pass, and what it waits for in between.
Order == <<
    "cleanup", "role", "roleBinding", "serviceAccount", "authConfig", "maintenanceCM",
    "prometheusCM", "collectdCM", "cassandraMonitor", "proberServiceAccount", "proberRole",
    "proberRoleBinding", "prober", "proberService", "proberMonitor", "ingress",
    "proberReady", "cassandraCM", "podsCM", "dcService", "sts", "clusterReady", "shiroCM",
    "reaper1", "reaperService", "reaperMonitor", "firstReaper", "reaper2", "reaperRunning",
    "clusterPolicy", "hostPortPolicy", "regionsPolicy", "hostPortReaperPolicy",
    "extraRulesPolicy", "extraPrometheusPolicy", "extraIPsPolicy", "proberPolicy",
    "reaperPolicy">>
Monitors == {"cassandraMonitor", "proberMonitor", "reaperMonitor"}
Waits == {"cleanup", "proberReady", "clusterReady", "firstReaper", "reaperRunning"}
Owned == {Order[i] : i \in 1..Len(Order)} \ (Monitors \cup Waits)

Addresses == Hosts \cup Remote \cup {"reaperHost"}
NoContent == [labels |-> 0, images |-> <<>>, config |-> 0, parts |-> {}, addrs |-> {}]
NoReaper == [run |-> NoContent, next |-> NoContent]

ASSUME ObjectsAssumption ==
    /\ IsFiniteSet(Hosts) /\ Hosts # {} /\ DefaultImage \in 1..2
    /\ Scenarios # {}
    /\ Scenarios \subseteq [specs : Seq(Specs) \ {<<>>}, budget : [Charges -> Nat]]

VARIABLES
    scenario,    \* what the behaviour started with
    edition,     \* how many of its specs the user has applied
    spec,        \* the spec, as it is stored
    status,      \* Ready in the status
    objects,     \* the objects that exist, by name, with their content
    monitors,    \* the service monitors that exist
    pods,        \* the template the Cassandra pods run, the configuration they have
                 \* loaded, whether they are ready, and their host
    prober,      \* the template the prober runs
    published,   \* the addresses the prober tells other regions
    reapers,     \* the template of each Reaper that runs, and of one that starts
    schema,      \* the image that has last migrated Reaper's schema
    pos, cur,    \* where the pass is, and what it has read
    budget       \* faults that are left

userVars == <<scenario, edition, spec>>
storeVars == <<objects, monitors>>
runVars == <<pods, prober, published, reapers, schema>>
passVars == <<pos, cur>>
vars == <<userVars, status, storeVars, runVars, passVars, budget>>

Spend(b) == budget[b] > 0 /\ budget' = [budget EXCEPT ![b] = @ - 1]
NoPass == [spec |-> scenario.specs[1], edition |-> 0, status |-> FALSE, ready |-> FALSE,
           hosts |-> {}]

Init ==
    /\ scenario \in Scenarios /\ budget = scenario.budget
    /\ edition = 1 /\ spec = scenario.specs[1] /\ status = FALSE
    /\ objects = <<>> /\ monitors = {}
    /\ pods = [template |-> NoContent, config |-> 0, ready |-> FALSE, host |-> CHOOSE h \in Hosts : TRUE]
    /\ prober = NoContent /\ published = {}
    /\ reapers = [r \in Reapers |-> NoReaper] /\ schema = 0
    /\ pos = 0 /\ cur = NoPass

Exists(o) == o \in DOMAIN objects

-----------------------------------------------------------------------------
(* What the spec asks for.                                                 *)

\* Missing images.
Given(images, c) == [images EXCEPT ![c] = IF @ = 0 THEN DefaultImage ELSE @]
defaultReaper(images) == Given(images, "reaper")
defaultProber(images) == Given(images, "prober")
defaultIcarus(images) == Given(images, "icarus")
defaultCassandra(images) == Given(images, "cassandra")

\* defaultMonitoring.
defaultMonitoring(s) ==
    IF "monitoring" \in s.on /\ s.agent = "" THEN [s EXCEPT !.agent = "tlp"] ELSE s

defaultCassandraCluster(s) ==
    defaultMonitoring(
        [s EXCEPT !.images = defaultReaper(defaultProber(defaultIcarus(defaultCassandra(@))))])

\* The webhook.
validateImmutableFields(s, old) == ("persistence" \in s.on) = ("persistence" \in old.on)
validateIngress(s) ==
    /\ "ingress" \in s.on => "hostPort" \in s.on
    /\ "regions" \in s.on => "ingress" \in s.on

\* CombinedComponentLabels: an object has the labels of the CassandraCluster (1: there
\* are some).
Labelled(s) == [NoContent EXCEPT !.labels = s.labels, !.images = <<0>>]

cassandraConfigMap(s) == [Labelled(s) EXCEPT !.config = s.config]

\* The parts of the pod templates.
cassandraContainer(s) == s.images["cassandra"]
icarusContainer(s) == s.images["icarus"]
proberContainer(s) == s.images["prober"]
reaperContainer(s) == s.images["reaper"]
cassandraContainerPorts(s) == s.on \cap {"hostPort"}
getJavaAgent(s) == IF "monitoring" \in s.on THEN {s.agent} ELSE {}
cassandraVolumeClaims(s) == s.on \cap {"persistence"}

\* With host ports Reaper is told the addresses of the Cassandra pods.
reaperEnvironment(s, hosts) == IF "hostPort" \in s.on THEN hosts ELSE {}

\* The configuration is in the template as a checksum, to restart the pods.
cassandraStatefulSet(s) ==
    [Labelled(s) EXCEPT
        !.images = <<cassandraContainer(s), icarusContainer(s)>>, !.config = s.config,
        !.parts = cassandraContainerPorts(s) \cup getJavaAgent(s) \cup cassandraVolumeClaims(s)]
reconcileDCService(s) == [Labelled(s) EXCEPT !.parts = getJavaAgent(s)]

\* The pods of the prober and of Reaper do not have the labels of the CassandraCluster.
proberDeployment(s) == [Labelled(s) EXCEPT !.images = <<proberContainer(s)>>]
reaperDeployment(s, hosts) ==
    [NoContent EXCEPT !.images = <<reaperContainer(s)>>, !.addrs = reaperEnvironment(s, hosts)]
PodLabels == 0

\* What the pods of a workload are made from.
Template(c) == [c EXCEPT !.labels = PodLabels]

\* What the volumes of a workload refer to, and its service account.
cassandraVolumes(parts) ==
    {"authConfig", "maintenanceCM", "cassandraCM", "podsCM"}
        \cup {"prometheusCM" : x \in parts \cap {"tlp"}}
        \cup {"collectdCM" : x \in parts \cap {"datastax"}}
reaperVolumes == {"shiroCM", "cassandraCM"}
Needs(o) ==
    CASE o = "sts" -> CassandraRBAC \cup cassandraVolumes(objects[o].parts)
      [] o = "prober" -> ProberRBAC
      [] o \in Reapers -> reaperVolumes
Startable(o) == Exists(o) /\ Needs(o) \subseteq DOMAIN objects

reconcilePrometheusConfigMap(s) == "monitoring" \in s.on

\* Mutant of reconcileCollectdConfigMap: the agent it is made for is another one.
CollectdForOthers(s) == "monitoring" \in s.on /\ s.agent # "datastax"

reconcileCollectdConfigMap(s) == "monitoring" \in s.on /\ s.agent = "datastax"
reconcileProberIngress(s) == "ingress" \in s.on
cassandraClusterHostportPolicy(s) == "hostPort" \in s.on
cassandraClusterHostPortReaperPolicy(s) == "hostPort" \in s.on
cassandraClusterExternalManagedRegionsPolicy(s) == {"hostPort", "regions"} \subseteq s.on
cassandraClusterExtraRulesPolicy(s) == "extra" \in s.on
cassandraClusterExtraIPsPolicy(s) == "extra" \in s.on
cassandraClusterExtraPrometheusRulesPolicy(s) == {"extra", "monitoring"} \subseteq s.on
reconcileProberNetworkPolicies(s) == "ingressRules" \in s.on

Wanted(o, s) ==
    /\ CASE o = "prometheusCM" -> reconcilePrometheusConfigMap(s)
         [] o = "collectdCM" -> reconcileCollectdConfigMap(s)
         [] o = "ingress" -> reconcileProberIngress(s)
         [] o = "hostPortPolicy" -> cassandraClusterHostportPolicy(s)
         [] o = "hostPortReaperPolicy" -> cassandraClusterHostPortReaperPolicy(s)
         [] o = "regionsPolicy" -> cassandraClusterExternalManagedRegionsPolicy(s)
         [] o = "extraRulesPolicy" -> cassandraClusterExtraRulesPolicy(s)
         [] o = "extraIPsPolicy" -> cassandraClusterExtraIPsPolicy(s)
         [] o = "extraPrometheusPolicy" -> cassandraClusterExtraPrometheusRulesPolicy(s)
         [] o = "proberPolicy" -> reconcileProberNetworkPolicies(s)
         [] OTHER -> TRUE
    /\ o \in Policies => "policies" \in s.on

\* The addresses of a policy, if the other region has answered with "remote".
getExternalReaperIPs(s, remote) == {"reaperHost"} \cup (IF "regions" \in s.on THEN remote ELSE {})
generatePeers(o, s, hosts, remote) ==
    CASE o = "hostPortPolicy" -> hosts
      [] o = "regionsPolicy" -> remote
      [] o = "hostPortReaperPolicy" -> getExternalReaperIPs(s, remote)
      [] OTHER -> {}

\* The policy all others start from.
cassandraClusterPolicy(s) == Labelled(s)

\* The rules for Prometheus and for the ingress.
reconcileReaperNetworkPolicies(s) == IF s.monitor # "off" THEN s.on \cap {"extra"} ELSE {}
Rules(o, s) ==
    CASE o = "reaperPolicy" -> reconcileReaperNetworkPolicies(s)
      [] o = "proberPolicy" -> reconcileReaperNetworkPolicies(s) \cup (s.on \cap {"hostPort"})
      [] o = "extraPrometheusPolicy" -> getJavaAgent(s)
      [] OTHER -> {}

Desired(o, s, hosts, remote) ==
    CASE o = "cassandraCM" -> cassandraConfigMap(s)
      [] o = "sts" -> cassandraStatefulSet(s)
      [] o = "prober" -> proberDeployment(s)
      [] o \in Reapers -> reaperDeployment(s, hosts)
      [] o = "dcService" -> reconcileDCService(s)
      [] o \in Policies ->
            [cassandraClusterPolicy(s) EXCEPT !.addrs = generatePeers(o, s, hosts, remote),
                                              !.parts = Rules(o, s)]
      [] OTHER -> Labelled(s)

-----------------------------------------------------------------------------
(* The pass.                                                               *)

At(l) == pos > 0 /\ Order[pos] = l

\* The end of a pass, at which the status is written unless the cluster has been edited.
\* What the cleanup of the policies finds is not followed by it.
EndPass(ready) ==
    /\ pos' = 0 /\ cur' = NoPass
    /\ status' = IF ~At("cleanup") /\ ready # cur.status /\ cur.edition = edition
                 THEN ready ELSE status

Advance ==
    IF pos = Len(Order) THEN EndPass(cur.ready)
    ELSE pos' = pos + 1 /\ UNCHANGED <<cur, status>>

\* A call fails, or the operator restarts and the status stays as it is.
Abort ==
    /\ pos > 0 /\ Spend("fault")
    /\ EndPass(cur.ready) \/ (pos' = 0 /\ cur' = NoPass /\ UNCHANGED status)
    /\ UNCHANGED <<userVars, storeVars, runVars>>

Begin ==
    /\ pos = 0 /\ pos' = 1
    /\ cur' = [NoPass EXCEPT !.spec = defaultCassandraCluster(spec), !.edition = edition,
                             !.status = status]
    /\ UNCHANGED <<userVars, status, storeVars, runVars, budget>>

Without(S) == [o \in DOMAIN objects \ S |-> objects[o]]

\* Mutant of cleanupNetworkPolicies: policies are left when they are disabled.
NoCleanup == At("cleanup") /\ Advance /\ UNCHANGED <<userVars, storeVars, runVars, budget>>

\* cleanupNetworkPolicies; a deletion that fails ends the pass, after any number of others.
cleanupNetworkPolicies ==
    /\ At("cleanup")
    /\ IF "policies" \in cur.spec.on
       THEN UNCHANGED <<objects, budget>> /\ Advance
       ELSE \/ objects' = Without(Policies) /\ UNCHANGED budget /\ Advance
            \/ /\ Spend("fault") /\ EndPass(FALSE)
               /\ \E S \in SUBSET (Policies \cap DOMAIN objects) : objects' = Without(S)
    /\ UNCHANGED <<userVars, monitors, runVars>>

\* Mutant of EqualObjects: labels are what is compared.
EqualLabels(a, d) == a.labels = d.labels

\* comparer.go.
EqualObjects(a, d) == a = d

\* An object that is missing is created, one that differs is updated.
\* reconcileMaintenanceConfigMap only creates.
Applied(o, d) ==
    IF Exists(o) /\ (o = "maintenanceCM" \/ EqualObjects(objects[o], d))
    THEN objects ELSE [x \in DOMAIN objects \cup {o} |-> IF x = o THEN d ELSE objects[x]]

\* The API server takes no other volume claims in a statefulset.
Rejected(o, d) ==
    /\ o = "sts" /\ Exists(o)
    /\ ("persistence" \in objects[o].parts) # ("persistence" \in d.parts)

\* getCassandraPods, before the pods' config map.
Snapshot == IF pods.template = NoContent THEN {} ELSE {pods.host}

\* The other region's prober answers or not (getExternalCassandraIPs, getExternalReaperIPs).
Answer(o, r) ==
    \/ r = Remote /\ UNCHANGED budget
    \/ o \in {"regionsPolicy", "hostPortReaperPolicy"} /\ r = {} /\ Remote # {} /\ Spend("fault")

ReconcileObject(o) ==
    /\ At(o) /\ o \in Owned
    /\ IF ~Wanted(o, cur.spec)
       THEN Advance /\ UNCHANGED <<objects, published, budget>>
       ELSE \E r \in {Remote, {}} :
              LET d == Desired(o, cur.spec, cur.hosts, r) IN
              /\ Answer(o, r)
              /\ IF Rejected(o, d) \/ (o = "hostPortPolicy" /\ cur.hosts = {})
                 THEN EndPass(cur.ready) /\ UNCHANGED <<objects, published>>
                 ELSE /\ objects' = Applied(o, d)
                      /\ published' = IF o = "hostPortPolicy" THEN cur.hosts ELSE published
                      /\ IF o = "podsCM"
                         THEN pos' = pos + 1 /\ cur' = [cur EXCEPT !.hosts = Snapshot] /\ UNCHANGED status
                         ELSE Advance
    /\ UNCHANGED <<userVars, monitors, pods, prober, reapers, schema>>

\* Whether a component has a service monitor, and the namespace of it.
MonitorWanted(m, s) == s.monitor # "off" /\ (m = "cassandraMonitor" => "monitoring" \in s.on)

\* The list call of removeServiceMonitors: by the labels the cluster has now.
Listed(m, s) == {x \in monitors : x.of = m /\ (s.labels = 0 \/ x.labels = s.labels)}

\* Mutant of removeOldServiceMonitors: those in other namespaces are left.
KeepOld(m, s) == IF MonitorWanted(m, s) THEN monitors ELSE monitors \ Listed(m, s)

\* removeServiceMonitors and removeOldServiceMonitors.
removeOldServiceMonitors(m, s) ==
    monitors \ {x \in Listed(m, s) : MonitorWanted(m, s) => x.ns # s.monitor}

createServiceMonitor(m, s) == [of |-> m, ns |-> s.monitor, labels |-> s.labels]

\* applyServiceMonitor, unless the namespace does not exist.
applyServiceMonitor(m, s, old) ==
    IF ~MonitorWanted(m, s) \/ s.monitor = "missing" THEN old
    ELSE {x \in old : ~(x.of = m /\ x.ns = s.monitor)}
           \cup {createServiceMonitor(m, s)}

ReconcileMonitor(m) ==
    LET old == removeOldServiceMonitors(m, cur.spec) IN
    /\ At(m)
    /\ \/ monitors' = applyServiceMonitor(m, cur.spec, old) /\ UNCHANGED budget /\ Advance
       \/ old # monitors /\ monitors' = old /\ Spend("fault") /\ EndPass(cur.ready)
    /\ UNCHANGED <<userVars, objects, runVars>>

reconcileCassandraServiceMonitor == ReconcileMonitor("cassandraMonitor")
reconcileProberServiceMonitor == ReconcileMonitor("proberMonitor")
reconcileReaperServiceMonitor == ReconcileMonitor("reaperMonitor")

\* Wait until something is so; if it is not, the pass ends and is tried again.
WaitFor(l, cond, ready) ==
    /\ At(l)
    /\ IF cond
       THEN pos' = pos + 1 /\ cur' = [cur EXCEPT !.ready = ready] /\ UNCHANGED status
       ELSE EndPass(FALSE)
    /\ UNCHANGED <<userVars, storeVars, runVars, budget>>

\* The prober is reached through a service, which selects pods by the labels that it has
\* itself.
reconcileProberService == Exists("proberService") /\ objects["proberService"].labels = PodLabels
Reachable == prober # NoContent /\ reconcileProberService

ProberReady == WaitFor("proberReady", Reachable, FALSE)
clusterReady == WaitFor("clusterReady", pods.ready, TRUE)

\* Mutant of FirstReaperReady: the others are not held back.
FirstReaperThere == Exists("reaper1")

\* reconcileReaper: ReadyReplicas of the first deployment.
FirstReaperReady == reapers["reaper1"].run # NoContent

\* The cluster stays ready while Reaper is waited for.
WaitForReaper(l, cond) ==
    /\ At(l) /\ (IF cond THEN Advance ELSE EndPass(cur.ready))
    /\ UNCHANGED <<userVars, storeVars, runVars, budget>>
WaitForFirstReaper == WaitForReaper("firstReaper", FirstReaperReady)
ReaperIsRunning ==
    WaitForReaper("reaperRunning", Exists("reaperService") /\ \E r \in Reapers : reapers[r].run # NoContent)

Pass ==
    \/ cleanupNetworkPolicies \/ ProberReady \/ clusterReady
    \/ WaitForFirstReaper \/ ReaperIsRunning
    \/ \E o \in Owned : ReconcileObject(o)
    \/ reconcileCassandraServiceMonitor \/ reconcileProberServiceMonitor
    \/ reconcileReaperServiceMonitor

-----------------------------------------------------------------------------
(* Kubernetes and the user (external).                                     *)

RollPods ==
    /\ Startable("sts") /\ Template(objects["sts"]) # pods.template
    /\ pods' = [pods EXCEPT !.template = Template(objects["sts"]), !.ready = FALSE,
                            !.config = objects["cassandraCM"].config]
    /\ UNCHANGED <<userVars, status, storeVars, prober, published, reapers, schema, passVars, budget>>

\* The readiness probe asks the prober.
ReadinessProbe ==
    /\ pods.template # NoContent /\ pods.ready # Reachable
    /\ pods' = [pods EXCEPT !.ready = Reachable]
    /\ UNCHANGED <<userVars, status, storeVars, prober, published, reapers, schema, passVars, budget>>

\* A worker node fails and the pods start on another one.
PodsMove ==
    /\ pods.template # NoContent /\ Startable("sts") /\ Spend("move")
    /\ \E h \in Hosts \ {pods.host} :
          pods' = [pods EXCEPT !.host = h, !.ready = FALSE, !.config = objects["cassandraCM"].config]
    /\ UNCHANGED <<userVars, status, storeVars, prober, published, reapers, schema, passVars>>

\* A prober starts knowing no addresses.
RollProber ==
    /\ Startable("prober") /\ Template(objects["prober"]) # prober
    /\ prober' = Template(objects["prober"]) /\ published' = {}
    /\ UNCHANGED <<userVars, status, storeVars, pods, reapers, schema, passVars, budget>>

\* A Reaper of a new template starts while the earlier one runs.
StartReaper(r) ==
    /\ Startable(r) /\ objects[r] # reapers[r].next
    /\ reapers' = [reapers EXCEPT ![r].next = objects[r]]
    /\ UNCHANGED <<userVars, status, storeVars, pods, prober, published, schema, passVars, budget>>

\* It has migrated the schema, if it had to, and is ready.
ReaperStarts(r) ==
    /\ reapers[r].next # reapers[r].run
    /\ reapers' = [reapers EXCEPT ![r].run = reapers[r].next]
    /\ schema' = reapers[r].next.images[1]
    /\ UNCHANGED <<userVars, status, storeVars, pods, prober, published, passVars, budget>>

\* An object is deleted, and with it the pods that belong to it.
Delete(o) ==
    /\ Exists(o) /\ Spend("delete") /\ objects' = Without({o})
    /\ pods' = IF o = "sts" THEN [pods EXCEPT !.template = NoContent, !.ready = FALSE] ELSE pods
    /\ prober' = IF o = "prober" THEN NoContent ELSE prober
    /\ reapers' = [r \in Reapers |-> IF o = r THEN NoReaper ELSE reapers[r]]
    /\ UNCHANGED <<userVars, status, monitors, published, schema, passVars>>

\* An object is changed by someone else.
Tamper(o) ==
    /\ Exists(o) /\ o \notin Reapers /\ Spend("tamper")
    /\ objects' = [objects EXCEPT ![o].images = <<2>> \o @]
    /\ UNCHANGED <<userVars, status, monitors, runVars, passVars>>

\* The user applies the next spec, which the webhook may refuse.
ValidateUpdate(s, old) == validateImmutableFields(s, old) /\ validateIngress(s)
Edit ==
    /\ edition < Len(scenario.specs) /\ edition' = edition + 1
    /\ LET s == scenario.specs[edition + 1] IN
       spec' = IF ValidateUpdate(s, spec) THEN s ELSE spec
    /\ UNCHANGED <<scenario, status, storeVars, runVars, passVars, budget>>

-----------------------------------------------------------------------------
Next ==
    \/ Begin \/ Pass \/ Abort \/ Edit
    \/ RollPods \/ ReadinessProbe \/ PodsMove \/ RollProber
    \/ \E r \in Reapers : StartReaper(r) \/ ReaperStarts(r)
    \/ \E o \in Owned : Delete(o) \/ Tamper(o)

\* A pass that ends is queued again, and Kubernetes starts what can be started.
Fairness ==
    /\ WF_vars(Begin \/ Pass)
    /\ WF_vars(RollPods) /\ WF_vars(ReadinessProbe) /\ WF_vars(RollProber)
    /\ \A r \in Reapers : WF_vars(StartReaper(r)) /\ WF_vars(ReaperStarts(r))

Spec == Init /\ [][Next]_vars
FairSpec == Spec /\ Fairness

-----------------------------------------------------------------------------
(* Properties.                                                             *)

\* controller.go, "so that the pods won't fail trying to mount an empty configmap": unless
\* someone deletes objects, a workload never exists before what its pods need, whichever
\* call fails and however the spec changes.
NeedsFirst ==
    budget["delete"] = scenario.budget["delete"] =>
        \A w \in {"sts", "prober"} \cup Reapers :
            Exists(w) => Needs(w) \subseteq DOMAIN objects

Starting == {r \in Reapers : reapers[r].next # reapers[r].run}

\* reaper.go, "Wait for 1st reaper deployment to finish": when a cluster is deployed, no
\* second Reaper starts before one has set up the schema, whatever is deleted or fails.
FirstMigration == schema = 0 => Cardinality(Starting) <= 1

\* The prober's service selects its pods by the labels of the CassandraCluster too, which
\* they do not have: with labels the prober is not reached and no pod becomes ready.
Labelless == spec.labels = 0
Last == defaultCassandraCluster(spec)

\* In the end every object the spec asks for exists with the content that follows from
\* it, the pods run with that template and the configuration it was computed with, and
\* the status says Ready.
ObjectsSettle ==
    <>[](Labelless =>
         /\ \A o \in Owned \ Policies : Wanted(o, Last) =>
               /\ Exists(o)
               /\ o # "maintenanceCM" => objects[o] = Desired(o, Last, {pods.host}, Remote)
         /\ pods.template = Template(objects["sts"]) /\ pods.config = Last.config /\ pods.ready
         /\ prober = Template(objects["prober"]) /\ \A r \in Reapers : reapers[r].run = objects[r]
         /\ status)

\* In the end the policies the spec asks for are there, with the addresses of the nodes
\* the pods run on and those of the other region; none is there if they are disabled;
\* and other regions are told those addresses.
PoliciesSettle ==
    <>[](Labelless =>
         /\ \A o \in Policies : Wanted(o, Last) =>
               Exists(o) /\ objects[o] = Desired(o, Last, {pods.host}, Remote)
         /\ "policies" \notin Last.on => Policies \cap DOMAIN objects = {}
         /\ {"policies", "hostPort"} \subseteq Last.on => published = {pods.host})

\* cassandra_service_monitor.go, "Deletes ServiceMonitors that are no longer needed": in
\* the end each component has the service monitor that is asked for, and no other.
MonitorsSettle ==
    <>[](Labelless =>
         monitors = {createServiceMonitor(m, Last) :
                        m \in {n \in Monitors : MonitorWanted(n, Last) /\ Last.monitor # "missing"}})
=============================================================================

# A formal model of the Cassandra operator

This directory specifies the control logic of the Cassandra operator in TLA+, checks it with
TLC on small instances and proves most of its safety properties with TLAPS for clusters of any
size. The specifications are written from the Go code under `src/`; the map in
`PROJECT.json` names the lines behind every definition.

## 1. The system

The operator is a Kubernetes controller. A user describes a cluster in a `CassandraCluster`;
the operator creates statefulsets (one per data centre, DC), a prober, Reaper deployments,
secrets and config maps, and drives the Cassandra nodes through CQL, through JMX (Jolokia in the
prober's pod) and through the HTTP interfaces of Reaper and Icarus. One goroutine reconciles one
cluster at a time. A *pass* (`reconcileWithContext`) reads the spec and a list of pods once, then
makes some thirty calls in a fixed order; each may fail and end the pass, and everything outside
(user, nodes, kubelet, statefulset controller, job goroutines, prober) moves between any two of
them.

### Components

| component | state | operations | talks to | hard because |
|---|---|---|---|---|
| reconcile loop (`controller.go`) | the request queue; one pass's snapshot | `Reconcile` | everything | early returns with and without a requeue; snapshots age |
| scaling (`cassandra_scaling.go`) | statefulset replicas | scale up, decommission pod by pod, remove a DC | statefulsets, JMX, CQL | several passes per pod; answers of different moments; lost requests |
| job manager (`jobs/manager.go`) | `jobsList`, goroutines | `Run`, `Exists`, `IsRunning`, `RemoveJob` | nodes, request queue | concurrent goroutine, lost at a restart |
| node control (`nodectl/`) | none | operation mode, decommission, cluster view | nodes | fails for dead and for slow nodes alike |
| ordered start (`cassandra_pods_config.go`, `cassandra_pod_labels.go`, init container) | pods config map, seed labels | pause or release each pod | pods, statefulset status | pods read a volume that lags; readiness lags; labels come a pass late |
| admin credentials (`admin_auth.go`, `role_admin.go`, `default_role.go`) | base, active and auth config secret; roles | bootstrap, change, drop the default role | Cassandra, prober | immutable secret is deleted and created; restart in between; propagation |
| prober (`prober/`) | node states, readiness, seeds, DCs, credentials | health check, polls, region API | nodes, operators of all regions | no locks; overlapping polls; late events |
| order among regions (`getInitOrderInfo`, `unreadyRegions`, `waitForFirstRegionReaper`) | the probers' region data | pause a region, wait for its Reaper | other regions' probers | stale answers, mutual waiting |
| system keyspaces (`keyspaces.go`, `reaper_keyspace.go`) | replication options | alter, then repair | Cassandra, Reaper | the repair is not retried |
| Reaper (`reaper.go`, `repair_schedules.go`, `reaper/`) | deployments, runs, schedules | deploy, create and start runs, reconcile schedules | Reaper | two requests per run; remove and create |
| user roles, CQL ConfigMaps (`roles.go`, `cql_configmaps.go`) | checksum annotations | apply statements, store the checksum | Cassandra | applied again after a failed update |
| maintenance (`maintenance.go`) | config map, status | one pod per pass in or out | pods | one stuck pod holds back the others |
| backup and restore (`cassandrabackup/`, `cassandrarestore/`, `icarus/`) | status of the two resources | request, follow, retry with a changed configuration | Icarus | requests are matched by tag |
| TLS (`cassandra_tls.go`, `certs/`) | CA and node secrets, a checksum noted on the CA secret | generate, notice a changed CA, restart pods | secrets, pods, prober, Reaper | the cache lags; pods restart at any time; data and checksum are two writes |
| objects (`controller.go`, prober, Reaper, statefulsets, policies, monitors) | Kubernetes objects computed from the spec | create, update, clean up, wait | API server, kubelet | one call of many fails; order; addresses age |
| webhooks, defaults | none | validate, fill in | API server | defaults are computed in every pass and never stored |

### What makes each part correct

* Scaling: no node loses its pod before it has left the ring; a DC leaves only when no keyspace
  needs it and takes its service and reaper along; every scaling ends, although the pass returns
  without a requeue while one is in progress.
* Ordered start: nodes start for the first time one at a time, seeds and earlier DCs first, and
  pausing never locks the cluster up, not even together with the scaling.
* Credentials: the operator never loses its last valid credentials; a change reaches Cassandra,
  both secrets and the prober; the default role goes away.
* Keyspaces and Reaper: every keyspace ends with the replication of the spec and each change is
  followed by a repair; runs and schedules are neither doubled nor lost.
* ConfigMaps and roles: every change is applied; a checksum is stored only after that.
* Backup and restore: no more requests than the user asked for, and the operation's own state in
  the status.
* TLS: pods that run trust each other while certificates are replaced, and end with the
  certificate that is in the secret.
* Objects: what a workload needs is there before it; objects, pods, policies and service monitors
  end as the last spec says.
* Prober: its answers end up as the nodes that are up see each other, although nothing is locked.
* Regions: one ring, one region after the other, one migration of Reaper's schema, and none waits
  for ever.

`PROJECT.json` lists the hazards at their lines; the properties below are aimed at them.

## 2. Modules

| module | models | proofs |
|---|---|---|
| `Scaling` | scaling, job manager, node control | `ScalingProofs` |
| `PodsInit` | ordered start of the pods of one region | `PodsInitProofs` |
| `AdminAuth` | admin credentials, the prober's copy of them | `AdminAuthProofs` |
| `Repairs` | system keyspaces, Reaper's registration, runs and schedules | `RepairsProofs` |
| `Operations`, `Backups` | what a backup or restore promises; both controllers and Icarus | `BackupsProofs` |
| `Certificates` | TLS secrets, checksums, what pods and clients have loaded | `CertificatesProofs` |
| `Objects` | one pass over all Kubernetes objects, with webhook and defaults | `ObjectsProofs` |
| `Regions` | several operators and their probers | `RegionsProofs` |
| `NodeStates` | the prober's polls and readiness probes | |

`MC<module>` gives a module's constants values for TLC.

The modules have the same shape. Kubernetes objects and nodes are shared variables. The pass has a
program counter (`pc`, `pos` or `pass`) and variables for what it keeps (`cc`, `cur`, `stsList`,
`podList`, ...), and between two requests to the outside every other actor may step. Faults and
edits of the user draw on a budget, a number per kind, so that state spaces are finite and a run
says exactly what it tolerates. `Scenarios` (`Starts` in Scaling) pairs the ways a behaviour may start
with budgets, where one run covers several. The theorems hold for every budget and scenario that meets
the hypotheses they name (section 4).

### Scaling

Models `reconcileCassandraScaling`, `handlePodDecommission`, `podDecommissioned`,
`handleDCsDecommission`, `removeDC`, the job manager and the node control.

* `spec`, `sts`, `svc`, `reaper`, `pods`: the objects; `mode` and `up`: the nodes;
  `ksDCs`, `sysDCs`: the DCs the user's keyspaces and each system keyspace replicate to;
  `jobsList`, `calls`, `waiting`: the job manager, the JMX calls under way and the calls whose
  goroutine has yet to report.
* Four variables only remember: `late` the DCs the user has entered in a keyspace when they were not
  in the spec, which is the user's own mistake; `removed` the DCs whose statefulset `removeDC` has
  deleted, having passed over no error, and no pass has begun to create again; `wrong` the wrong
  answers, and the errors the code passes over, about the pod or DC at hand; `joined` the pods of the
  pass's list whose nodes have been up in the ring since it was read.
* `Begin`, then `reconcileCassandra`: per DC that misses one of them the service (`ApplyService`) and
  the statefulset (`ApplySts`), until `Applied`; then the loop over desired statefulsets (`SkipDC`,
  `ScaleUp`, `ScaleDown`, `DesiredDone`), then `CheckKeyspaces`, `AlterSystemKeyspace` for one system
  keyspace after the other until `SystemKeyspacesDone`, and the loop over removed statefulsets
  (`NextDC`, `RemoveReaper`, `RemoveSvc`, `RemoveSts`). For one pod: `CheckOperationMode`, `AskView`
  once per peer, `ShrinkSts` or `KeepSts`. Each is one request.
* `DesiredDone` also stands for the rest of a pass in which nothing is scaled: it creates the reapers
  and alters the system keyspaces, any part of them if it fails on the way. `Repairs` takes it apart.
* The user may take a DC out of a keyspace or enter one at any time (`AlterKeyspace`), also between
  the check of the keyspaces and the decommission.
* `RunJob`, `DecommissionStart`, `DecommissionFail`, `DecommissionEnd`: the goroutine and the node.
  `Run` looks a job up but never stores one, so `jobsList` stays as the code leaves it.
* A JMX request may fail for any node ("jmx"), a peer may miss a live node ("miss"), an ALTER ("cql")
  or an API request ("api") fails, nodes crash, the operator restarts.
* `dirty` stands for a queued request: an owned object's change sets it, `Begin` clears it, and
  `Return(requeue)` says whether the code asked for another pass. `PodsInit` does the same.

### PodsInit

Models the pods config map (`podsConfigMapData`, `getInitOrderInfo`, `dcSeedPodsReady`,
`nextNonSeedPodToInit`, `pausePodInit`), the labels and the init container, for one region.

* `phase` follows a pod from creation to readiness, `mode` its node; `cm` is its entry, `mounted`
  the entry as it appears on the pod's volume; `status` is the readiness the statefulset reports,
  which lags behind `phase`.
* `replaced` holds the listed pods that are gone: an entry is keyed by UID, so a pod that was
  created again does not find the entry of its predecessor.
* Pod names are compared as strings. `NameKey` gives their order for ordinals written in base
  `Base`, 10 in the code.
* Scaling is one coarse step here (`ScaleUp`, `ScaleDown`) with the outcomes module Scaling takes
  apart, because a shrinking DC and a paused pod may wait for each other. No DC is removed.
* `PodReady` is the prober's `isNodeReady` once gossip has settled: the pod is ready when nodes that
  are NORMAL see its node UP, which they do while it still bootstraps (`mode` "JOINING").
  `NodeStates` has the polls behind that answer. `NodeJoin`, the end of the bootstrap, is the node's
  own step. "NEW" is a node whose first start is not over: its pod has never been ready and it is not
  in the ring.
* A seed without container statuses counts as ready (`SeedsReady`), as in `dcSeedPodsReady`.
* External and assumed: the statefulset controller creates pods in the order of their ordinals; a
  node that was decommissioned refuses to start again and does not answer.

### AdminAuth

Models `reconcileAdminAuth`, `createClusterAdminSecrets`, `handleAdminRoleChange`,
`reconcileActiveAdminSecret`, `reconcileAdminAuthConfigSecret`, `reconcileAdminRole`,
`removeDefaultRoleIfExists` and the prober's `handleAddAuthSecret`, for one region that
authenticates JMX with Cassandra's roles.

* `base`, `active`, `config` are the secrets, `roles` the passwords Cassandra accepts, `events` and
  `probe` what the prober has yet to see and uses.
* The active secret is immutable: `WriteActive` deletes it and `CreateActive` creates it, and the
  operator may restart in between; the next pass then finds no secret and takes the cluster for a
  new one.
* `after` is where the pass goes on when both secrets are written; "idle" after `reconcileAdminRole`
  wrote them without a session, which ends the pass.

### Repairs

Models the part of a pass from `reconcileSystemAuthIfReady` to `reconcileKeyspaces`: `system_auth`,
Reaper's own keyspace, the deployments per DC, `reInitReaperIfNeeded`, the schedules and the other
keyspaces.

* `repl` holds each keyspace's replication; `stale` whether its replicas were repaired since it was
  altered; `deployed`, `ready`, `registered`, `stuck`, `runs`, `schedules` are Reaper's.
* `ListRuns`, `CreateRun` and `StartRun` are the requests of `RunRepair`; `ret` is where the pass
  goes on after them. A schedule is paused, deleted and created in three requests
  (`PauseSchedule`, `DeleteSchedule`, `CreateSchedule`). A registration that times out is replaced:
  `DeleteRun`, `DeleteAnySchedule`, `DeleteCluster`, `ReAddCluster`, `RestartReaper`.
* `Abort` ends a pass at any request; `ReaperStop` takes a Reaper down.
* `rescheduleTimestamp` and `dateShift` move a trigger time in the past.

### Operations and Backups

`Operations` is the abstract specification: the status of a `CassandraBackup` or `CassandraRestore`
shows what its operation really came to. `Backups` models both controllers step by step
(`reconcileBackup` and `reconcileRestore` from the cached copy to the decision, `PostBackup` and
`PostRestore`, `BackupStatus` and `RestoreStatus`), with the webhooks at `Create` and `Edit`.

* `obj` is the API server, `cache` the copies the controllers read, `fresh` the copies of the
  current version: an update from an outdated copy is refused.
* `ops` are the operations Icarus knows, in memory (`IcarusRestart` loses them) and listed from
  either end; `alike` holds the pairs of tags of which one ends in the other, since a backup is
  looked for by the suffix of its path.
* A request may be carried out and stay unanswered (`PostUnanswered`).
* The refinement mapping (`shownBar`, `keyBar`, `outcomesBar`) shows a resource's status, its kind
  and tag, and the outcomes of all operations its tag matches.

### Certificates

Models `reconcileTLSSecrets` and what follows in the pass: `handleCASecret`, `handleNodeSecret`, the
checksum noted on the CA secret (`NoteChecksum`), the operator's files (`setupClientTLSFiles`), the
deployments of prober and Reaper, the checksums in the statefulset.

* A certificate is a serial number, the key that signed it and the keys delivered as trusted; a CA
  secret holds a main key and further ones, and the data its noted checksum is of.
* `before` is the CA secret before its last write: a pass may read this outdated copy.
* The user replaces a CA in the steps of `update-tls-secret.md` (`Stages`), each once the previous
  one is through. Node secrets are deleted or, if they are the user's, edited. Pods restart at any
  time and then load what is there.

### Objects

Models a pass of one region from reading the spec to the Ready status. `Order` lists the objects as
the pass comes to them, with its waits; `ReconcileObject(o)` creates or updates one.

* An object is known by what its content is computed from: labels, images, configuration, parts of
  the spec, addresses (`Desired`). `defaultCassandraCluster` fills in images and agent in every
  pass; `ValidateUpdate` is the webhook.
* `pods`, `prober`, `reapers` are the workloads as they run, `schema` the version that migrated
  Reaper's tables, `published` the addresses the prober tells other regions.
* Calls fail ("fault"), someone deletes ("delete") or changes ("tamper") an object, the pods move to
  another worker node ("move"). A clean-up of policies that fails has deleted any part of them.

### Regions

Models one operator and one prober per region; operators read the other probers, one request per
step. The order of the regions is that of their prober hosts.

* `prober[r]` is what region `r` has published: DCs, seeds, readiness, Reaper's readiness. A restart
  empties it, an update may be refused unnoticed, a request may be lost.
* `FirstPass` chooses the credentials of a new region; `GetSeeds` and `PublishSeeds` exchange seeds;
  `GetStatus`, `GetDCs`, `WriteConfig` decide which pods go on, and with which seeds;
  `SystemAuthIfReady` makes room for a new region's DCs in `system_auth`; `GetRegionReady`,
  `FirstRegionReaper`, `DeployReaper` and `DropDefaultRole` follow once the cluster is ready.
* A pass that meets a pod without an address ends either before its seeds are published (no worker
  node yet) or after it (`ErrPodNotScheduled`).
* Every DC has one pod, and addresses do not change.

### NodeStates

Models `node_states.go`: `Probe` is a readiness probe, `BeginPoll`, `Ask` (one node) and `EndPoll`
are a poll, of which several may be under way; `EndPoll` replaces all states. `IsNodeReady` is the
answer to a probe.

* `life`, `view` and `apart` are the nodes and their gossip; with hostPort a pod that is created
  again keeps its broadcast address and gets another pod address (`address`).
* "overlap" counts the polls that begin while another one is under way.

## 3. Runs

Each run takes at most three minutes or so with two workers. Bounds are chosen so that each loop of
the code runs at least twice where that is possible, every fault of the budget can hit every step,
and two edits can overlap where they matter.

| run | checks | shows |
|---|---|---|
| `scaling` | `TypeOK` `KeyspacesHaveNodes` `NothingLeftBehind` `OneLeavingPerDC` `ShrinkOnlyDecommissioned` `Converges` | two DCs, two system keyspaces, persistent volumes, two overlapping decommission calls per pod, and three starts: two shrinking edits with a keyspace change, a lost JMX request, a failed ALTER and a restart; a DC that grows, shrinks or leaves with a keyspace change, a crash, a peer that misses a live node, a failed API request and a restart; a DC that is added and then grows or leaves, with a crash, a failed ALTER, a failed API request and a restart, also between its service and its statefulset |
| `pods_init` | `OneStartPerDC` `SeedsFirst` `DCsInOrder` `AllReady` | a first deployment with a crash and an aborted pass, a running cluster with an evicted pod; each is resized or extended by a DC on the way |
| `auth_change` | `NotLockedOut` `ActiveIsValid` `ChangeTakesEffect` `DefaultIsDropped` | a new cluster, one on existing storage, a running one; one change of the base secret, two restarts, a slow propagation, nodes that are down |
| `repairs` | `TypeOK` `OneActiveRun` `FirstFutureDate` `OthersSchedulesKept` `ReplicationConverges` `AlterIsRepaired` `SchedulesConverge` `ClusterWorks` | a new cluster that gains a DC, changes schedules or switches them off, with a failed request or stopped Reaper, another owner's schedule and a registration that stops working |
| `backups` | `TypeOK` `RequestsAccounted` `StatusIsTrue` `BackupsSettle` | two backups whose tags end alike or not, a backup or restore that is deleted and created again, a restore by a backup's name; a failed or unanswered call, a restart of Icarus, an outdated copy |
| `certificates` | `MutualTrust` `CertificatesAccounted` `CertificatesSettle` | a CA is replaced in the documented steps while a call fails, a pod restarts or a copy is outdated; generated, provided and missing secrets |
| `objects` | `NeedsFirst` `FirstMigration` `ObjectsSettle` `PoliciesSettle` `MonitorsSettle` | a deployment with edits of configuration, agent, monitors, labels and policies while a call fails, pods move (also on to a configuration that has just changed), an object is deleted or changed |
| `regions` | `OneMigration` `OneRing` `RegionsInOrder` `RegionsSettle` | two new regions, or one that joins the other, with one restart of prober or operator, one lost or refused request or one replaced pod |
| `node_states` | `AnswersSettle` | two nodes that restart, get new addresses, join or stop hearing of each other; two polls at once, a restart of the prober, a refused request |

The shrinking edits of `scaling` keep at least two pods, because below that the quorum is zero
(`scaling_noquorum`), and leave out two orders of edits in which the code does not settle (below: a DC
that shrinks while the decommissioned pod of another one is down, and a DC that is brought back).
Two budgets are zero although the module has the fault: in `pods_init` no pod
is lost before its first start is over ("loseNew": `dcSeedPodsReady` looks only at the seeds it finds, so
a non-seed may then start first), and in `auth_change` the operator does not restart before the first
auth config secret exists ("early", see Credentials below). `CHECK_DEADLOCK FALSE` is used for
`Backups` only, where nothing is left to do once every resource has its final state.

Each property has a mutated definition in its module (`... NoSeeds`, `... Unchecked`, ...) that TLC
refutes. The type invariants of the modules with theorems are checked here and proved there.

### Disagreements with the documentation

Three runs show where the code does not do what the documentation says. Each checks the documented
property and expects TLC to refute it.

* `scaling_noquorum`: `podDecommissioned` computes its quorum from the pods of desired DCs and
  subtracts one. With one such pod the quorum is zero, so no peer has to miss the node, and one
  failed operation mode request removes the pod of a healthy node.
* `pods_evicted`: the first DC shrinks by two while a pod of the second was evicted
  (`cassandra_pods_config.go:377`). After the first decommission DC 1 is unready, so the new pod of DC 2
  stays paused; `podDecommissioned` fails as long as that pod does not answer, so DC 1 stays unready.
* `region_joins`: a region joins one whose prober has just been restarted and has not been told
  again that its region is ready. `createClusterAdminSecrets` takes the cluster for a new one, the
  active secret gets the default role, which was dropped long ago, and the region never becomes
  ready.

The same modules, with other constants or properties, show more of the kind; they are recorded here
and have no run of their own.

Scaling and ordered start:

* `Run` never enters a job into `jobsList` (`jobs/manager.go:36`); two passes start two decommission
  calls for one pod.
* `removeDC` tests `err == nil` after deleting the service (`cassandra_scaling.go:315`). A deletion that
  fails goes on to the statefulset, and the service is never looked at again. `NothingLeftBehind`
  therefore speaks of DCs removed without such an error.
* A restart between the creation of a service and of its statefulset (`cassandra.go:25`) leaves a
  service that is never removed if the DC leaves the spec before the next pass: removal goes by
  statefulsets. The same holds for any part that fails to be made or deleted without one.
* DC 2 shrinks and the process of its decommissioned pod has stopped; before a pass lowers the
  replicas, a second edit shrinks DC 1, which comes first. `podDecommissioned`
  (`cassandra_scaling.go:287`) asks all pods of desired DCs for their view, gets none from the pod of
  DC 2, and neither scale down ends.
* A DC that is brought back while its last pod is being decommissioned gets its place in the system
  keyspaces again although the node leaves; they then replicate to a DC without nodes until a new one
  is started. The edits of `scaling` bring none back, and `KeyspacesKeepNodes` assumes the same.
* A node that crashes while the spec wants it gone, with its peers seeing it down, is taken for a
  decommissioned one and loses its pod (`cassandra_scaling.go:211`). `ShrinkOnlyDecommissioned`
  therefore speaks of nodes that have been up since the pass listed them, and `OnlyShrinking` assumes
  that no node crashes.
* `isNodeReady` looks at a node's own status only in its own view (`node_states.go:44`). A node that
  bootstraps is seen UP by its peers and answered ready, so the next node starts before it has joined
  (against prober.md:8 and cassandracluster-lifecycle.md:42). The properties of `PodsInit` speak of first
  starts, not of joins, for that reason.
* Two DCs removed in one edit are decommissioned at the same time (`cassandra_scaling.go:158`),
  while cassandracluster-lifecycle.md:66 says that only one DC at a time is scaled down.
* A scale down taken back after its decommission began leaves a decommissioned node and its pod in
  place: the replicas are equal again (`cassandra_scaling.go:59`).
* Pods are sorted by name (`cassandra_pods_config.go:313`). Pod 10 sorts before pod 2 and is
  released while pod 2 is still starting, when it appears later. With three seeds it may even start
  before seed 2, which is treated as an ordinary pod until it has its label
  (`cassandra_pod_labels.go:32`); the default of two seeds is safe (`SeedsFirstHolds`).
* A scale up taken back before the new pods started makes all DCs ready, and `pausePodInit`
  releases all new pods at once (`cassandra_pods_config.go:374`).
* Without persistent volumes a pod that is evicted, or removed and wanted again, has to join once
  more. It does not wait for a later pod that is starting, and as long as the statefulset still reports
  the pods it had before, none of them waits (`readiness.go:49`).
* With hostPort and no managed region no pod is ever paused (`cassandra_pods_config.go:143`).
* An earlier DC that grows while a later one bootstraps starts its node at the same time
  (`cassandra_pods_config.go:209`).

Credentials:

* The operator restarts between creating the active and the auth config secret of a new cluster
  (`admin_auth.go:60`). The active secret holds the default role, so `reconcileAdminAuth` returns
  early in every later pass; the pods cannot mount the missing secret, the cluster never becomes
  ready, and the default role stays.
* After two changes of the base secret the operator can be locked out: the password is changed, the
  login fails for slow propagation, and the base secret changes again before the retry.
* A role name changed there and back with another password fails for good: CREATE ROLE is used for
  every change of the name (`admin_auth.go:236`).
* A prober whose watch breaks while the active secret is deleted and created sees an update, has no
  handler for it and keeps the old credentials (`auth_secret.go:27`). The informer's new listing is
  not in the model.

Keyspaces and Reaper:

* A keyspace is altered and its repair request fails: the next pass finds the replication right and asks
  for no repair (`keyspaces.go:50`), although cassandracluster-lifecycle.md:25 promises one for a new
  cluster. If the run was created and only its start failed, it also blocks every later repair of its
  keyspace (`reaper/repairs.go:42`). `AlterIsRepaired` therefore assumes no failing request.
* A keyspace that is altered while a run of it is active gets no further run (`reaper/repairs.go:33`),
  and Reaper's own keyspace is altered without a repair.
* A schedule that was paused to be deleted stays paused when the deletion fails and the user takes
  the change back (`repair_schedules.go:136`).
* Registering the cluster again deletes the schedules of other owners too (`reaper/reaper.go:180`).

Backup and restore:

* A restore that is deleted and created again finds its predecessor's operation and shows its state
  without restoring anything (`cassandrarestore/restore.go:38`, against backup-restore.md:59); of
  several matching operations it takes the first (`restore.go:58`).
* A failed backup whose repetition is sent and whose status update fails stays FAILED
  (`cassandrabackup/backup.go:117`).
* A tag that is the end of another tag finds the other backup (`cassandrabackup/backup.go:60`).
* `restoreConfigChanged` ignores both schema version fields (`cassandrarestore/icarus.go:102`), and a
  restore by `cassandraBackup` takes the backup's name for its tag even if the backup has another
  one (`cassandrarestore/icarus.go:22`).
* `storageLocation[len(storageLocation):] != "/"` compares an empty string and always holds.
* A restore without `cassandraBackup` never has its secret validated, one with it never its own
  storage location.

TLS:

* Nothing in the deployments of prober and Reaper changes with the client certificate
  (`prober.go:58`), so they are not restarted when the client CA is replaced: after the last step
  they still hold a certificate of the old CA, which no pod trusts any more, and connections fail
  until they restart (against security/update-tls-secret.md:6 and :86).
* If the spec names a node secret that does not exist, the operator falls back to its own name but
  skips `handleCASecret`, and every pass fails.
* A node secret of the user's is overwritten if a CA secret without a checksum exists.
* At a first deployment the certificate is made twice, the second time because the checksum is not
  noted yet.

Objects:

* With labels on the `CassandraCluster` the prober's service selects by labels its pods do not have
  (`prober.go:179` against `prober.go:68`, `labels.go:7`), and no pod becomes ready. The settling
  properties of `Objects` assume no labels in the end.
* Policies that no longer apply (hostPort is switched off, extra rules or addresses are removed) stay
  as long as policies are enabled. When another region does not answer, its addresses leave the
  policy, and with an empty list the rule applies to every source although the log says that it is
  not created. Policies are updated only by a pass that finds the cluster ready.
* Service monitors are left behind when labels and namespace change in one edit
  (`cassandra_service_monitor.go:103`).
* The service of a DC selects by the changed labels while the statefulset's template keeps the old
  ones (`cassandra_statefulset.go:57`).
* A configuration that is taken back after a pod restarted between the updates of config map and
  statefulset leaves that pod on the other configuration. `objects` has pods that move while the
  configuration changes, and no configuration that is taken back then.
* When Reaper is upgraded, the wait for the first deployment ends at once, because the ready replica
  is the old one (`reaper.go:46`); both versions migrate the schema together.
* The webhook skips the persistence rules when `spec.cassandra` is absent, and keeps only
  `enabled` and the storage class from changing; a missing storage class and an unknown DC in
  `systemKeyspaces` are dereferenced.

Regions:

* During a first deployment one region may drop the default role while another, whose pass ended
  early, still uses it. `RegionsSettle` assumes that no region is left with such credentials.
* A region that joins and comes first in the order, while all nodes of the running one are replaced,
  waits for it and it for the new one.
* `getSeedsList` ends every pass of a region while another region's prober does not answer; seed
  pods without an address are published as empty addresses.
* Three regions with different lists of managed regions alter `system_auth` in turns.
* The operator does not look at the status of the answers to its updates of the prober.

Prober:

* `isNodeReady` reads the length of the map again after ranging over it; a map that is replaced in
  between may give a wrong answer once.

### Fairness

Weak fairness is assumed of the pass (controller-runtime's worker takes the queued request and the
code between two requests ends), of each node, pod and job goroutine, of the statefulset
controller, the kubelet and the prober's informer. Nothing is assumed of faults, or of the keyspaces
a user has to change; `Converges` therefore allows a cluster that waits for the user. A pass that
returns without a requeue is not run again by fairness: only `dirty` enables `Begin` in Scaling and
PodsInit. The other modules run passes for ever, as the last line of the pass (`RequeueAfter` one
minute) and every error path do.

* `Regions`: each operator's passes, and one condition for all steps of the surroundings, which
  happen a bounded number of times. Users complete what they have begun: a region that is created
  in one cluster is entered in the other.
* `Backups`: strong fairness for each resource, since a controller works on one at a time and its
  queue serves all in turn; operations of Icarus end.
* `Certificates`: strong fairness for starting pods and clients, which passes enable and disable, and
  for the user's next step of replacing a CA.
* `NodeStates`: strong fairness of a node's readiness probe: polls and probes have the same period, so
  that probes also come while the node is unknown.

## 4. Proofs

`ScalingProofs`, for every finite set of DCs, every size, every set of edits and every start, with
any budget (`ScalingAssumption`):

* `ScalingType`: `Spec => []TypeOK`. `TypeOK` is not inductive: that the replicas stay in range when
  `ShrinkSts` lowers them needs to know that the statefulset is as the pass listed it. The
  invariant `PassOK` adds `TargetOK` (while one pod is handled it is the last one of its
  statefulset, whose replicas have not changed since they were listed) and `ListOK` (the same for
  the statefulsets the loops have yet to reach). It holds because only the pass writes replicas.
* `ShrinkSafety`: `Spec => ShrinkOnlyDecommissioned`, without a hypothesis: any request may fail, nodes
  may crash, jobs may be doubled and the operator may restart at any time. `JoinedOK` adds to `PassOK`
  that a node which has been up in the ring since the pass listed it still is, or has been
  decommissioned, and that of the views counted in `notLive` of a node in the ring at most `wrong` are
  wrong. A pass shrinks only with a quorum of such views.
* `KeyspacesKeepNodes`: if the user brings no DC back into the spec (`NoneAdded`),
  `Spec => []KeyspacesHaveNodes`, whatever fails, crashes or restarts. The check of the user's keyspaces,
  the ALTERs and the decommission are separate requests, and a pass may work with a spec, a list and
  keyspaces that have changed since. `NodesOK`: every DC that the spec, the pass or a keyspace asks for
  has a node in the ring that nothing asks to leave (`HasNode`, the DC's first pod), and from the end of
  the ALTERs to the end of the pass every system keyspace replicates to the DCs of the pass's spec only,
  and no user keyspace to a removed one, unless the user has entered it when it had left the spec.
* `OneLeavesAtATime` and `ShrinkAfterLeaving`: `Spec => []OneLeavingPerDC` and `Spec =>
  ShrinkAfterDecommission`, under `OnlyShrinking`: no node crashes, edits only shrink DCs or remove
  them, and more pods remain than `podDecommissioned` needs for its quorum, even if the budgeted peers
  miss a node. Each hypothesis is needed: a crashed node is taken for one that has left, a scale down
  that is taken back leaves a decommissioned node below others, and `scaling_noquorum` refutes the
  second theorem for a cluster without a quorum. `FaultsOK` says that `wrong` and what is left of the
  budget stay within the start's. `LeavingOK` says that every node above the last pod of its statefulset
  has left and that none below it was ever asked to; `SizesOK` that the spec is never above what the
  pass works with, nor that above the statefulsets. Of the starts of `scaling` the first alone meets
  `OnlyShrinking`, and the first two bring no DC in; what the run shows beyond that is model-checked.
* `NothingLeft`: `Spec => []NothingLeftBehind`, without a hypothesis: a DC that was removed has neither
  service nor reaper until a pass begins to create it again. Any request may fail, and a restart may
  come between any two, also between a DC's service and its statefulset. A DC at which `removeDC` has
  passed over an error is not `removed`, and parts of a DC that never had its statefulset remain too
  (section 3). `NothingLeftOK` adds that the DCs of a pass are not `removed` once all their parts are
  there, which the pass needs before it makes reapers, and what is gone at each of the three deletions.

`RepairsProofs`, for every list of keyspaces, every set of specs and every budget
(`RepairsAssumption`):

* `RepairsType` and `RunSafety`: `Spec => []TypeOK` and `Spec => []OneActiveRun`. `LoopOK` adds what
  is left to do, and where the pass returns to, while a repair or the removal of a schedule is under
  way in the middle of a loop. `RunOK` adds that the keyspace has no active run between the list and
  the creation, and exactly one waiting run between creation and start: runs end and are deleted
  meanwhile, but nobody else creates or starts one.
* `NextOccurrence`: `rescheduleTimestamp` gives the first moment that is not in the past, on the
  weekday and at the time of the trigger; for every date, where `FirstFutureDate` checks two weeks.
  `FirstRunDate` derives the property of the run from it.
* `OthersKept`: `Spec => OthersSchedulesKept`. `ListedOwn` says that the schedules which a pass has
  listed and is to delete are the operator's own; the list is several requests old by then.

`BackupsProofs`, for every set of resources, specs, secrets and tags, either order of Icarus's list
and every budget (`BackupsAssumption`):

* `BackupsType`: `Spec => []TypeOK`.
* `StatusRefinement`: `Spec => StatusIsTrue`, that is, `Backups` implements `Operations`. The status is
  written several steps after the operation was read, from a copy of the resource that may be
  outdated. The invariant says that an up-to-date copy is what the API server has (`CopiesOK`), that
  what Icarus shows as ended has ended (`OpsOK`), that a pass goes on only from a copy that is not
  COMPLETED and writes a final state only if an operation of the copy's tag reached it (`PassOK`), and
  that a controller that is idle holds no copy (`IdleOK`). `WriteRefines`, `EndRefines` and
  `StatusRefines` map each step to one of `Operations`.

* `RequestsHaveReasons`: `Spec => []RequestsAccounted`. Requests that were sent do not count enough:
  a pass that holds an outdated copy may send one more when nothing else happens. `AccountOf` says
  that what was sent and what is still owed (`Owed`) is never more than was charged for. A request is
  owed while the status is empty, or when the last operation of the tag has another configuration
  than the spec and the status still makes the controller compare them; one that is about to be sent
  is owed, and a second one if an outdated copy is about to be used. For this the copies must agree
  with the resource in everything but the state (`SpecsOK`), and a pass must send the request for the
  copy it has read (`RequestOK`).

`RegionsProofs`, for every number of regions and DCs, every scenario and every budget
(`RegionsAssumption`):

* `StartsInOrder`: `Spec => RegionsInOrder`. A region decides from answers of other probers that are
  several steps old and from probers that may have forgotten everything. The invariant says that what
  a prober tells is true, if incomplete (`ProberInv`); that nothing undoes a full region (`Full`); that
  a region which does not name all others ran before them (`ManagedInv`); what a pass may still
  conclude from what it read (`PassesInv`); and that a pod is released only when the regions before its
  own are full (`TurnInv`).
* `OneReaperMigrates`: `Spec => []OneMigration`. `ReaperInv`: until some Reaper is up, all passes agree
  which region is the first, and only that one gets as far as its Reaper.
* `NodesFormOneRing`: with two regions or more (`SeveralRegions`), `Spec => OneRing`. `RingInv`: only
  the first node is released before there is a ring, and afterwards every node that is released has
  been given a seed that is in it. With one region alone nothing orders its DCs in this module; `PodsInit`
  is about that.

`ObjectsProofs`, for every sequence of specs and every budget (`ObjectsAssumption`):

* `WorkloadsHaveNeeds`: `Spec => []NeedsFirst`. `NeedsInv`: whatever the pass has come past and its spec
  asks for exists (`PassedExist`), and what a workload needs does so as long as it does. The spec may
  change during a pass and the pass itself deletes policies; a deletion by someone else ends the claim.
* `OneReaperFirst`: `Spec => []FirstMigration`. `FirstInv`: before the schema is set up no pass gets
  beyond the wait for the first Reaper; `ImagesInv`: each Reaper that starts has a version, so that
  starting it sets up the schema, which rests on the defaults (`Defaulted`).

`CertificatesProofs`, for every number of pods, every list of CA secrets, scenario and budget
(`CertificatesAssumption`):

* `PodsTrustEachOther`: if each CA secret of the list trusts its predecessor's main key and the reverse
  (`StepsFit`, the steps of `update-tls-secret.md`), `Spec => []MutualTrust`. The pass may sign with an
  outdated copy of the CA secret, and pods load what is there when they restart. `RecentInv`: every
  certificate in use is of one of the last two steps. That is kept when the user goes on because of
  `NotedInv`: once the checksum of a CA is noted, the node secret, the operator's files and all copies
  of the CA secret are of the last step, and only pods may be left with earlier certificates, for whose
  restart the user waits.
* `CertificatesHaveReasons`: `Spec => []CertificatesAccounted`. `AccountInv` adds the certificates that
  are still to be made: one if there is none, and one as long as the checksum is not noted.

`AdminAuthProofs`, for every set of roles and passwords and every budget (`AdminAuthAssumption`):

* `ActiveWorks` and `KeysKept`: `Spec => ActiveIsValid` and `Spec => []NotLockedOut`, under
  `OneChangeOnly`: the base secret changes at most once, in a running cluster, and the operator
  restarts only if the volumes persist. A second change may lock the operator out (section 3), and
  without volumes a restart between deleting and creating the active secret makes the operator take
  the cluster for a new one. `ActiveInv`: an active secret that has become invalid is about to be
  replaced by a base secret that is valid, and whatever a pass would bootstrap from is valid.
  `DesiredInv` and `WriteInv` say the same of what the pass holds: it works with the base secret, or
  leaves an old one alone, and writes valid credentials only.

`PodsInitProofs`, for every number of DCs, replicas and seeds, every set of edits and every scenario
(`PodsInitAssumption`). A node has *started* (`Started`) when its pod has been ready or it is in the ring;
a pod may be ready before its node has joined, so the theorems say nothing of the end of a bootstrap
(section 3). The first three assume `Orderly` (no hostPort; no pod is lost before its node has
started; with volumes that do not persist, no other pod is lost and no DC shrinks) and a user who shrinks
a DC only when all its nodes have started (`[][KeepsScaleUps]_vars`). Nodes crash, pods on
persistent volumes are evicted, passes are aborted and sizes change at any time besides. Section 3
names what the code does without each of these, and TLC finds a counterexample for each that is
dropped.

* `OneStartPerDCHolds`: `[]OneStartPerDC`, if ordinals have one digit (`SortedNames`).
* `SeedsFirstHolds`: `[]SeedsFirst`, if ordinals have one digit or a DC has at most two seeds, which is
  the default.
* `DCsInOrderHolds`: `[]DCsInOrder`, for pods of any number, if the user enlarges a DC only when the nodes
  of the DCs after it have started (`GrowsInOrder`).
* `PausingNeverStalls`: without any hypothesis, `pausePodInit` leaves one pod that is not ready unpaused in the
  DC that may start, whatever is listed and labelled (`SomePodGoesOn`). It is the step of `AllReady` that can be
  proved: a seed that is not ready goes on, and otherwise the pod whose name sorts first, which exists
  because the names of a DC's pods differ (`NamesDiffer`).

The properties speak of nodes that start for the first time. By then the decision is several steps old: it was taken
on a list of pods and a reported number, became an entry of the config map and then one of the
volume. The invariants that carry the theorems, `OrderInv`, `SeedOrderInv` and `DCsInv`, therefore speak
of pods that are `Released`: told to go on, at any of these stages. What a pass concludes is right because of
`IInv` (`PodsInitInvariant`): pods whose nodes have not started stay, and no statefulset shrinks below them
(`NewInv`, `SizeInv`); a pod is created after the ones before it (`RankInv`), so that a list with a gap
misses only nodes that have started (`ListInv`); labels are those of the spec or of a smaller one
(`SeedInv`); and a statefulset never reports more pods than have started (`StatusInv`), so that in a DC which
reports as many as the pass wants all have started, by counting (`FullDC`), however old the
report is. `FirstNames` is why two seeds are safe: whatever the base, "0" and "1" sort first.

The first deployment of `pods_init` that is cut down to one pod before both have started is the one case of
the run that the theorems leave out.

Model-checked only: everything about liveness (fairness is beyond the prover), which is all of
NodeStates and the settling properties of the other modules. Every safety property of a run that passes
is also proved, under the hypotheses named above.

## 5. Not modelled

`PROJECT.json` names for each component what is left out. As a whole:

* User roles and CQL ConfigMaps: statements are executed one after the other and a checksum is stored
  at the end; a pass that fails in between repeats the user's statements (`cql_configmaps.go:47`), and
  whether that matters depends on the statements. `parseCQLQueries` splits strings.
* Maintenance: a pass handles the first pod that differs (`maintenance.go:122`), so one that does not
  restart holds back the others.
* The pod IPs config map, which only the Cassandra image reads; the CQL client beyond the statements
  of its callers; predicates and event handling, for which the modules assume that every change of an
  owned object queues a request; flags and start of the processes; API types and generated code.
* Texts: configurations, commands, metric rules, the encoding of requests and of keys.

Assumptions worth knowing: the cache lags by less than the time a pod takes to start (Certificates);
addresses do not change and unmanaged regions are absent (Regions); `allowReaperNodeIPs` has its
default (Objects).

## 6. Plan

1. `Scripts`: CQL ConfigMaps and user roles as one pattern (apply, repair, record); `Maintenance`.
2. Joining an existing region in AdminAuth, with `handleUpdateBaseSecret`.
3. Composition: the steps of a pass that Objects passes over, as the abstract promises of the other
   modules; how far the steps of Scaling, between which nodes change, allow the coarse step of PodsInit.

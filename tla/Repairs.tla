------------------------------ MODULE Repairs ------------------------------
(***************************************************************************)
(* The replication of the system keyspaces, and Reaper.                    *)
(*                                                                         *)
(* Once the cluster is ready a pass alters system_auth                     *)
(* (controllers/keyspaces.go), creates or alters Reaper's own keyspace     *)
(* (controllers/reaper_keyspace.go), deploys one Reaper per DC             *)
(* (controllers/reaper.go), registers the cluster with it, reconciles the  *)
(* repair schedules (controllers/repair_schedules.go) and alters the       *)
(* remaining keyspaces.  Where it alters a keyspace it asks Reaper for a   *)
(* repair, in two requests: one creates the run, one starts it             *)
(* (controllers/reaper/repairs.go).  Each request is a step here.          *)
(***************************************************************************)
EXTENDS Integers, Sequences, FiniteSets

CONSTANTS
    BuiltIn,     \* keyspaces that are always managed but Reaper's, in the code's order
    Extra,       \* keyspaces the user may list in systemKeyspaces
    DCs,         \* names of DCs
    Specs,       \* the specs a user may write
    InitSpecs,   \* the specs a cluster starts with
    InitRepl,    \* replication of the existing keyspaces at the start
    Budget       \* how often each fault, and each edit, may happen

Auth == "system_auth"
ReaperKs == "reaper"
NoKeyspace == <<>>
DefaultRF == 3

SeqSet(s) == {s[i] : i \in 1..Len(s)}
Keyspaces == SeqSet(BuiltIn) \cup Extra \cup {ReaperKs}
RunStates == {"NOT_STARTED", "RUNNING", "PAUSED"}
FaultKinds == {"edit", "user", "fault", "stuck"}
Min2(a, b) == IF a < b THEN a ELSE b

\* The user's options for the keyspaces the user lists, else three replicas, or
\* as many as the DC has, in every DC.
desiredReplicationOptions(c, k) ==
    IF c.sysDCs # NoKeyspace /\ k \in SeqSet(c.sysKs) THEN c.sysDCs
    ELSE [d \in SeqSet(c.dcs) |-> Min2(DefaultRF, c.replicas[d])]

Options == {desiredReplicationOptions(c, k) : c \in Specs, k \in Keyspaces}
               \cup {InitRepl[k] : k \in Keyspaces}

\* The keyspaces the user lists that are not managed anyway.
otherKeyspaces(c) == SelectSeq(c.sysKs, LAMBDA k : k \notin SeqSet(BuiltIn))

ASSUME RepairsAssumption ==
    /\ Auth \in SeqSet(BuiltIn) /\ BuiltIn \in Seq(Keyspaces)
    /\ ReaperKs \notin SeqSet(BuiltIn) \cup Extra
    /\ DCs # {} /\ InitSpecs \subseteq Specs /\ Specs # {}
    /\ \A c \in Specs :
          /\ c.dcs \in Seq(DCs) /\ Len(c.dcs) > 0
          /\ c.sysKs \in Seq(SeqSet(BuiltIn) \cup Extra) /\ otherKeyspaces(c) \in Seq(Extra)
          /\ c.repairs \in Seq([ks : Keyspaces, cfg : Nat])
    /\ InitRepl = [k \in Keyspaces |-> InitRepl[k]] /\ InitRepl[ReaperKs] = NoKeyspace
    /\ Budget \in [FaultKinds -> Nat]

VARIABLES
    spec,       \* the cluster's spec
    repl,       \* replication options of each keyspace, NoKeyspace if it does not exist
    stale,      \* repair each keyspace needs: "no", "altered", "repairing", "missed"
    deployed,   \* DCs whose Reaper deployment exists
    ready,      \* DCs whose Reaper is ready
    registered, \* Reaper knows the cluster
    stuck,      \* but requests for it time out
    runs,       \* how many runs of each keyspace that have not ended are in each state
    schedules,  \* repair schedules in Reaper
    reported,   \* the readiness of Reaper the prober tells other regions
    pc,         \* where the reconcile pass is
    cc,         \* the spec the pass works with
    todo,       \* DCs, schedules or keyspaces the pass's loop has yet to reach
    listed,     \* the operator's schedules, as the pass listed them
    ks,         \* keyspace of the repair run or the schedule the pass is at
    ret,        \* where the pass goes on after it
    budget      \* faults and edits that are left

reaperVars == <<deployed, ready, registered, stuck, runs, schedules, reported>>
passVars == <<pc, cc, todo, listed, ks, ret>>
vars == <<spec, repl, stale, reaperVars, passVars, budget>>

Spend(b) == budget[b] > 0 /\ budget' = [budget EXCEPT ![b] = @ - 1]
NoFault == \A b \in {"fault", "stuck"} : budget[b] = Budget[b]
Own(s) == s.owner = "operator"
ReaperUp == ready # {}
Wanted(c) == IF c.enabled THEN c.repairs ELSE <<>>

Init ==
    /\ spec \in InitSpecs /\ cc = spec
    /\ repl = InitRepl /\ stale = [k \in Keyspaces |-> "no"]
    /\ deployed = {} /\ ready = {}
    /\ registered = FALSE /\ stuck = FALSE /\ reported = FALSE
    /\ runs = [k \in Keyspaces |-> [s \in RunStates |-> 0]] /\ schedules = {}
    /\ pc = "idle" /\ todo = <<>> /\ listed = {} /\ ks = Auth /\ ret = "idle"
    /\ budget = Budget

-----------------------------------------------------------------------------
(* The user, the kubelet and Reaper (external).                            *)

EditSpec(new) ==
    /\ new # spec /\ Spend("edit")
    /\ spec' = new
    /\ UNCHANGED <<repl, stale, reaperVars, passVars>>

\* Someone adds a schedule of his own with Reaper's web interface.
AddSchedule(k) ==
    /\ ReaperUp /\ registered /\ Spend("user")
    /\ schedules' = schedules \cup {[ks |-> k, cfg |-> 0, owner |-> "user", active |-> TRUE]}
    /\ UNCHANGED <<spec, repl, stale, deployed, ready, registered, stuck, runs,
                   reported, passVars>>

\* A Reaper that becomes ready has brought its tables up to date.
ReaperStart(d) ==
    /\ d \in deployed \ ready
    /\ ready' = ready \cup {d}
    /\ UNCHANGED <<spec, repl, stale, deployed, registered, stuck, runs, schedules, reported,
                   passVars, budget>>

ReaperStop(d) ==
    /\ d \in ready /\ Spend("fault")
    /\ ready' = ready \ {d}
    /\ UNCHANGED <<spec, repl, stale, deployed, registered, stuck, runs, schedules,
                   reported, passVars>>

\* "exists in reaper's cluster list but not in a working state".
ReaperStuck ==
    /\ registered /\ ~stuck /\ Spend("stuck")
    /\ stuck' = TRUE
    /\ UNCHANGED <<spec, repl, stale, deployed, ready, registered, runs, schedules,
                   reported, passVars>>

RunEnds(k) ==
    /\ ReaperUp /\ runs[k]["RUNNING"] > 0
    /\ runs' = [runs EXCEPT ![k]["RUNNING"] = @ - 1]
    /\ stale' = [stale EXCEPT ![k] = IF @ = "repairing" THEN "no" ELSE @]
    /\ UNCHANGED <<spec, repl, deployed, ready, registered, stuck, schedules, reported,
                   passVars, budget>>

-----------------------------------------------------------------------------
(* Where a pass goes on.                                                   *)

Goto(l) == pc' = l /\ UNCHANGED <<cc, todo, listed, ks, ret>>
EndPass ==
    /\ pc' = "idle" /\ todo' = <<>> /\ listed' = {} /\ ks' = Auth /\ ret' = "idle"
    /\ UNCHANGED cc

\* RunRepair of keyspace k, then go on with l.
Repair(k, l) == pc' = "runs" /\ ks' = k /\ ret' = l /\ UNCHANGED <<cc, todo, listed>>

\* When the cluster is ready the scaling has removed the Reapers of former DCs.
Begin ==
    /\ pc = "idle"
    /\ pc' = "auth" /\ cc' = spec
    /\ deployed' = deployed \cap SeqSet(spec.dcs) /\ ready' = ready \cap SeqSet(spec.dcs)
    /\ UNCHANGED <<spec, repl, stale, registered, stuck, runs, schedules, reported,
                   todo, listed, ks, ret, budget>>

\* A request fails, its answer is lost, or the operator restarts.
Abort ==
    /\ pc # "idle" /\ Spend("fault")
    /\ EndPass
    /\ UNCHANGED <<spec, repl, stale, reaperVars>>

-----------------------------------------------------------------------------
(* Keyspaces.                                                              *)

Active(k) == runs[k]["NOT_STARTED"] + runs[k]["RUNNING"] > 0

\* Mutant of UpdateRF: the sizes of the DCs are written as they are.
UpdateUncapped(k) ==
    /\ repl' = [repl EXCEPT ![k] = cc.replicas]
    /\ stale' = [stale EXCEPT ![k] = IF Active(k) THEN "missed" ELSE "altered"]

\* Mutant of UpdateRF: the options are written for a new keyspace only.
UpdateNothing(k) == UNCHANGED <<repl, stale>>

\* ALTER KEYSPACE: data moves to new replicas with the next repair only.
UpdateRF(k) ==
    /\ repl' = [repl EXCEPT ![k] = desiredReplicationOptions(cc, k)]
    /\ stale' = [stale EXCEPT ![k] = IF Active(k) THEN "missed" ELSE "altered"]

\* reconcileSystemAuthKeyspace: needed before anyone can log in, and before Reaper.
AlterAuth ==
    /\ pc = "auth"
    /\ \/ repl[Auth] = desiredReplicationOptions(cc, Auth) /\ Goto("reaperks")
          /\ UNCHANGED <<repl, stale>>
       \/ repl[Auth] # desiredReplicationOptions(cc, Auth) /\ UpdateRF(Auth) /\ Goto("authping")
    /\ UNCHANGED <<spec, reaperVars, budget>>

\* The repair of system_auth is left to reaperInitialization if Reaper does not run.
RepairAuth ==
    /\ pc = "authping"
    /\ \/ ReaperUp /\ Repair(Auth, "reaperks") /\ UNCHANGED budget
       \/ ~ReaperUp /\ Goto("reaperks") /\ UNCHANGED budget
       \/ ReaperUp /\ Goto("reaperks") /\ Spend("fault")
    /\ UNCHANGED <<spec, repl, stale, reaperVars>>

\* reconcileReaperKeyspace: created, or altered without a repair.
ReaperKeyspace ==
    /\ pc = "reaperks"
    /\ \/ /\ repl[ReaperKs] = NoKeyspace
          /\ repl' = [repl EXCEPT ![ReaperKs] = desiredReplicationOptions(cc, ReaperKs)]
          /\ UNCHANGED stale
       \/ /\ repl[ReaperKs] \notin {NoKeyspace, desiredReplicationOptions(cc, ReaperKs)}
          /\ UpdateRF(ReaperKs)
       \/ repl[ReaperKs] = desiredReplicationOptions(cc, ReaperKs) /\ UNCHANGED <<repl, stale>>
    /\ pc' = "deploy" /\ todo' = cc.dcs
    /\ UNCHANGED <<spec, reaperVars, cc, listed, ks, ret, budget>>

\* desiredKeyspacesToReconcile: the built-in ones, then the user's.
desiredKeyspaces == BuiltIn \o <<ReaperKs>> \o otherKeyspaces(cc)

\* reconcileKeyspaces: alter a keyspace, then repair it.
AlterKeyspace ==
    /\ pc = "keyspaces" /\ todo # <<>>
    /\ repl[Head(todo)] \notin {NoKeyspace, desiredReplicationOptions(cc, Head(todo))}
    /\ UpdateRF(Head(todo))
    /\ pc' = "runs" /\ ks' = Head(todo) /\ ret' = "keyspaces" /\ todo' = Tail(todo)
    /\ UNCHANGED <<spec, reaperVars, cc, listed, budget>>

\* A keyspace that does not exist, or needs no update.
SkipKeyspace ==
    /\ pc = "keyspaces" /\ todo # <<>>
    /\ repl[Head(todo)] \in {NoKeyspace, desiredReplicationOptions(cc, Head(todo))}
    /\ pc' = "keyspaces" /\ todo' = Tail(todo)
    /\ UNCHANGED <<spec, repl, stale, reaperVars, cc, listed, ks, ret, budget>>

\* The last line of the pass: again in a minute.
PassDone ==
    /\ pc = "keyspaces" /\ todo = <<>>
    /\ EndPass
    /\ UNCHANGED <<spec, repl, stale, reaperVars, budget>>

-----------------------------------------------------------------------------
(* The Reaper deployments and the cluster's registration.                  *)

\* "Wait for 1st reaper deployment to finish, otherwise we can get an error
\* 'Schema migration is locked by another instance'".
MayGoOn(d) == d = cc.dcs[1] => d \in ready

\* reconcileReaper and reconcileReaperDeployment, for the next DC.
Deploy ==
    /\ pc = "deploy" /\ todo # <<>>
    /\ deployed' = deployed \cup {Head(todo)}
    /\ IF MayGoOn(Head(todo))
       THEN pc' = "deploy" /\ todo' = Tail(todo) /\ UNCHANGED <<cc, listed, ks, ret>>
       ELSE EndPass
    /\ UNCHANGED <<spec, repl, stale, ready, registered, stuck, runs, schedules,
                   reported, budget>>

\* IsRunning, and UpdateReaperStatus(false) if it is not.
Ping ==
    /\ pc = "deploy" /\ todo = <<>>
    /\ IF ReaperUp THEN Goto("init") /\ UNCHANGED reported
       ELSE EndPass /\ reported' = FALSE
    /\ UNCHANGED <<spec, repl, stale, deployed, ready, registered, stuck, runs,
                   schedules, budget>>

\* ClusterExists; a request that times out may mean that Reaper has to be set up anew.
CheckCluster ==
    /\ pc = "init" /\ ReaperUp
    /\ \/ registered /\ ~stuck /\ Goto("status")
       \/ registered /\ stuck /\ Goto("delete")
       \/ ~registered /\ Goto("add")
    /\ UNCHANGED <<spec, repl, stale, reaperVars, budget>>

\* AddCluster, then the repairs of Reaper's keyspace and of system_auth.
AddCluster ==
    /\ pc = "add" /\ ReaperUp
    /\ registered' = TRUE
    /\ Repair(ReaperKs, "initauth")
    /\ UNCHANGED <<spec, repl, stale, deployed, ready, stuck, runs, schedules,
                   reported, budget>>

\* Mutant of RepairAuthInit: "the missing repair" is forgotten.
SkipAuthInit ==
    /\ pc = "initauth"
    /\ Goto("status")
    /\ UNCHANGED <<spec, repl, stale, reaperVars, budget>>

\* "we had to modify system_auth keyspace before we had reaper [...] So run the
\* missing repair now."
RepairAuthInit ==
    /\ pc = "initauth"
    /\ Repair(Auth, "status")
    /\ UNCHANGED <<spec, repl, stale, reaperVars, budget>>

\* DeleteCluster: runs are paused and deleted, then the schedules, everyone's.
DeleteRun(k) ==
    /\ pc = "delete" /\ ReaperUp
    /\ \/ /\ runs[k]["RUNNING"] > 0
          /\ runs' = [runs EXCEPT ![k]["RUNNING"] = @ - 1, ![k]["PAUSED"] = @ + 1]
       \/ \E s \in RunStates \ {"RUNNING"} :
             runs[k][s] > 0 /\ runs' = [runs EXCEPT ![k][s] = @ - 1]
    /\ stale' = [stale EXCEPT ![k] = IF @ = "repairing" THEN "altered" ELSE @]
    /\ Goto("delete")
    /\ UNCHANGED <<spec, repl, deployed, ready, registered, stuck, schedules, reported,
                   budget>>

NoRuns == \A k \in Keyspaces, s \in RunStates : runs[k][s] = 0

DeleteAnySchedule(s) ==
    /\ pc = "delete" /\ ReaperUp /\ NoRuns
    /\ s \in schedules
    /\ schedules' = schedules \ {s}
    /\ Goto("delete")
    /\ UNCHANGED <<spec, repl, stale, deployed, ready, registered, stuck, runs,
                   reported, budget>>

\* Mutant of DeleteCluster: the runs and schedules are deleted, the cluster is not.
DeleteClusterContents ==
    /\ pc = "delete" /\ ReaperUp /\ NoRuns /\ schedules = {}
    /\ Goto("readd")
    /\ UNCHANGED <<spec, repl, stale, reaperVars, budget>>

DeleteCluster ==
    /\ pc = "delete" /\ ReaperUp /\ NoRuns /\ schedules = {}
    /\ registered' = FALSE /\ stuck' = FALSE
    /\ Goto("readd")
    /\ UNCHANGED <<spec, repl, stale, deployed, ready, runs, schedules, reported,
                   budget>>

\* reInitReaperIfNeeded adds the cluster again, without repairs.
ReAddCluster ==
    /\ pc = "readd" /\ ReaperUp
    /\ registered' = TRUE
    /\ Goto("restart")
    /\ UNCHANGED <<spec, repl, stale, deployed, ready, stuck, runs, schedules,
                   reported, budget>>

\* and restarts Reaper's pods by deleting them.
RestartReaper ==
    /\ pc = "restart"
    /\ ready' = {}
    /\ Goto("status")
    /\ UNCHANGED <<spec, repl, stale, deployed, registered, stuck, runs, schedules,
                   reported, budget>>

\* UpdateReaperStatus(true).
ReportReady ==
    /\ pc = "status"
    /\ reported' = TRUE
    /\ Goto("sched")
    /\ UNCHANGED <<spec, repl, stale, deployed, ready, registered, stuck, runs,
                   schedules, budget>>

\* A step that needs Reaper fails when none is ready, one about the cluster's runs
\* or schedules when Reaper does not know the cluster.
ReaperFails ==
    /\ pc \in {"init", "add", "delete", "readd", "runs", "create", "start", "sched",
               "pause", "unsched", "schedule"}
    /\ ~ReaperUp \/ (~registered /\ pc \in {"create", "schedule"})
    /\ EndPass
    /\ UNCHANGED <<spec, repl, stale, reaperVars, budget>>

-----------------------------------------------------------------------------
(* RunRepair.                                                              *)

\* Mutant of RunPending: only a run that is under way counts.
RunPendingRunning(k) == runs[k]["RUNNING"] > 0

\* "don't start a repair if there's one running or scheduled".
RunPending(k) == Active(k)

ListRuns ==
    /\ pc = "runs" /\ ReaperUp
    /\ IF RunPending(ks) THEN Goto(ret) ELSE Goto("create")
    /\ UNCHANGED <<spec, repl, stale, reaperVars, budget>>

CreateRun ==
    /\ pc = "create" /\ ReaperUp /\ registered
    /\ runs' = [runs EXCEPT ![ks]["NOT_STARTED"] = @ + 1]
    /\ Goto("start")
    /\ UNCHANGED <<spec, repl, stale, deployed, ready, registered, stuck, schedules,
                   reported, budget>>

\* setRepairState.
StartRun ==
    /\ pc = "start" /\ ReaperUp
    /\ runs' = [runs EXCEPT ![ks]["NOT_STARTED"] = @ - 1, ![ks]["RUNNING"] = @ + 1]
    /\ stale' = [stale EXCEPT ![ks] = IF @ = "altered" THEN "repairing" ELSE @]
    /\ Goto(ret)
    /\ UNCHANGED <<spec, repl, deployed, ready, registered, stuck, schedules, reported,
                   budget>>

-----------------------------------------------------------------------------
(* Repair schedules; a schedule's keyspace stands for keyspace and tables. *)

\* Mutant of filterOperatorRepairSchedules: everybody's schedules are taken.
AllSchedules == schedules

\* Schedules of other owners are left alone.
filterOperatorRepairSchedules == {s \in schedules : Own(s)}

ListSchedules ==
    /\ pc = "sched" /\ ReaperUp
    /\ listed' = filterOperatorRepairSchedules
    /\ pc' = "prune" /\ UNCHANGED <<cc, todo, ks, ret>>
    /\ UNCHANGED <<spec, repl, stale, reaperVars, budget>>

\* repairsToDelete; with schedules disabled that is every one of them.
repairsToDelete == {s \in listed : \A w \in SeqSet(Wanted(cc)) : w.ks # s.ks}

\* Remove the listed schedule s, in two steps, and go on with l.
Remove(s, l) == pc' = "pause" /\ ks' = s.ks /\ ret' = l /\ UNCHANGED <<cc, todo, listed>>

PruneSchedule ==
    /\ pc = "prune"
    /\ \/ \E s \in repairsToDelete : Remove(s, "prune")
       \/ /\ repairsToDelete = {}
          /\ pc' = "plan" /\ todo' = Wanted(cc) /\ UNCHANGED <<cc, listed, ks, ret>>
    /\ UNCHANGED <<spec, repl, stale, reaperVars, budget>>

\* Mutant of repairSchedulesEqual: a schedule that exists is taken for the wanted one.
SchedulesAlwaysEqual(s, w) == TRUE

\* repairSchedulesEqual does not look at the state of the schedule.
repairSchedulesEqual(s, w) == s.cfg = w.cfg

\* The next wanted schedule: kept, removed and created again, or created.
PlanSchedule ==
    /\ pc = "plan" /\ todo # <<>>
    /\ LET w == Head(todo)
           same == {s \in listed : s.ks = w.ks}
       IN  \/ /\ same # {} /\ \A s \in same : repairSchedulesEqual(s, w)
              /\ todo' = Tail(todo) /\ UNCHANGED <<pc, cc, listed, ks, ret>>
           \/ \E s \in same : ~repairSchedulesEqual(s, w) /\ Remove(s, "schedule")
           \/ same = {} /\ Goto("schedule")
    /\ UNCHANGED <<spec, repl, stale, reaperVars, budget>>

OwnOf(k) == {s \in schedules : s.ks = k /\ s \in {[t EXCEPT !.active = s.active] : t \in listed}}

\* removeRepairSchedule: SetRepairScheduleState, then DeleteRepairSchedule.
PauseSchedule ==
    /\ pc = "pause" /\ ReaperUp
    /\ schedules' = (schedules \ OwnOf(ks)) \cup {[s EXCEPT !.active = FALSE] : s \in OwnOf(ks)}
    /\ Goto("unsched")
    /\ UNCHANGED <<spec, repl, stale, deployed, ready, registered, stuck, runs,
                   reported, budget>>

DeleteSchedule ==
    /\ pc = "unsched" /\ ReaperUp
    /\ schedules' = schedules \ OwnOf(ks)
    /\ listed' = {s \in listed : s.ks # ks}
    /\ pc' = ret /\ UNCHANGED <<cc, todo, ks, ret>>
    /\ UNCHANGED <<spec, repl, stale, deployed, ready, registered, stuck, runs,
                   reported, budget>>

\* createRepairSchedule.
CreateSchedule ==
    /\ pc = "schedule" /\ ReaperUp /\ registered
    /\ schedules' = schedules \cup
          {[ks |-> Head(todo).ks, cfg |-> Head(todo).cfg, owner |-> "operator", active |-> TRUE]}
    /\ pc' = "plan" /\ todo' = Tail(todo) /\ UNCHANGED <<cc, listed, ks, ret>>
    /\ UNCHANGED <<spec, repl, stale, deployed, ready, registered, stuck, runs,
                   reported, budget>>

SchedulesDone ==
    /\ pc = "plan" /\ todo = <<>>
    /\ pc' = "keyspaces" /\ todo' = desiredKeyspaces /\ UNCHANGED <<cc, listed, ks, ret>>
    /\ UNCHANGED <<spec, repl, stale, reaperVars, budget>>

-----------------------------------------------------------------------------
PassStep ==
    \/ Begin \/ AlterAuth \/ RepairAuth \/ ReaperKeyspace \/ Deploy \/ Ping \/ CheckCluster
    \/ AddCluster \/ RepairAuthInit \/ DeleteCluster \/ ReAddCluster \/ RestartReaper
    \/ \E k \in Keyspaces : DeleteRun(k)
    \/ \E s \in schedules : DeleteAnySchedule(s)
    \/ ReportReady \/ ReaperFails \/ ListRuns \/ CreateRun \/ StartRun
    \/ ListSchedules \/ PruneSchedule \/ PlanSchedule \/ PauseSchedule \/ DeleteSchedule
    \/ CreateSchedule \/ SchedulesDone \/ AlterKeyspace \/ SkipKeyspace \/ PassDone

Next ==
    \/ PassStep \/ Abort \/ ReaperStuck
    \/ \E new \in Specs : EditSpec(new)
    \/ \E k \in Keyspaces : RunEnds(k)
    \/ \E k \in Extra : AddSchedule(k)
    \/ \E d \in DCs : ReaperStart(d) \/ ReaperStop(d)

\* Every pass is queued again; Reaper's pods start and its runs come to an end.
Fairness ==
    /\ WF_vars(PassStep)
    /\ \A d \in DCs : WF_vars(ReaperStart(d))
    /\ \A k \in Keyspaces : WF_vars(RunEnds(k))

Spec == Init /\ [][Next]_vars
FairSpec == Spec /\ Fairness

-----------------------------------------------------------------------------
(* The date of a schedule's first run.                                     *)

\* A moment is a day, counted from a Sunday, and a time of that day.
Earlier(a, b) == a.day < b.day \/ (a.day = b.day /\ a.time < b.time)
Weekday(m) == m.day % 7
checkSunday(day) == IF day = 0 THEN 7 ELSE day

\* Mutant of dateShift: the time of day is not compared on the same weekday.
SameDayShift(now, t) ==
    LET dowDiff == checkSunday(Weekday(now)) - checkSunday(Weekday(t)) IN
    IF dowDiff > 0 THEN 7 - dowDiff ELSE -dowDiff

dateShift(now, t) ==
    LET dowDiff == checkSunday(Weekday(now)) - checkSunday(Weekday(t)) IN
    IF dowDiff > 0 THEN 7 - dowDiff
    ELSE IF dowDiff < 0 THEN -dowDiff
    ELSE IF t.time < now.time THEN 7 ELSE 0

rescheduleTimestamp(now, t) ==
    IF Earlier(t, now) THEN [day |-> now.day + dateShift(now, t), time |-> t.time] ELSE t

-----------------------------------------------------------------------------
(* Properties.                                                             *)

Stops == {"idle", "auth", "authping", "reaperks", "deploy", "init", "add", "initauth", "delete",
          "readd", "restart", "status", "runs", "create", "start", "sched", "prune", "plan",
          "pause", "unsched", "schedule", "keyspaces"}
Schedules == [ks : Keyspaces, cfg : Nat, owner : {"operator", "user"}, active : BOOLEAN]

\* Every variable has its type: replication options are ones some spec asks for.
TypeOK ==
    /\ spec \in Specs /\ cc \in Specs
    /\ repl \in [Keyspaces -> Options]
    /\ stale \in [Keyspaces -> {"no", "altered", "repairing", "missed"}]
    /\ ready \subseteq DCs /\ deployed \subseteq DCs
    /\ registered \in BOOLEAN /\ stuck \in BOOLEAN
    /\ runs \in [Keyspaces -> [RunStates -> Nat]]
    /\ schedules \subseteq Schedules /\ listed \subseteq Schedules
    /\ reported \in BOOLEAN
    /\ pc \in Stops /\ ret \in Stops /\ ks \in Keyspaces
    /\ pc = "deploy" => todo \in Seq(DCs)
    /\ pc \in {"plan", "schedule"} => todo \in Seq([ks : Keyspaces, cfg : Nat])
    /\ pc = "keyspaces" => todo \in Seq(Keyspaces)
    /\ budget \in [FaultKinds -> Nat]

\* RunRepair: at most one run of a keyspace waits or is under way, whatever request
\* fails between the one that creates a run and the one that starts it.
OneActiveRun == \A k \in Keyspaces : runs[k]["NOT_STARTED"] + runs[k]["RUNNING"] <= 1

\* reconcileRepairSchedules leaves the schedules of other owners alone; they are lost
\* with the cluster's registration only (DeleteCluster).
OthersSchedulesKept ==
    [][\A s \in schedules : s \in schedules' \/ Own(s) \/ pc = "delete"]_vars

\* reconcileKeyspaces and its two companions: in the end every keyspace that exists
\* has the options of the spec, whatever fails on the way.
ReplicationConverges ==
    <>[](\A k \in Keyspaces :
            (repl[k] # NoKeyspace /\ (k \in Extra => k \in SeqSet(spec.sysKs)))
                => repl[k] = desiredReplicationOptions(spec, k))

\* reconcileKeyspaces and reaperInitialization: a keyspace that is altered while no
\* repair of it is pending is repaired afterwards, if no request fails and Reaper
\* stays up (Reaper's own keyspace is not: it is altered without a repair).
AlterIsRepaired ==
    \A k \in Keyspaces \ {ReaperKs} :
        (stale[k] = "altered" /\ NoFault) ~> (stale[k] # "altered" \/ ~NoFault)

\* reconcileRepairSchedules: in the end the operator's schedules are those of the
\* spec, although it removes one before it creates its successor; and they are
\* active, unless a request failed.
SchedulesConverge ==
    <>[]LET own == {s \in schedules : Own(s)}
        IN  /\ {[ks |-> s.ks, cfg |-> s.cfg] : s \in own} = SeqSet(Wanted(spec))
            /\ NoFault => \A s \in own : s.active

\* reInitReaperIfNeeded: in the end Reaper knows the cluster and answers, even if the
\* pass ends between the cluster's removal and its return.
ClusterWorks == <>[](registered /\ ~stuck)

\* "If the trigger time is set in the past, it will be moved to the first future date
\* preserving the day of the week" (docs/docs/reaper-repairs-configuration.md).
Times == 0..1
Moments == [day : 0..13, time : Times]
FirstFutureDate ==
    (pc = "schedule" /\ budget = Budget) => \A now \in [day : 7..13, time : Times], t \in Moments :
        LET r == rescheduleTimestamp(now, t) IN
        Earlier(t, now) =>
            /\ ~Earlier(r, now) /\ Weekday(r) = Weekday(t) /\ r.time = t.time
            /\ \/ r.day < now.day + 7
               \/ r.day = now.day + 7 /\ r.time < now.time
=============================================================================

------------------------------ MODULE Backups ------------------------------
(***************************************************************************)
(* The backup and the restore controller (controllers/cassandrabackup,     *)
(* controllers/cassandrarestore).  Each works on one resource at a time:   *)
(* it reads the resource from its cache, checks the cluster and the        *)
(* credentials, asks Icarus (controllers/icarus) for the operations it     *)
(* knows, sends a request if there is none yet or a failed one has to be   *)
(* repeated, and writes the state of the operation to the status.  Each of *)
(* these calls is a step here, and any of them may fail.                   *)
(*                                                                         *)
(* Icarus is external: it keeps the operations in memory, in the order of  *)
(* their creation times.  RUNNING, which the code treats like PENDING, and *)
(* the progress and errors that are copied to the status are left out.     *)
(***************************************************************************)
EXTENDS Integers, Sequences, FiniteSets

CONSTANTS
    Backups, Restores,   \* names of the resources
    SpecsOf,             \* the specs a user may try to write for each of them
    Pinned,              \* options that name a schema version
    Secrets,             \* the credentials secrets there may be, as sets of keys
    MaxOps,              \* bound on the operations of each kind Icarus knows
    Scenarios            \* what a behaviour starts with: the budget, the order Icarus
                         \* lists operations in, and the pairs of tags that end alike

Objects == Backups \cup Restores
Kinds == {"backup", "restore"}
Charges == {"edit", "env", "fault"} \cup Objects
Final == {"COMPLETED", "FAILED"}
States == {"", "PENDING"} \cup Final
KindOf(o) == IF o \in Backups THEN "backup" ELSE "restore"
ObjectsOf(k) == IF k = "backup" THEN Backups ELSE Restores

AwsProviders == {"s3", "minio", "oracle", "ceph"}
Protocols == AwsProviders \cup {"gcp", "azure"}
DefaultOption == 10

\* Mutant of validateStorageLocation: the webhook takes any protocol.
AnyLocation(p) == TRUE

\* The admission webhooks.
validateStorageLocation(p) == p \in Protocols
validateBackupCreateUpdate(s) == validateStorageLocation(s.provider) /\ s.duration
validateRestoreCreateUpdate(s) ==
    s.backup = "" => s.provider # "" /\ s.tag # "" /\ validateStorageLocation(s.provider)

\* The name stands for a tag that is not given.
TagOf(o, s) ==
    IF s.tag # "" THEN s.tag ELSE IF o \in Backups THEN o ELSE s.backup

AllSpecs == UNION {SpecsOf[o] : o \in Objects}
Tags == {""} \cup Backups \cup {s.tag : s \in AllSpecs}
SpecType == [backup : Backups \cup {""}, tag : Tags, opts : Nat,
             provider : Protocols \cup {"", "other"}, duration : BOOLEAN]
Admitted(o, s) ==
    IF o \in Backups THEN validateBackupCreateUpdate(s) ELSE validateRestoreCreateUpdate(s)

ASSUME BackupsAssumption ==
    /\ Backups \cap Restores = {}
    /\ AllSpecs \subseteq SpecType
    /\ MaxOps \in [Kinds -> Nat] /\ Scenarios # {}
    /\ \A c \in Scenarios : /\ c.budget \in [Charges -> Nat] /\ c.newestFirst \in BOOLEAN
                            /\ c.alike \subseteq Tags \X Tags
    /\ Objects \cap {"", "edit", "env", "fault"} = {}

NoSpec == [backup |-> "", tag |-> "", opts |-> 0, provider |-> "", duration |-> TRUE]
NoRequest == [kind |-> "backup", tag |-> "", opts |-> 0, provider |-> "", state |-> "PENDING"]
Absent == [exists |-> FALSE, spec |-> NoSpec, state |-> ""]
NoPass == [name |-> "", copy |-> Absent, fresh |-> FALSE, goal |-> "", req |-> NoRequest]

VARIABLES
    obj,          \* the resources in the API server
    cache,        \* as the controllers' cache has them
    fresh,        \* resources whose copy in the cache has the current version
    ops,          \* operations Icarus knows, the oldest first
    ended,        \* <<kind, tag, state>> of every operation that has ended
    sent,         \* requests sent for each resource since it was created
    secret,       \* keys of the credentials secret
    clusterReady, \* the CassandraCluster exists and is ready
    newestFirst,  \* whether Icarus lists the newest operation first
    alike,        \* pairs of tags where the second ends with the first
    pc,           \* where each controller's pass is
    cur,          \* the resource it works on, as it read it, and what it is to write
    budget,       \* faults and edits that are left
    limit         \* of so many

icarusVars == <<ops, ended, newestFirst, alike>>
passVars == <<pc, cur>>
envVars == <<secret, clusterReady>>
apiVars == <<obj, cache, fresh>>
vars == <<apiVars, icarusVars, sent, envVars, passVars, budget, limit>>

Spend(b) == budget[b] > 0 /\ budget' = [budget EXCEPT ![b] = @ - 1] /\ UNCHANGED limit

Init ==
    /\ obj = [o \in Objects |-> Absent] /\ cache = obj /\ fresh = Objects
    /\ ops = <<>> /\ ended = {} /\ sent = [o \in Objects |-> 0]
    /\ secret \in Secrets /\ clusterReady = FALSE
    /\ \E c \in Scenarios : /\ newestFirst = c.newestFirst /\ alike = c.alike
                            /\ budget = c.budget /\ limit = c.budget
    /\ pc = [k \in Kinds |-> "idle"]
    /\ cur = [k \in Kinds |-> NoPass]

-----------------------------------------------------------------------------
(* The API server, the users and Icarus (external).                        *)

\* A resource version tells a copy that is out of date; a pass that has one goes on.
Put(o, new) == obj' = [obj EXCEPT ![o] = new]
Outdate(o) == [k \in Kinds |-> [cur[k] EXCEPT !.fresh = @ /\ cur[k].name # o]]

\* A write becomes visible in the cache now, or later.
Cached(o) == cache' = [cache EXCEPT ![o] = obj'[o]] /\ fresh' = fresh \cup {o}
NotCached(o) == budget["fault"] > 0 /\ UNCHANGED cache /\ fresh' = fresh \ {o}
Sync(o) ==
    /\ o \notin fresh
    /\ cache' = [cache EXCEPT ![o] = obj[o]] /\ fresh' = fresh \cup {o}
    /\ UNCHANGED <<obj, icarusVars, sent, envVars, passVars, budget, limit>>

UserWrites(o, new) == Put(o, new) /\ Cached(o) /\ cur' = Outdate(o) /\ UNCHANGED pc

Create(o, s) ==
    /\ ~obj[o].exists /\ Admitted(o, s) /\ Spend(o)
    /\ UserWrites(o, [exists |-> TRUE, spec |-> s, state |-> ""])
    /\ sent' = [sent EXCEPT ![o] = 0]
    /\ UNCHANGED <<icarusVars, envVars>>

Edit(o, s) ==
    /\ obj[o].exists /\ s # obj[o].spec /\ Admitted(o, s) /\ Spend("edit")
    /\ UserWrites(o, [obj[o] EXCEPT !.spec = s])
    /\ UNCHANGED <<icarusVars, sent, envVars>>

\* Deleted to be created again.
Delete(o) ==
    /\ obj[o].exists /\ budget[o] > 0
    /\ UserWrites(o, Absent)
    /\ UNCHANGED <<icarusVars, sent, envVars, budget, limit>>

Environment ==
    /\ Spend("env")
    /\ secret' \in Secrets /\ clusterReady' \in BOOLEAN
    /\ UNCHANGED <<apiVars, icarusVars, sent, passVars>>

OpEnds(i, s) ==
    /\ ops[i].state = "PENDING"
    /\ ops' = [ops EXCEPT ![i].state = s]
    /\ ended' = ended \cup {<<ops[i].kind, ops[i].tag, s>>}
    /\ UNCHANGED <<apiVars, newestFirst, alike, sent, envVars, passVars, budget, limit>>

\* The coordinator's pod restarts: "only that pod has the global request info".
IcarusRestart ==
    /\ ops # <<>> /\ Spend("fault")
    /\ ops' = <<>>
    /\ UNCHANGED <<apiVars, ended, newestFirst, alike, sent, envVars, passVars>>

-----------------------------------------------------------------------------
(* The controllers.                                                        *)

\* ValidateStorageSecret.
ValidateStorageSecret(keys, p) ==
    /\ p \in AwsProviders =>
          /\ {"awssecretaccesskey", "awsaccesskeyid"} \subseteq keys => "awsregion" \in keys
          /\ "awsendpoint" \in keys => "awsregion" \in keys
    /\ p = "gcp" => "gcp" \in keys
    /\ p = "azure" => {"azurestorageaccount", "azurestoragekey"} \subseteq keys

\* The CassandraBackup a restore refers to, if any: the zero value otherwise.
BaseOf(o, s) == IF s.backup # "" THEN cache[s.backup].spec ELSE NoSpec

EndPass(k) ==
    /\ pc' = [pc EXCEPT ![k] = "idle"]
    /\ cur' = [cur EXCEPT ![k] = NoPass]

\* A call fails, or the operator restarts.
Abort(k) ==
    /\ pc[k] # "idle" /\ Spend("fault")
    /\ EndPass(k)
    /\ UNCHANGED <<apiVars, icarusVars, sent, envVars>>

\* createBackupRequest and createRestoreReq: zero options get their defaults; a
\* restore takes the location of its backup if it has none.
WithDefault(opts) == IF opts = 0 THEN DefaultOption ELSE opts
createBackupRequest(o, s) ==
    [kind |-> "backup", tag |-> TagOf(o, s), opts |-> WithDefault(s.opts),
     provider |-> s.provider, state |-> "PENDING"]
createRestoreReq(o, s) ==
    [kind |-> "restore", tag |-> TagOf(o, s), opts |-> WithDefault(s.opts),
     provider |-> IF s.provider = "" THEN BaseOf(o, s).provider ELSE s.provider,
     state |-> "PENDING"]

\* Icarus appends the schema version to a backup's tag: the code looks for the tag
\* followed by it, anywhere in the name.
Matches(k, t, u) == t = u \/ (k = "backup" /\ <<t, u>> \in alike)

\* The answers of the client's Backups and Restores: the operations of a tag.
ListBackups(o, s) ==
    {i \in DOMAIN ops : ops[i].kind = "backup" /\ Matches("backup", TagOf(o, s), ops[i].tag)}
ListRestores(o, s) ==
    {i \in DOMAIN ops : ops[i].kind = "restore" /\ Matches("restore", TagOf(o, s), ops[i].tag)}

\* The backup created last, and the restore listed first, if there is one.
findRelatedBackup(o, s) ==
    {i \in ListBackups(o, s) : \A j \in ListBackups(o, s) : j <= i}
findRelatedIcarusRestore(o, s) ==
    {i \in ListRestores(o, s) :
        \A j \in ListRestores(o, s) : IF newestFirst THEN j <= i ELSE i <= j}

\* Everything but the tag is compared.  Of the restore that failed the schema version
\* is not known, so that one which names a version always differs.
backupConfigChanged(op, req) == op.opts # req.opts \/ op.provider # req.provider
restoreConfigChanged(op, req) ==
    op.opts # req.opts \/ op.provider # req.provider \/ req.opts \in Pinned

\* A failed operation is repeated if Icarus still knows it and the request is another.
reconcileFailedBackup(o, s) ==
    \E i \in findRelatedBackup(o, s) : backupConfigChanged(ops[i], createBackupRequest(o, s))
reconcileFailedRestore(o, s) ==
    \E i \in findRelatedIcarusRestore(o, s) :
        restoreConfigChanged(ops[i], createRestoreReq(o, s))

\* Mutant of MayBackup: a backup that was requested is left alone.
MayBackupOnce(o, copy) ==
    /\ copy.exists /\ copy.state \in {"", "FAILED"} /\ clusterReady
    /\ ValidateStorageSecret(secret, copy.spec.provider)

\* Reconcile up to the call of Icarus: a completed operation is left alone, and without
\* cluster, backup or credentials the pass is repeated later.
MayBackup(o, copy) ==
    /\ copy.exists /\ copy.state # "COMPLETED" /\ clusterReady
    /\ ValidateStorageSecret(secret, copy.spec.provider)
MayRestore(o, copy) ==
    /\ copy.exists /\ copy.state # "COMPLETED" /\ clusterReady
    /\ copy.spec.backup # "" => cache[copy.spec.backup].exists
    /\ ValidateStorageSecret(secret, BaseOf(o, copy.spec).provider)

\* What the pass is to do next: send a request, or show another state.
Go(o, l, new, request) ==
    LET k == KindOf(o) IN
    /\ pc[k] = "idle" /\ pc' = [pc EXCEPT ![k] = l]
    /\ cur' = [cur EXCEPT ![k] = [name |-> o, copy |-> cache[o], fresh |-> o \in fresh,
                                  goal |-> new, req |-> request]]

\* A pass with an outdated copy counts as a fault.
ReadCache(o) ==
    \/ o \in fresh /\ UNCHANGED <<budget, limit>>
    \/ o \notin fresh /\ Spend("fault")

\* Mutant of NeedsBackup: a failed backup is repeated as it is.
RepeatFailed(o, copy) == ListBackups(o, copy.spec) = {} \/ copy.state \in {"", "FAILED"}

\* "create if not found or found, but it's a new backup with the same tag".
NeedsBackup(o, copy) ==
    IF copy.state = "FAILED" THEN reconcileFailedBackup(o, copy.spec)
    ELSE ListBackups(o, copy.spec) = {} \/ copy.state = ""

reconcileBackup(o) ==
    LET copy == cache[o]
        req == createBackupRequest(o, copy.spec)
    IN  /\ MayBackup(o, copy)
        /\ \/ NeedsBackup(o, copy) /\ Go(o, "post", "PENDING", req)
           \/ /\ ~NeedsBackup(o, copy) /\ copy.state # "FAILED"
              /\ \E i \in findRelatedBackup(o, copy.spec) :
                    ops[i].state # copy.state /\ Go(o, "status", ops[i].state, req)
        /\ ReadCache(o)
        /\ UNCHANGED <<apiVars, icarusVars, sent, envVars>>

NeedsRestore(o, copy) ==
    IF copy.state = "FAILED" THEN reconcileFailedRestore(o, copy.spec)
    ELSE ListRestores(o, copy.spec) = {}

reconcileRestore(o) ==
    LET copy == cache[o]
        req == createRestoreReq(o, copy.spec)
    IN  /\ MayRestore(o, copy)
        /\ \/ NeedsRestore(o, copy) /\ Go(o, "post", "", req)
           \/ /\ ~NeedsRestore(o, copy) /\ copy.state # "FAILED"
              /\ \E i \in findRelatedIcarusRestore(o, copy.spec) :
                    ops[i].state # copy.state /\ Go(o, "status", ops[i].state, req)
        /\ ReadCache(o)
        /\ UNCHANGED <<apiVars, icarusVars, sent, envVars>>

\* Icarus accepts the request.
Accept(k) ==
    /\ pc[k] = "post" /\ Cardinality({i \in DOMAIN ops : ops[i].kind = k}) < MaxOps[k]
    /\ ops' = Append(ops, cur[k].req)
    /\ sent' = [sent EXCEPT ![cur[k].name] = @ + 1]
    /\ UNCHANGED <<apiVars, ended, newestFirst, alike, envVars>>

\* Backup answers with the new operation, whose state becomes the status.
PostBackup ==
    /\ Accept("backup")
    /\ pc' = [pc EXCEPT !["backup"] = "status"]
    /\ UNCHANGED <<cur, budget, limit>>

\* Restore answers with nothing; only the status of a failed restore is reset at once.
PostRestore ==
    /\ Accept("restore")
    /\ IF cur["restore"].copy.state = "FAILED"
       THEN pc' = [pc EXCEPT !["restore"] = "status"] /\ UNCHANGED cur
       ELSE EndPass("restore")
    /\ UNCHANGED <<budget, limit>>

\* The answer is lost.
PostUnanswered(k) == Accept(k) /\ Spend("fault") /\ EndPass(k)

\* Mutant of NoConflict: the status is written whatever has been written meanwhile.
WriteAnyway(k) == obj[cur[k].name].exists

\* Status().Update is refused unless the resource is the one that was read.
NoConflict(k) == cur[k].fresh

\* reconcileStatus; a conflict ends the pass like an error.
reconcileStatus(k) ==
    LET o == cur[k].name IN
    /\ pc[k] = "status"
    /\ IF NoConflict(k)
       THEN Put(o, [obj[o] EXCEPT !.state = cur[k].goal]) /\ (Cached(o) \/ NotCached(o))
       ELSE UNCHANGED apiVars
    /\ EndPass(k)
    /\ UNCHANGED <<icarusVars, sent, envVars, budget, limit>>
BackupStatus == reconcileStatus("backup")
RestoreStatus == reconcileStatus("restore")

-----------------------------------------------------------------------------
BackupStep == PostBackup \/ BackupStatus
RestoreStep == PostRestore \/ RestoreStatus

Next ==
    \/ BackupStep \/ RestoreStep
    \/ \E k \in Kinds : PostUnanswered(k) \/ Abort(k)
    \/ \E o \in Backups : reconcileBackup(o)
    \/ \E o \in Restores : reconcileRestore(o)
    \/ \E o \in Objects :
          \/ Sync(o) \/ Delete(o)
          \/ \E s \in SpecsOf[o] : Create(o, s) \/ Edit(o, s)
    \/ \E i \in DOMAIN ops, s \in Final : OpEnds(i, s)
    \/ Environment \/ IcarusRestart

\* Each controller's queue serves every resource in turn, and operations end.
Fairness ==
    /\ WF_vars(BackupStep) /\ WF_vars(RestoreStep)
    /\ \A o \in Backups : SF_vars(reconcileBackup(o))
    /\ \A o \in Restores : SF_vars(reconcileRestore(o))
    /\ \A o \in Objects : WF_vars(Sync(o))
    /\ WF_vars(\E i \in DOMAIN ops, s \in Final : OpEnds(i, s))

Spec == Init /\ [][Next]_vars
FairSpec == Spec /\ Fairness

-----------------------------------------------------------------------------
(* Properties.                                                             *)

Requests == [kind : Kinds, tag : Tags, opts : Nat, provider : Protocols \cup {"", "other"},
             state : States \ {""}]
Copies == [exists : BOOLEAN, spec : SpecType, state : States]

\* Every variable has its type: what the webhooks let through is valid.
TypeOK ==
    /\ obj \in [Objects -> Copies] /\ cache \in [Objects -> Copies]
    /\ fresh \subseteq Objects
    /\ \A o \in Backups : obj[o].exists => obj[o].spec.provider \in Protocols
    /\ ops \in Seq(Requests) /\ ended \subseteq Kinds \X Tags \X Final
    /\ sent \in [Objects -> Nat]
    /\ secret \in Secrets /\ clusterReady \in BOOLEAN
    /\ newestFirst \in BOOLEAN /\ alike \subseteq Tags \X Tags
    /\ pc \in [Kinds -> {"idle", "post", "status"}]
    /\ cur \in [Kinds -> [name : Objects \cup {""}, copy : Copies, fresh : BOOLEAN,
                          goal : States, req : Requests]]
    /\ budget \in [Charges -> Nat] /\ limit \in [Charges -> Nat]

\* What the abstract specification sees.
shownBar == [o \in Objects |-> obj[o].state]
keyBar == [o \in Objects |-> <<KindOf(o), TagOf(o, obj[o].spec)>>]
outcomesBar ==
    {p \in (Kinds \X Tags) \X Final :
        \E e \in ended : e[1] = p[1][1] /\ Matches(p[1][1], p[1][2], e[2]) /\ e[3] = p[2]}

Op == INSTANCE Operations
        WITH Resources <- Objects, Keys <- Kinds \X Tags,
             shown <- shownBar, key <- keyBar, outcomes <- outcomesBar

\* The promise of module Operations, which both controllers keep whatever fails: the
\* status shows a state the operation of that tag has reached, COMPLETED is final, and
\* FAILED is left for a new request only.
StatusIsTrue == Op!Spec

\* A tag nobody else's operations match.
Unshared(o) ==
    \A p \in ObjectsOf(KindOf(o)) \ {o} : \A s \in SpecsOf[o], t \in SpecsOf[p] :
        ~Matches(KindOf(o), TagOf(o, s), TagOf(p, t))

\* Creations, edits and faults so far.
Charged(o) == (limit[o] - budget[o]) + (limit["edit"] - budget["edit"])
              + (limit["fault"] - budget["fault"])

\* reconcileBackup, "create if not found": a backup that nobody edits is requested
\* once, and every further request is due to another creation, to an edit, or to one
\* fault that kept the operator from knowing of the request it had sent.
RequestsAccounted == \A o \in Backups : Unshared(o) => sent[o] <= Charged(o)

Runnable(o) == obj[o].exists /\ clusterReady
                 /\ ValidateStorageSecret(secret, obj[o].spec.provider)
LastOp(o) == LET mine == {i \in DOMAIN ops : ops[i].kind = KindOf(o)
                                               /\ ops[i].tag = TagOf(o, obj[o].spec)}
             IN  IF mine = {} THEN "" ELSE ops[CHOOSE i \in mine : \A j \in mine : j <= i].state
NoFault == budget["fault"] = limit["fault"]

\* "To track progress of the backup process you can see the status of the object"
\* (docs/docs/backup-restore.md): in the end the status of every backup is final, and
\* unless a call failed it is the state of its last operation.
BackupsSettle ==
    \A o \in Backups :
        <>[](Runnable(o) => /\ obj[o].state \in Final
                            /\ (NoFault /\ Unshared(o)) => obj[o].state = LastOp(o))
=============================================================================

----------------------------- MODULE AdminAuth -----------------------------
(***************************************************************************)
(* The credentials the operator manages Cassandra with.                    *)
(*                                                                         *)
(* The user keeps the wanted role and password in the base secret.  The    *)
(* operator keeps the credentials in use in the active secret, which is    *)
(* immutable and therefore deleted and created again                       *)
(* (controllers/admin_auth.go), creates or alters the role in Cassandra    *)
(* (controllers/role_admin.go) and finally drops the role a new cluster    *)
(* starts with (controllers/default_role.go).  The prober takes the        *)
(* credentials of its JMX requests from the events of the active secret    *)
(* (prober/prober/auth_secret.go); without them no node is ready.          *)
(***************************************************************************)
EXTENDS Integers, Sequences

CONSTANTS
    Roles,        \* role names but the default one
    Passwords,    \* passwords but the default one
    Starts,       \* ways the model starts: "fresh", "storage", "running"
    InitBase,     \* the base secret at the start, for each way to start
    Edits,        \* pairs <<old, new>> of credentials: what the user may change
    Persistence,  \* TRUE if the nodes use persistent volume claims
    MaxEvents,    \* bound on events of the active secret on their way to the prober
    Budget        \* how often each fault, and each edit, may happen

DefaultRole == "cassandra"
AllRoles == Roles \cup {DefaultRole}
NoPassword == "none"
Creds == [role : AllRoles, password : Passwords \cup {"cassandra"}]
Default == [role |-> DefaultRole, password |-> "cassandra"]
NoSecret == [role |-> DefaultRole, password |-> NoPassword]
FaultKinds == {"edit", "early", "restart", "propagation", "down"}

ASSUME AdminAuthAssumption ==
    /\ DefaultRole \notin Roles /\ Passwords \cap {"cassandra", NoPassword} = {}
    /\ Starts \subseteq {"fresh", "storage", "running"}
    /\ InitBase \in [Starts -> Creds \ {Default}]
    /\ Edits \subseteq Creds \X Creds
    /\ Persistence \in BOOLEAN
    /\ "storage" \in Starts => Persistence
    /\ MaxEvents \in Nat \ {0}
    /\ Budget \in [FaultKinds -> Nat]

VARIABLES
    base,     \* the secret the user provides
    active,   \* the active admin secret
    config,   \* the admin auth config secret: credentials in use
    roles,    \* roles in Cassandra: the password, NoPassword if there is none
    pvcs,     \* claims with the labels of the cluster exist
    up,       \* the nodes run and take CQL sessions
    events,   \* additions of the active secret the prober has not seen yet
    probe,    \* credentials of the prober's JMX requests
    pc,       \* where the reconcile pass is
    desired,  \* the pass's desiredRole and desiredPassword
    next,     \* the credentials the pass puts into the secrets
    after,    \* where the pass goes on when the secrets are written
    budget    \* faults and edits that are left

kubeVars == <<base, active, config, pvcs>>
proberVars == <<events, probe>>
passVars == <<pc, desired, next, after>>
vars == <<kubeVars, roles, up, proberVars, passVars, budget>>

Spend(k) == budget[k] > 0 /\ budget' = [budget EXCEPT ![k] = @ - 1]

\* CqlClient with credentials c: a session is only possible with a valid password.
Valid(c) == c.password # NoPassword /\ roles[c.role] = c.password
CanLogin(c) == up /\ Valid(c)

OnlyRole(c) == [r \in AllRoles |-> IF r = c.role THEN c.password ELSE NoPassword]

Init ==
    \E s \in Starts :
    /\ base = InitBase[s]
    /\ active = IF s = "running" THEN base ELSE NoSecret
    /\ config = active
    /\ roles = OnlyRole(IF s = "fresh" THEN Default ELSE base)
    /\ pvcs = (s = "storage" \/ (s = "running" /\ Persistence))
    /\ up = (s = "running")
    /\ events = <<>> /\ probe = active
    /\ pc = "idle" /\ desired = NoSecret /\ next = NoSecret /\ after = "idle"
    /\ budget = Budget

-----------------------------------------------------------------------------
(* The user, the nodes (external) and the prober.                          *)

EditBase(new) ==
    /\ <<base, new>> \in Edits
    /\ Spend("edit")
    /\ base' = new
    /\ UNCHANGED <<active, config, pvcs, roles, up, proberVars, passVars>>

\* The pods mount the admin auth config secret, so they start once it exists.
NodesStart ==
    /\ ~up /\ config # NoSecret
    /\ up' = TRUE
    /\ pvcs' = (pvcs \/ Persistence)
    /\ UNCHANGED <<base, active, config, roles, proberVars, passVars, budget>>

\* The nodes are out of reach for a while; they keep their roles.
NodesStop ==
    /\ up /\ Spend("down")
    /\ up' = FALSE
    /\ UNCHANGED <<kubeVars, roles, proberVars, passVars>>

\* handleAddAuthSecret: a secret that is added, and nothing else, changes them.
SeeEvent ==
    /\ events # <<>>
    /\ events' = Tail(events)
    /\ probe' = Head(events)
    /\ UNCHANGED <<kubeVars, roles, up, passVars, budget>>

-----------------------------------------------------------------------------
(* The operator's reconcile pass.                                          *)

EndPass == pc' = "idle" /\ desired' = NoSecret /\ next' = NoSecret /\ after' = "idle"

\* An error ends the pass; it is queued again.
Fail == EndPass /\ UNCHANGED <<kubeVars, roles, up, proberVars, budget>>
Goto(l) == pc' = l /\ UNCHANGED <<desired, next, after>>

\* Write credentials c into the secrets and go on with l.
WriteSecrets(c, l) == pc' = "active" /\ next' = c /\ after' = l /\ UNCHANGED desired

\* The base secret is read once, at the start of the pass.
Begin ==
    /\ pc = "idle"
    /\ pc' = "auth" /\ desired' = base
    /\ UNCHANGED <<kubeVars, roles, up, proberVars, next, after, budget>>

\* Mutant of BootstrapCreds: existing storage is not looked at.
BootstrapDefault == Default

\* createClusterAdminSecrets: a cluster with storage keeps the user's credentials.
BootstrapCreds == IF Persistence /\ pvcs THEN desired ELSE Default

\* reconcileAdminAuth: without an active secret the cluster is bootstrapped, with
\* the default role in use the change is left to reconcileAdminRole.
ReconcileAdminAuth ==
    /\ pc = "auth"
    /\ \/ active = NoSecret /\ WriteSecrets(BootstrapCreds, "ready")
       \/ active \in {Default, desired} /\ Goto("ready")
       \/ active \notin {NoSecret, Default, desired} /\ Goto("change")
    /\ UNCHANGED <<kubeVars, roles, up, proberVars, budget>>

\* CreateRole and UpdateRolePassword.
SetRole(c) == roles' = [roles EXCEPT ![c.role] = c.password]

\* CREATE ROLE fails if the role exists, ALTER ROLE changes the password.
CanChange == active.role = desired.role \/ roles[desired.role] = NoPassword

\* Mutant of ChangeRole: the new role is only looked for, never set up.
ChangeNothing ==
    /\ pc = "change" /\ CanLogin(active)
    /\ WriteSecrets(desired, "ready")
    /\ UNCHANGED <<kubeVars, roles, up, proberVars, budget>>

\* updateAdminRoleInCassandra: credentials that work already are left alone.
ChangeRole ==
    /\ pc = "change"
    /\ \/ /\ CanLogin(desired)
          /\ Goto("verify")
          /\ UNCHANGED <<kubeVars, roles, up, proberVars, budget>>
       \/ /\ ~CanLogin(desired) /\ CanLogin(active) /\ CanChange
          /\ SetRole(desired)
          /\ Goto("verify")
          /\ UNCHANGED <<kubeVars, up, proberVars, budget>>
       \/ /\ ~CanLogin(desired) /\ (CanLogin(active) => ~CanChange)
          /\ Fail

\* The new credentials have to work within three attempts.
VerifyRole ==
    /\ pc = "verify"
    /\ \/ /\ CanLogin(desired)
          /\ WriteSecrets(desired, "ready")
          /\ UNCHANGED budget
       \/ ~CanLogin(desired) /\ EndPass /\ UNCHANGED budget
       \/ Spend("propagation") /\ EndPass
    /\ UNCHANGED <<kubeVars, roles, up, proberVars>>

\* The event of a new active secret on its way to the prober.
Notify(c) == Len(events) < MaxEvents /\ events' = Append(events, c)

\* reconcileActiveAdminSecret: an immutable secret is deleted first.
WriteActive ==
    /\ pc = "active"
    /\ \/ /\ active = next
          /\ Goto("config")
          /\ UNCHANGED <<active, events>>
       \/ /\ active = NoSecret
          /\ active' = next /\ Notify(next)
          /\ Goto("config")
       \/ /\ active \notin {next, NoSecret}
          /\ active' = NoSecret /\ UNCHANGED events
          /\ Goto("create")
    /\ UNCHANGED <<base, config, pvcs, roles, up, probe, budget>>

CreateActive ==
    /\ pc = "create"
    /\ active' = next /\ Notify(next)
    /\ Goto("config")
    /\ UNCHANGED <<base, config, pvcs, roles, up, probe, budget>>

\* Where the pass goes on when the secrets are written.
Written ==
    IF after = "idle" THEN EndPass
    ELSE pc' = after /\ next' = NoSecret /\ after' = "idle" /\ UNCHANGED desired

\* Mutant of WriteConfig: a secret that exists is left alone.
WriteConfigOnce ==
    /\ pc = "config"
    /\ config' = IF config = NoSecret THEN next ELSE config
    /\ Written
    /\ UNCHANGED <<base, active, pvcs, roles, up, proberVars, budget>>

\* reconcileAdminAuthConfigSecret.
WriteConfig ==
    /\ pc = "config"
    /\ config' = next
    /\ Written
    /\ UNCHANGED <<base, active, pvcs, roles, up, proberVars, budget>>

\* clusterReady: nodes are ready if the prober's credentials are accepted.
CheckReady ==
    /\ pc = "ready"
    /\ IF CanLogin(probe) THEN Goto("role") ELSE EndPass
    /\ UNCHANGED <<kubeVars, roles, up, proberVars, budget>>

\* reconcileAdminRole: the first pass of a new cluster creates the role with a
\* session of the default role.  The secrets are written even if no attempt to log
\* in with the new role succeeds; the pass then fails for want of a session.
ReconcileAdminRole ==
    /\ pc = "role"
    /\ \/ /\ CanLogin(desired)
          /\ WriteSecrets(desired, "default")
          /\ UNCHANGED <<kubeVars, roles, up, proberVars, budget>>
       \/ /\ ~CanLogin(desired) /\ CanLogin(Default) /\ roles[desired.role] = NoPassword
          /\ SetRole(desired)
          /\ \/ WriteSecrets(desired, "default") /\ UNCHANGED budget
             \/ WriteSecrets(desired, "idle") /\ Spend("propagation")
          /\ UNCHANGED <<kubeVars, up, proberVars>>
       \/ /\ ~CanLogin(desired) /\ (CanLogin(Default) => roles[desired.role] # NoPassword)
          /\ Fail

\* Mutant of MayDrop: the default role is kept.
NeverDrop == FALSE

\* removeDefaultRoleIfExists reads the base secret again; Cassandra does not drop
\* the role of the session.
MayDrop == CanLogin(Default) /\ base # Default /\ desired.role # DefaultRole

RemoveDefaultRole ==
    /\ pc = "default"
    /\ roles' = IF MayDrop THEN [roles EXCEPT ![DefaultRole] = NoPassword] ELSE roles
    /\ EndPass
    /\ UNCHANGED <<kubeVars, up, proberVars, budget>>

\* The operator restarts, or an API request fails; "early" is before the secrets
\* have been created for the first time.
Restart ==
    /\ pc # "idle"
    /\ Spend(IF config = NoSecret THEN "early" ELSE "restart")
    /\ EndPass
    /\ UNCHANGED <<kubeVars, roles, up, proberVars>>

-----------------------------------------------------------------------------
PassStep ==
    \/ Begin \/ ReconcileAdminAuth \/ ChangeRole \/ VerifyRole \/ WriteActive
    \/ CreateActive \/ WriteConfig \/ CheckReady \/ ReconcileAdminRole
    \/ RemoveDefaultRole

Next ==
    \/ PassStep \/ Restart \/ NodesStart \/ NodesStop \/ SeeEvent
    \/ \E new \in Creds : EditBase(new)

\* The operator requeues every pass; the nodes and the prober keep running.
Fairness == WF_vars(PassStep) /\ WF_vars(NodesStart) /\ WF_vars(SeeEvent)

Spec == Init /\ [][Next]_vars
FairSpec == Spec /\ Fairness

-----------------------------------------------------------------------------
(* Properties.                                                             *)

\* createClusterAdminSecrets, handleAdminRoleChange and reconcileAdminRole write
\* credentials into the active secret only if Cassandra accepts them: what the
\* operator and the prober find there works when it is written.
ActiveIsValid == [][active' \notin {active, NoSecret} => Valid(active')]_vars

\* removeDefaultRoleIfExists and the password change never take away the last
\* credentials the operator knows of: those in the secrets, or the default ones.
NotLockedOut == \E c \in {base, active, Default} : Valid(c)

\* "the user just needs to change the role password (and also the role name if
\* desired) in the provided secret" (docs/docs/admin-auth.md): in the end the
\* credentials of the base secret work, and everyone uses them.
ChangeTakesEffect == <>[](Valid(base) /\ active = base /\ config = base /\ probe = base)

\* "drop the default role for security reasons" (docs/docs/admin-auth.md): in the
\* end nobody can log in with the default credentials the user does not ask for.
DefaultIsDropped == <>[](base # Default => ~Valid(Default))
=============================================================================

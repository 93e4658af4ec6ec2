-------------------------- MODULE AdminAuthProofs --------------------------
(***************************************************************************)
(* Proofs about AdminAuth, for every set of roles and passwords and every  *)
(* number of restarts, slow propagations and outages: while the base       *)
(* secret of a running cluster changes at most once, the active secret     *)
(* never gets credentials Cassandra does not accept, and the operator      *)
(* never loses the last credentials that work.                             *)
(***************************************************************************)
EXTENDS AdminAuth, TLAPS

\* The user changes the base secret at most once, and not while a cluster is being
\* set up.  The active secret is deleted and created again: a restart in between is
\* only survived by a cluster whose volumes tell it from a new one.
OneChangeOnly ==
    /\ Budget["edit"] <= 1
    /\ \A e \in Edits, s \in Starts : s # "running" => e[1] # InitBase[s]
    /\ Persistence \/ Budget["restart"] = 0

-----------------------------------------------------------------------------
(* The inductive invariant.                                                *)

PCs == {"idle", "auth", "change", "verify", "active", "create", "config", "ready", "role",
        "default"}

TypeInv ==
    /\ base \in Creds /\ active \in Creds \cup {NoSecret}
    /\ roles \in [AllRoles -> Passwords \cup {"cassandra", NoPassword}]
    /\ pvcs \in BOOLEAN /\ up \in BOOLEAN
    /\ pc \in PCs /\ after \in {"idle", "ready", "default"}
    /\ desired \in Creds \cup {NoSecret} /\ (pc = "idle" <=> desired = NoSecret)
    /\ budget \in [FaultKinds -> Nat]

\* The change of the base secret is still to come.
CanEdit == budget["edit"] > 0 /\ \E e \in Edits : e[1] = base

\* Until then the active secret is the base secret.
EditInv ==
    /\ budget["edit"] <= 1
    /\ Persistence \/ budget["restart"] = 0
    /\ CanEdit => active = base /\ Valid(base)

\* An active secret that has become invalid is about to be replaced by the base
\* secret; what bootstraps a cluster without one is valid.
ActiveInv ==
    /\ up => config # NoSecret /\ (Persistence => pvcs)
    /\ active # NoSecret => Valid(active) \/ Valid(base)
    /\ active = NoSecret /\ pc # "create" =>
         IF Persistence /\ pvcs THEN Valid(base) ELSE Valid(Default) /\ config = NoSecret

\* A pass works with the base secret, or leaves an old one that is active alone.
DesiredInv ==
    /\ desired \notin {base, NoSecret} => active = desired /\ Valid(desired)
    /\ pc \in {"change", "verify", "ready", "role"} => active # NoSecret
    /\ pc \in {"change", "verify"} => active # desired
    /\ pc = "default" => active = desired /\ Valid(desired)

\* What a pass writes into the secrets is valid.
WriteInv ==
    pc \in {"active", "create", "config"} =>
        /\ next \in Creds /\ Valid(next)
        /\ after = "default" => next = desired
        /\ pc = "active" /\ active # NoSecret =>
             next = desired /\ config # NoSecret /\ (Persistence => pvcs)
        /\ pc = "create" => /\ active = NoSecret /\ next = base /\ next = desired
                            /\ config # NoSecret /\ (Persistence => pvcs)
        /\ pc = "config" => active = next

Inv == TypeInv /\ EditInv /\ ActiveInv /\ DesiredInv /\ WriteInv

-----------------------------------------------------------------------------
(* Facts about credentials.                                                *)

LEMMA CredsFacts ==
  /\ NoSecret \notin Creds /\ Default \in Creds /\ Default # NoSecret
  /\ \A c \in Creds : c.role \in AllRoles /\ c.password # NoPassword
  BY AdminAuthAssumption DEF Creds, NoSecret, Default, NoPassword, AllRoles, DefaultRole

LEMMA BudgetFacts == "edit" \in FaultKinds /\ "restart" \in FaultKinds
  BY DEF FaultKinds

\* A role that is created or altered has the password it was given.
LEMMA SetRoleFacts ==
  ASSUME TypeInv, NEW c \in Creds, SetRole(c)
  PROVE  /\ roles' \in [AllRoles -> Passwords \cup {"cassandra", NoPassword}]
         /\ c.password # NoPassword /\ roles'[c.role] = c.password
  BY CredsFacts DEF TypeInv, SetRole, Creds

\* A fault that is spent leaves the other counters alone.
LEMMA SpendFacts ==
  ASSUME TypeInv, NEW k \in FaultKinds, Spend(k)
  PROVE  /\ budget' \in [FaultKinds -> Nat] /\ budget[k] > 0
         /\ \A j \in FaultKinds : budget'[j] = IF j = k THEN budget[j] - 1 ELSE budget[j]
  BY DEF TypeInv, Spend

-----------------------------------------------------------------------------
(* Steps that leave the secrets, the roles and the volumes alone.          *)

\* The budget may only go down: what is excluded stays excluded.
BudgetKept ==
    /\ budget' \in [FaultKinds -> Nat]
    /\ budget'["edit"] <= budget["edit"] /\ budget'["restart"] <= budget["restart"]

LEMMA BudgetStep ==
  ASSUME TypeInv, [Next]_vars
  PROVE  BudgetKept
  <1>1. UNCHANGED budget \/ \E k \in FaultKinds : Spend(k)
    BY DEF Next, PassStep, Begin, ReconcileAdminAuth, ChangeRole, VerifyRole, WriteActive,
       CreateActive, WriteConfig, CheckReady, ReconcileAdminRole, RemoveDefaultRole, Restart,
       NodesStart, NodesStop, SeeEvent, EditBase, Fail, FaultKinds, vars
  <1>2. CASE UNCHANGED budget
    BY <1>2, BudgetFacts DEF TypeInv, BudgetKept
  <1>3. ASSUME NEW k \in FaultKinds, Spend(k) PROVE BudgetKept
    BY <1>3, SpendFacts, BudgetFacts DEF TypeInv, BudgetKept
  <1> QED
    BY <1>1, <1>2, <1>3

\* The change can come later only if it could come before.
LEMMA CanEditKept ==
  ASSUME TypeInv, BudgetKept, base' = base, CanEdit'
  PROVE  CanEdit
  BY BudgetFacts DEF TypeInv, BudgetKept, CanEdit

\* A pass that ends.
LEMMA EndPassInv ==
  ASSUME Inv, BudgetKept, EndPass, pc # "create",
         UNCHANGED <<kubeVars, roles, up>>
  PROVE  Inv'
  <1> USE DEF Inv, EndPass, kubeVars
  <1>1. TypeInv'
    BY DEF TypeInv, BudgetKept, PCs
  <1>2. EditInv'
    BY CanEditKept, BudgetFacts DEF EditInv, BudgetKept, Valid, TypeInv
  <1>3. ActiveInv'
    BY DEF ActiveInv, Valid
  <1>4. DesiredInv' /\ WriteInv'
    BY DEF DesiredInv, WriteInv
  <1> QED
    BY <1>1, <1>2, <1>3, <1>4

\* A pass that goes on: what is left to show is about the pass.
LEMMA GoOnInv ==
  ASSUME Inv, BudgetKept, UNCHANGED <<kubeVars, roles, up>>, pc # "create",
         pc' \in PCs \ {"idle", "create"}, after' \in {"idle", "ready", "default"},
         desired' \in Creds, DesiredInv', WriteInv'
  PROVE  Inv'
  <1> USE DEF Inv, kubeVars
  <1>1. TypeInv'
    BY CredsFacts DEF TypeInv, BudgetKept
  <1>2. EditInv'
    BY CanEditKept, BudgetFacts DEF EditInv, BudgetKept, Valid, TypeInv
  <1>3. ActiveInv'
    BY DEF ActiveInv, Valid
  <1> QED
    BY <1>1, <1>2, <1>3

\* While a pass is under way it has the credentials it works with.
LEMMA PassDesired == ASSUME TypeInv, pc # "idle" PROVE desired \in Creds /\ desired # NoSecret
  BY CredsFacts DEF TypeInv

LEMMA BeginInv == ASSUME Inv, BudgetKept, Begin PROVE Inv'
  <1>1. DesiredInv' /\ WriteInv'
    BY DEF Begin, DesiredInv, WriteInv, kubeVars
  <1>2. desired' \in Creds /\ after' = after /\ pc' = "auth" /\ pc = "idle"
    BY DEF Inv, TypeInv, Begin
  <1> QED
    BY <1>1, <1>2, GoOnInv DEF Begin, Inv, TypeInv, PCs

LEMMA ReconcileAdminAuthInv == ASSUME Inv, BudgetKept, ReconcileAdminAuth PROVE Inv'
  <1> USE DEF Inv, kubeVars
  <1>1. desired \in Creds /\ desired # NoSecret /\ desired' = desired /\ pc = "auth"
    BY PassDesired DEF ReconcileAdminAuth, WriteSecrets, Goto
  <1>2. UNCHANGED <<kubeVars, roles, up>>
    BY DEF ReconcileAdminAuth
  <1>3. CASE active = NoSecret /\ WriteSecrets(BootstrapCreds, "ready")
    <2>1. BootstrapCreds \in Creds /\ Valid(BootstrapCreds)
      <3>1. desired = base
        BY <1>1, <1>3, CredsFacts DEF DesiredInv
      <3> QED
        BY <1>1, <1>3, <3>1, CredsFacts DEF BootstrapCreds, ActiveInv
    <2>2. next' = BootstrapCreds /\ next' \in Creds /\ Valid(next)'
      BY <1>2, <1>3, <2>1 DEF WriteSecrets, Valid
    <2>3. DesiredInv' /\ WriteInv'
      BY <1>1, <1>2, <1>3, <2>2 DEF WriteSecrets, DesiredInv, WriteInv, Valid
    <2> QED
      BY <1>1, <1>2, <1>3, <2>3, GoOnInv DEF WriteSecrets, PCs
  <1>4. CASE active \in {Default, desired} /\ Goto("ready")
    <2>1. active # NoSecret
      BY <1>1, <1>4, CredsFacts
    <2>2. DesiredInv' /\ WriteInv'
      BY <1>2, <1>4, <2>1 DEF Goto, DesiredInv, WriteInv, Valid
    <2> QED
      BY <1>1, <1>2, <1>4, <2>2, GoOnInv DEF Goto, PCs, TypeInv
  <1>5. CASE active \notin {NoSecret, Default, desired} /\ Goto("change")
    <2>2. DesiredInv' /\ WriteInv'
      BY <1>2, <1>5 DEF Goto, DesiredInv, WriteInv, Valid
    <2> QED
      BY <1>1, <1>2, <1>5, <2>2, GoOnInv DEF Goto, PCs, TypeInv
  <1> QED
    BY <1>3, <1>4, <1>5 DEF ReconcileAdminAuth

\* A role is set up for the base secret, from a pass whose credentials do not work.
LEMMA SetRoleInv ==
  ASSUME Inv, BudgetKept, up, ~Valid(desired), SetRole(desired), pc \in {"change", "role"},
         pc = "change" => Valid(active), UNCHANGED <<kubeVars, up, desired>>
  PROVE  /\ desired = base /\ Valid(base)' /\ Valid(desired)' /\ EditInv' /\ ActiveInv'
         /\ roles' \in [AllRoles -> Passwords \cup {"cassandra", NoPassword}]
  <1> USE DEF Inv, kubeVars
  <1>1. desired \in Creds /\ desired # NoSecret
    BY PassDesired
  <1>2. desired = base
    BY <1>1 DEF DesiredInv
  <1>3. /\ Valid(base)' /\ Valid(desired)'
        /\ roles' \in [AllRoles -> Passwords \cup {"cassandra", NoPassword}]
    BY <1>1, <1>2, SetRoleFacts DEF Valid
  <1>4. ~CanEdit
    BY <1>2 DEF EditInv
  <1>5. EditInv'
    BY <1>4, CanEditKept, BudgetFacts DEF EditInv, BudgetKept, TypeInv
  <1>6. ActiveInv'
    BY <1>3 DEF ActiveInv, DesiredInv
  <1> QED
    BY <1>2, <1>3, <1>5, <1>6

LEMMA ChangeRoleInv == ASSUME Inv, BudgetKept, ChangeRole PROVE Inv'
  <1> USE DEF Inv, kubeVars
  <1>1. desired \in Creds /\ pc = "change" /\ active # NoSecret /\ active # desired
    BY PassDesired DEF ChangeRole, DesiredInv
  <1>2. CASE CanLogin(desired) /\ Goto("verify") /\ UNCHANGED <<kubeVars, roles, up>>
    <2>1. DesiredInv' /\ WriteInv'
      BY <1>1, <1>2 DEF Goto, DesiredInv, WriteInv, Valid
    <2> QED
      BY <1>1, <1>2, <2>1, GoOnInv DEF Goto, PCs, TypeInv
  <1>3. CASE /\ ~CanLogin(desired) /\ CanLogin(active) /\ CanChange
             /\ SetRole(desired) /\ Goto("verify") /\ UNCHANGED <<kubeVars, up>>
    <2>1. up /\ ~Valid(desired) /\ Valid(active)
      BY <1>3 DEF CanLogin
    <2>2. /\ desired = base /\ Valid(base)' /\ Valid(desired)' /\ EditInv' /\ ActiveInv'
          /\ roles' \in [AllRoles -> Passwords \cup {"cassandra", NoPassword}]
      BY <1>1, <1>3, <2>1, SetRoleInv DEF Goto
    <2>3. TypeInv'
      BY <1>1, <1>3, <2>2, CredsFacts DEF Goto, TypeInv, PCs, BudgetKept
    <2>4. DesiredInv' /\ WriteInv'
      BY <1>1, <1>3, <2>2 DEF Goto, DesiredInv, WriteInv
    <2> QED
      BY <2>2, <2>3, <2>4
  <1>4. CASE Fail
    BY <1>1, <1>4, EndPassInv DEF Fail
  <1> QED
    BY <1>2, <1>3, <1>4 DEF ChangeRole

LEMMA VerifyRoleInv == ASSUME Inv, BudgetKept, VerifyRole PROVE Inv'
  <1> USE DEF Inv, kubeVars
  <1>1. desired \in Creds /\ pc = "verify" /\ active # NoSecret /\ active # desired
    BY PassDesired DEF VerifyRole, DesiredInv
  <1>2. UNCHANGED <<kubeVars, roles, up>>
    BY DEF VerifyRole
  <1>3. CASE CanLogin(desired) /\ WriteSecrets(desired, "ready")
    <2>1. Valid(desired) /\ config # NoSecret /\ (Persistence => pvcs)
      BY <1>3 DEF CanLogin, ActiveInv
    <2>2. DesiredInv' /\ WriteInv'
      BY <1>1, <1>2, <1>3, <2>1 DEF WriteSecrets, DesiredInv, WriteInv, Valid
    <2> QED
      BY <1>1, <1>2, <1>3, <2>2, GoOnInv DEF WriteSecrets, PCs, TypeInv
  <1>4. CASE EndPass
    BY <1>1, <1>2, <1>4, EndPassInv
  <1> QED
    BY <1>3, <1>4 DEF VerifyRole

LEMMA WriteActiveInv == ASSUME Inv, BudgetKept, WriteActive PROVE Inv'
  <1> USE DEF Inv, kubeVars
  <1>1. /\ desired \in Creds /\ pc = "active" /\ next \in Creds /\ Valid(next) /\ next # NoSecret
        /\ UNCHANGED <<base, config, pvcs, roles, up, desired, next, after>>
    BY PassDesired, CredsFacts DEF WriteActive, WriteInv, Goto
  <1>2. \A c : Valid(c) <=> (c.password # NoPassword /\ roles'[c.role] = c.password)
    BY <1>1 DEF Valid
  <1>3. CASE active = next /\ Goto("config") /\ UNCHANGED active
    <2>1. DesiredInv' /\ WriteInv'
      BY <1>1, <1>2, <1>3 DEF Goto, DesiredInv, WriteInv, Valid
    <2> QED
      BY <1>1, <1>3, <2>1, GoOnInv DEF Goto, PCs, TypeInv
  <1>4. CASE active = NoSecret /\ active' = next /\ Goto("config")
    <2>1. desired = base
      BY <1>1, <1>4, CredsFacts DEF DesiredInv
    <2>2. ~CanEdit
      BY <1>4, CredsFacts DEF EditInv, TypeInv
    <2>3. TypeInv'
      BY <1>1, <1>4, CredsFacts DEF Goto, TypeInv, PCs, BudgetKept
    <2>4. EditInv'
      BY <1>1, <2>2, CanEditKept, BudgetFacts DEF EditInv, BudgetKept, TypeInv
    <2>5. ActiveInv'
      BY <1>1, <1>2, <1>4 DEF ActiveInv, Valid
    <2>6. DesiredInv' /\ WriteInv'
      BY <1>1, <1>2, <1>4, <2>1 DEF Goto, DesiredInv, WriteInv, Valid
    <2> QED
      BY <2>3, <2>4, <2>5, <2>6
  <1>5. CASE active \notin {next, NoSecret} /\ active' = NoSecret /\ Goto("create")
    <2>1. next = desired /\ config # NoSecret /\ (Persistence => pvcs)
      BY <1>1, <1>5 DEF WriteInv
    <2>2. desired = base
      BY <1>1, <1>5, <2>1, CredsFacts DEF DesiredInv
    <2>3. ~CanEdit
      BY <1>5, <2>1, <2>2 DEF EditInv
    <2>4. TypeInv'
      BY <1>1, <1>5, CredsFacts DEF Goto, TypeInv, PCs, BudgetKept
    <2>5. EditInv'
      BY <1>1, <2>3, CanEditKept, BudgetFacts DEF EditInv, BudgetKept, TypeInv
    <2>6. ActiveInv'
      BY <1>1, <1>5 DEF ActiveInv, Goto
    <2>7. DesiredInv' /\ WriteInv'
      BY <1>1, <1>2, <1>5, <2>1, <2>2 DEF Goto, DesiredInv, WriteInv, Valid
    <2> QED
      BY <2>4, <2>5, <2>6, <2>7
  <1> QED
    BY <1>3, <1>4, <1>5 DEF WriteActive

LEMMA CreateActiveInv == ASSUME Inv, BudgetKept, CreateActive PROVE Inv'
  <1> USE DEF Inv, kubeVars
  <1>1. /\ desired \in Creds /\ pc = "create" /\ next \in Creds /\ Valid(next)
        /\ active = NoSecret /\ active' = next /\ next = base /\ next = desired /\ pc' = "config"
        /\ UNCHANGED <<base, config, pvcs, roles, up, desired, next, after>>
    BY PassDesired DEF CreateActive, WriteInv, Goto
  <1>2. ~CanEdit
    BY <1>1, CredsFacts DEF EditInv
  <1>3. TypeInv'
    BY <1>1, CredsFacts DEF TypeInv, PCs, BudgetKept
  <1>4. EditInv'
    <2>1. base' = base
      BY <1>1
    <2>2. ~CanEdit'
      BY <1>2, <2>1, CanEditKept
    <2> QED
      BY <2>2, BudgetFacts DEF EditInv, BudgetKept, TypeInv
  <1>5. ActiveInv'
    BY <1>1, CredsFacts DEF ActiveInv, Valid
  <1>6. DesiredInv' /\ WriteInv'
    BY <1>1 DEF DesiredInv, WriteInv, Valid
  <1> QED
    BY <1>3, <1>4, <1>5, <1>6

LEMMA WriteConfigInv == ASSUME Inv, BudgetKept, WriteConfig PROVE Inv'
  <1> USE DEF Inv, kubeVars
  <1>1. /\ desired \in Creds /\ pc = "config" /\ next \in Creds /\ Valid(next) /\ active = next
        /\ config' = next /\ next # NoSecret
        /\ after = "default" => next = desired
        /\ UNCHANGED <<base, active, pvcs, roles, up>>
    BY PassDesired, CredsFacts DEF WriteConfig, WriteInv
  <1>2. EditInv'
    BY <1>1, CanEditKept, BudgetFacts DEF EditInv, BudgetKept, TypeInv, Valid
  <1>3. ActiveInv'
    BY <1>1 DEF ActiveInv, Valid
  <1>4. CASE after = "idle"
    <2>1. EndPass
      BY <1>4 DEF WriteConfig, Written
    <2>2. TypeInv' /\ DesiredInv' /\ WriteInv'
      BY <1>1, <2>1 DEF EndPass, TypeInv, PCs, BudgetKept, DesiredInv, WriteInv
    <2> QED
      BY <1>2, <1>3, <2>2
  <1>5. CASE after # "idle"
    <2>1. pc' = after /\ after \in {"ready", "default"} /\ after' = "idle" /\ desired' = desired
      BY <1>5 DEF WriteConfig, Written, TypeInv
    <2>2. TypeInv'
      BY <1>1, <2>1, CredsFacts DEF TypeInv, PCs, BudgetKept
    <2>3. DesiredInv' /\ WriteInv'
      BY <1>1, <2>1 DEF DesiredInv, WriteInv, Valid
    <2> QED
      BY <1>2, <1>3, <2>2, <2>3
  <1> QED
    BY <1>4, <1>5

LEMMA CheckReadyInv == ASSUME Inv, BudgetKept, CheckReady PROVE Inv'
  <1> USE DEF Inv, kubeVars
  <1>1. /\ desired \in Creds /\ pc = "ready" /\ active # NoSecret
        /\ UNCHANGED <<kubeVars, roles, up>>
    BY PassDesired DEF CheckReady, DesiredInv
  <1>2. CASE EndPass
    BY <1>1, <1>2, EndPassInv
  <1>3. CASE Goto("role")
    <2>1. DesiredInv' /\ WriteInv'
      BY <1>1, <1>3 DEF Goto, DesiredInv, WriteInv, Valid
    <2> QED
      BY <1>1, <1>3, <2>1, GoOnInv DEF Goto, PCs, TypeInv
  <1> QED
    BY <1>2, <1>3 DEF CheckReady

LEMMA ReconcileAdminRoleInv == ASSUME Inv, BudgetKept, ReconcileAdminRole PROVE Inv'
  <1> USE DEF Inv, kubeVars
  <1>1. desired \in Creds /\ pc = "role" /\ active # NoSecret
    BY PassDesired DEF ReconcileAdminRole, DesiredInv
  <1>2. CASE /\ CanLogin(desired) /\ WriteSecrets(desired, "default")
             /\ UNCHANGED <<kubeVars, roles, up>>
    <2>1. Valid(desired) /\ config # NoSecret /\ (Persistence => pvcs)
      BY <1>2 DEF CanLogin, ActiveInv
    <2>2. DesiredInv' /\ WriteInv'
      BY <1>1, <1>2, <2>1 DEF WriteSecrets, DesiredInv, WriteInv, Valid
    <2> QED
      BY <1>1, <1>2, <2>2, GoOnInv DEF WriteSecrets, PCs, TypeInv
  <1>3. CASE /\ ~CanLogin(desired) /\ CanLogin(Default) /\ SetRole(desired)
             /\ WriteSecrets(desired, "default") \/ WriteSecrets(desired, "idle")
             /\ UNCHANGED <<kubeVars, up>>
    <2>1. /\ pc' = "active" /\ next' = desired /\ after' \in {"default", "idle"}
          /\ desired' = desired
      BY <1>3 DEF WriteSecrets
    <2>2. up /\ ~Valid(desired) /\ config # NoSecret /\ (Persistence => pvcs)
      BY <1>3 DEF CanLogin, ActiveInv
    <2>3. /\ desired = base /\ Valid(base)' /\ Valid(desired)' /\ EditInv' /\ ActiveInv'
          /\ roles' \in [AllRoles -> Passwords \cup {"cassandra", NoPassword}]
      BY <1>1, <1>3, <2>1, <2>2, SetRoleInv
    <2>4. TypeInv'
      BY <1>1, <1>3, <2>1, <2>3, CredsFacts DEF TypeInv, PCs, BudgetKept
    <2>5. Valid(next)'
      BY <2>1, <2>3 DEF Valid
    <2>6. DesiredInv' /\ WriteInv'
      BY <1>1, <1>3, <2>1, <2>2, <2>3, <2>5 DEF DesiredInv, WriteInv
    <2> QED
      BY <2>3, <2>4, <2>6
  <1>4. CASE Fail
    BY <1>1, <1>4, EndPassInv DEF Fail
  <1> QED
    BY <1>2, <1>3, <1>4 DEF ReconcileAdminRole

\* The default role is dropped by a session of another one, which is active.
LEMMA RemoveDefaultRoleInv == ASSUME Inv, BudgetKept, RemoveDefaultRole PROVE Inv'
  <1> USE DEF Inv, kubeVars
  <1>1. /\ desired \in Creds /\ pc = "default" /\ active = desired /\ Valid(active)
        /\ active # NoSecret /\ EndPass /\ UNCHANGED <<kubeVars, up>>
    BY PassDesired DEF RemoveDefaultRole, DesiredInv
  <1>2. CASE ~MayDrop
    BY <1>1, <1>2, EndPassInv DEF RemoveDefaultRole
  <1>3. CASE MayDrop
    <2>1. /\ roles' = [roles EXCEPT ![DefaultRole] = NoPassword]
          /\ active.role # DefaultRole
      BY <1>1, <1>3 DEF RemoveDefaultRole, MayDrop
    <2>2. Valid(active)' /\ roles' \in [AllRoles -> Passwords \cup {"cassandra", NoPassword}]
      BY <1>1, <2>1, CredsFacts DEF Valid, TypeInv
    <2>3. TypeInv'
      BY <1>1, <2>2 DEF EndPass, TypeInv, PCs, BudgetKept
    <2>4. CanEdit' => active' = base' /\ Valid(base)'
      BY <1>1, <2>2, CanEditKept DEF EditInv, Valid
    <2>5. EditInv'
      BY <2>4, BudgetFacts DEF EditInv, BudgetKept, TypeInv
    <2>6. ActiveInv' /\ DesiredInv' /\ WriteInv'
      BY <1>1, <2>2 DEF EndPass, ActiveInv, DesiredInv, WriteInv
    <2> QED
      BY <2>3, <2>5, <2>6
  <1> QED
    BY <1>2, <1>3

\* Between the deletion of the active secret and its creation only a cluster with
\* volumes may be interrupted: the base secret is what the next pass bootstraps it with.
LEMMA RestartInv == ASSUME Inv, BudgetKept, Restart PROVE Inv'
  <1> USE DEF Inv, kubeVars
  <1>1. EndPass /\ UNCHANGED <<kubeVars, roles, up>> /\ pc # "idle"
    BY DEF Restart
  <1>2. CASE pc # "create"
    BY <1>1, <1>2, EndPassInv
  <1>3. CASE pc = "create"
    <2>1. /\ active = NoSecret /\ next = base /\ Valid(next) /\ config # NoSecret
          /\ Persistence => pvcs
      BY <1>3 DEF WriteInv
    <2>2. Spend("restart")
      BY <2>1 DEF Restart
    <2>3. Persistence
      BY <2>2, SpendFacts, BudgetFacts DEF EditInv, TypeInv
    <2>4. TypeInv'
      BY <1>1 DEF EndPass, TypeInv, PCs, BudgetKept
    <2>5. EditInv'
      BY <1>1, CanEditKept, BudgetFacts DEF EditInv, BudgetKept, Valid, TypeInv
    <2>6. ActiveInv'
      BY <1>1, <2>1, <2>3 DEF ActiveInv, Valid
    <2>7. DesiredInv' /\ WriteInv'
      BY <1>1 DEF EndPass, DesiredInv, WriteInv
    <2> QED
      BY <2>4, <2>5, <2>6, <2>7
  <1> QED
    BY <1>2, <1>3

\* Nodes, prober and steps in which nothing changes.
LEMMA OutsideInv ==
  ASSUME Inv, BudgetKept, NodesStart \/ NodesStop \/ SeeEvent \/ UNCHANGED vars
  PROVE  Inv'
  <1> USE DEF Inv, kubeVars, passVars
  <1>1. UNCHANGED <<base, active, config, roles, passVars>>
    BY DEF NodesStart, NodesStop, SeeEvent, vars
  <1>2. /\ up' \in BOOLEAN /\ pvcs' \in BOOLEAN
        /\ up' => config # NoSecret /\ (Persistence => pvcs')
        /\ pvcs => pvcs'
        /\ pvcs' # pvcs => config # NoSecret
    <2> USE DEF TypeInv, ActiveInv
    <2>1. CASE NodesStart
      BY <2>1, AdminAuthAssumption DEF NodesStart
    <2>2. CASE NodesStop
      BY <2>2 DEF NodesStop
    <2>3. CASE SeeEvent \/ UNCHANGED vars
      BY <2>3 DEF SeeEvent, vars
    <2> QED
      BY <2>1, <2>2, <2>3
  <1>3. TypeInv'
    BY <1>1, <1>2 DEF TypeInv, BudgetKept
  <1>4. EditInv'
    BY <1>1, CanEditKept, BudgetFacts DEF EditInv, BudgetKept, Valid, TypeInv
  <1>5. ActiveInv'
    BY <1>1, <1>2 DEF ActiveInv, Valid, TypeInv
  <1>6. DesiredInv'
    BY <1>1 DEF DesiredInv, Valid
  <1>7. WriteInv'
    BY <1>1, <1>2 DEF WriteInv, Valid
  <1> QED
    BY <1>3, <1>4, <1>5, <1>6, <1>7

\* The one change of the base secret finds the old one active.
LEMMA EditBaseInv == ASSUME Inv, BudgetKept, NEW new \in Creds, EditBase(new) PROVE Inv'
  <1> USE DEF Inv, kubeVars, passVars
  <1>1. /\ base' = new /\ UNCHANGED <<active, config, pvcs, roles, up, passVars>>
        /\ budget["edit"] > 0 /\ budget'["edit"] = budget["edit"] - 1
    BY SpendFacts, BudgetFacts DEF EditBase
  <1>2. CanEdit
    BY <1>1 DEF EditBase, CanEdit
  <1>3. active = base /\ Valid(active) /\ active # NoSecret
    BY <1>2, CredsFacts DEF EditInv, TypeInv
  <1>4. pc \notin {"create"} /\ (desired # NoSecret => desired = active)
    BY <1>3 DEF WriteInv, DesiredInv
  <1>5. TypeInv'
    BY <1>1 DEF TypeInv, BudgetKept
  <1>6. ~CanEdit'
    BY <1>1, BudgetFacts DEF EditInv, CanEdit, TypeInv
  <1>7. EditInv'
    BY <1>6, BudgetFacts DEF EditInv, BudgetKept, TypeInv
  <1>8. ActiveInv'
    BY <1>1, <1>3 DEF ActiveInv, Valid
  <1>9. DesiredInv'
    BY <1>1, <1>3, <1>4 DEF DesiredInv, Valid
  <1>10. WriteInv'
    BY <1>1, <1>4 DEF WriteInv, Valid
  <1> QED
    BY <1>5, <1>7, <1>8, <1>9, <1>10

LEMMA NextInv == Inv /\ [Next]_vars => Inv'
  <1> SUFFICES ASSUME Inv, [Next]_vars PROVE Inv'
    OBVIOUS
  <1>1. BudgetKept
    BY BudgetStep DEF Inv
  <1> QED
    BY <1>1, BeginInv, ReconcileAdminAuthInv, ChangeRoleInv, VerifyRoleInv, WriteActiveInv,
       CreateActiveInv, WriteConfigInv, CheckReadyInv, ReconcileAdminRoleInv,
       RemoveDefaultRoleInv, RestartInv, OutsideInv, EditBaseInv
    DEF Next, PassStep

LEMMA InitInv == ASSUME OneChangeOnly, Init PROVE Inv
  <1> PICK s \in Starts :
        /\ base = InitBase[s]
        /\ active = IF s = "running" THEN base ELSE NoSecret
        /\ config = active
        /\ roles = OnlyRole(IF s = "fresh" THEN Default ELSE base)
        /\ pvcs = (s = "storage" \/ (s = "running" /\ Persistence))
        /\ up = (s = "running")
        /\ pc = "idle" /\ desired = NoSecret /\ after = "idle"
        /\ budget = Budget
    BY DEF Init
  <1>1. base \in Creds /\ s \in {"fresh", "storage", "running"} /\ (s = "storage" => Persistence)
    BY AdminAuthAssumption
  <1>2. \A c \in Creds : /\ OnlyRole(c)[c.role] = c.password
                         /\ OnlyRole(c) \in [AllRoles -> Passwords \cup {"cassandra", NoPassword}]
    BY CredsFacts DEF OnlyRole, Creds
  <1>3. TypeInv
    BY <1>1, <1>2, CredsFacts, AdminAuthAssumption DEF TypeInv, PCs
  <1>4. IF s = "fresh" THEN Valid(Default) ELSE Valid(base)
    BY <1>1, <1>2, CredsFacts DEF Valid
  <1>5. CanEdit => s = "running"
    BY DEF CanEdit, OneChangeOnly
  <1>6. EditInv
    BY <1>4, <1>5 DEF EditInv, OneChangeOnly
  <1>7. ActiveInv
    BY <1>1, <1>4, CredsFacts DEF ActiveInv
  <1>8. DesiredInv /\ WriteInv
    BY DEF DesiredInv, WriteInv
  <1> QED
    BY <1>3, <1>6, <1>7, <1>8 DEF Inv

-----------------------------------------------------------------------------
(* The theorems.                                                           *)

\* Whatever is written into the active secret works: the operator never tells
\* itself and the prober credentials that Cassandra refuses, although the secret is
\* deleted and created again, the operator may stop at every step and a new role
\* may take long to be known.
THEOREM ActiveWorks ==
  ASSUME OneChangeOnly
  PROVE  Spec => ActiveIsValid
  <1> DEFINE Safe == active' \notin {active, NoSecret} => Valid(active')
  <1>1. Init => Inv
    BY InitInv
  <1>2. Inv /\ [Next]_vars => Safe
    <2> SUFFICES ASSUME Inv, [Next]_vars, active' \notin {active, NoSecret}
                 PROVE  Valid(active')
      OBVIOUS
    <2>1. WriteActive \/ CreateActive
      BY DEF Next, PassStep, Begin, ReconcileAdminAuth, ChangeRole, VerifyRole,
         WriteConfig, CheckReady, ReconcileAdminRole, RemoveDefaultRole, Restart,
         NodesStart, NodesStop, SeeEvent, EditBase, Fail, vars, kubeVars
    <2>2. active' = next /\ pc \in {"active", "create"}
      BY <2>1 DEF WriteActive, CreateActive
    <2> QED
      BY <2>2 DEF Inv, WriteInv
  <1>3. Inv /\ [Next]_vars => [Safe]_vars
    BY <1>2
  <1> HIDE DEF Safe
  <1>4. Spec => [][Safe]_vars
    BY <1>1, <1>3, NextInv, PTL DEF Spec
  <1> QED
    BY <1>4 DEF Safe, ActiveIsValid

\* The operator always has credentials that work: those of the base or the active
\* secret, or the default ones of a new cluster.
THEOREM KeysKept ==
  ASSUME OneChangeOnly
  PROVE  Spec => []NotLockedOut
  <1>1. Init => Inv
    BY InitInv
  <1>2. Inv => NotLockedOut
    BY DEF Inv, ActiveInv, WriteInv, NotLockedOut
  <1> QED
    BY <1>1, <1>2, NextInv, PTL DEF Spec
=============================================================================

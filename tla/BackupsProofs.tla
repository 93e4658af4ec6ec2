--------------------------- MODULE BackupsProofs ---------------------------
(***************************************************************************)
(* Theorems about module Backups: its type, that both controllers          *)
(* implement module Operations, and that every request for a backup has a  *)
(* reason of its own.                                                      *)
(***************************************************************************)
EXTENDS Backups, TLAPS

\* A copy that is not outdated is what the API server has.
CopiesOK ==
    /\ \A o \in fresh : cache[o] = obj[o]
    /\ \A k \in Kinds : cur[k].fresh => cur[k].copy = obj[cur[k].name]

\* What Icarus shows as ended has ended.
OpsOK == \A i \in DOMAIN ops :
            ops[i].state \in Final => <<ops[i].kind, ops[i].tag, ops[i].state>> \in ended

\* An operation of that tag has ended in state g.
Reached(k, t, g) == \E e \in ended : e[1] = k /\ e[3] = g /\ Matches(k, t, e[2])

\* What a pass works on, and what it may write: a state the operation has reached, and
\* in place of FAILED only that of a new request.
PassOf(k) ==
    pc[k] # "idle" =>
        /\ cur[k].name \in ObjectsOf(k)
        /\ cur[k].copy.state # "COMPLETED"
        /\ cur[k].req.state = "PENDING"
        /\ pc[k] = "post" => cur[k].goal \in {"", "PENDING"}
        /\ pc[k] = "status" =>
              /\ cur[k].copy.state = "FAILED" => cur[k].goal \in {"", "PENDING"}
              /\ cur[k].goal \in Final =>
                    Reached(k, TagOf(cur[k].name, cur[k].copy.spec), cur[k].goal)
PassOK == \A k \in Kinds : PassOf(k)

IdleOK == \A k \in Kinds : pc[k] = "idle" => ~cur[k].fresh

\* The inductive invariant.
Inv == TypeOK /\ CopiesOK /\ OpsOK /\ PassOK /\ IdleOK

-----------------------------------------------------------------------------
(* Types.                                                                  *)

\* Specs that users write are specs, and every resource has a tag.
LEMMA SpecTypes == ASSUME NEW o \in Objects, NEW s \in SpecsOf[o] PROVE s \in SpecType
  BY BackupsAssumption DEF AllSpecs

LEMMA NoSpecType == NoSpec \in SpecType
  BY DEF NoSpec, SpecType, Tags

LEMMA TagTypes == ASSUME NEW o \in Objects, NEW s \in SpecType PROVE TagOf(o, s) \in Tags
  BY DEF TagOf, SpecType, Tags, Objects

LEMMA KindTypes ==
    ASSUME NEW o \in Objects PROVE KindOf(o) \in Kinds /\ o \in ObjectsOf(KindOf(o))
  BY DEF KindOf, Kinds, ObjectsOf, Objects

LEMMA ObjectTypes == ASSUME NEW k \in Kinds PROVE ObjectsOf(k) \subseteq Objects
  BY DEF ObjectsOf, Objects

LEMMA Membership == ASSUME NEW x, NEW S PROVE (x \in S) \in BOOLEAN
  OBVIOUS

\* The zero values.
LEMMA ZeroTypes ==
    /\ Absent \in Copies
    /\ NoRequest \in Requests
    /\ NoPass \in [name : Objects \cup {""}, copy : Copies, fresh : BOOLEAN,
                   goal : States, req : Requests]
  <1>1. Absent \in Copies
    BY NoSpecType DEF Absent, Copies, States
  <1>2. NoRequest \in Requests
    BY DEF NoRequest, Requests, Kinds, Tags, States
  <1>. QED BY <1>1, <1>2 DEF NoPass, States

\* What is sent is a request.
LEMMA RequestTypes ==
    ASSUME TypeOK, NEW o \in Objects, NEW s \in SpecType
    PROVE  createBackupRequest(o, s) \in Requests /\ createRestoreReq(o, s) \in Requests
  <1>1. TagOf(o, s) \in Tags /\ WithDefault(s.opts) \in Nat
    BY TagTypes DEF SpecType, WithDefault, DefaultOption
  <1>2. s.provider \in Protocols \cup {"", "other"}
    BY DEF SpecType
  <1>3. BaseOf(o, s).provider \in Protocols \cup {"", "other"}
    <2>1. CASE s.backup = ""
      BY <2>1, NoSpecType DEF BaseOf, SpecType
    <2>2. CASE s.backup # ""
      <3>1. s.backup \in Objects
        BY <2>2 DEF SpecType, Objects
      <3>2. cache[s.backup] \in Copies
        BY <3>1 DEF TypeOK
      <3>3. cache[s.backup].spec \in SpecType
        BY <3>2 DEF Copies
      <3>. QED BY <2>2, <3>3 DEF BaseOf, SpecType
    <2>. QED BY <2>1, <2>2
  <1>. QED
    BY <1>1, <1>2, <1>3 DEF createBackupRequest, createRestoreReq, Requests, Kinds, States

\* A charge leaves a budget.
LEMMA SpendType ==
    ASSUME NEW b \in Charges, budget \in [Charges -> Nat], Spend(b)
    PROVE  budget' \in [Charges -> Nat] /\ limit' = limit
  <1>1. budget[b] - 1 \in Nat
    BY DEF Spend
  <1>. QED BY <1>1 DEF Spend

LEMMA ChargeTypes == {"edit", "env", "fault"} \subseteq Charges /\ Objects \subseteq Charges
  BY DEF Charges

Passes == [name : Objects \cup {""}, copy : Copies, fresh : BOOLEAN, goal : States, req : Requests]

\* A pass that nobody disturbs stays as it is: a state that was reached stays so.
LEMMA PassOfKept ==
    ASSUME NEW k \in Kinds, PassOf(k), ended \subseteq ended', alike' = alike, pc'[k] = pc[k],
           cur'[k].name = cur[k].name, cur'[k].copy = cur[k].copy,
           cur'[k].goal = cur[k].goal, cur'[k].req = cur[k].req
    PROVE  PassOf(k)'
  <1>1. ASSUME pc[k] = "status", cur[k].goal \in Final
        PROVE  Reached(k, TagOf(cur[k].name, cur[k].copy.spec), cur[k].goal)'
    <2> DEFINE t == TagOf(cur[k].name, cur[k].copy.spec)
               g == cur[k].goal
    <2>1. Reached(k, t, g)
      BY <1>1 DEF PassOf
    <2>2. t = TagOf(cur'[k].name, cur'[k].copy.spec) /\ g = cur'[k].goal
      BY DEF TagOf
    <2>3. \E e \in ended' : /\ e[1] = k /\ e[3] = g
                            /\ t = e[2] \/ (k = "backup" /\ <<t, e[2]>> \in alike')
      BY <2>1 DEF Reached, Matches
    <2>. QED BY <2>2, <2>3 DEF Reached, Matches
  <1>. QED BY <1>1 DEF PassOf, TagOf

LEMMA PassKept ==
    ASSUME PassOK, ended \subseteq ended', alike' = alike, pc' = pc,
           \A k \in Kinds : /\ cur'[k].name = cur[k].name /\ cur'[k].copy = cur[k].copy
                            /\ cur'[k].goal = cur[k].goal /\ cur'[k].req = cur[k].req
    PROVE  PassOK'
  <1>1. ASSUME NEW k \in Kinds PROVE PassOf(k)'
    BY PassOfKept DEF PassOK
  <1>. QED BY <1>1 DEF PassOK

\* Initially.
LEMMA InvInit == Init => Inv
  <1> SUFFICES ASSUME Init PROVE Inv
    OBVIOUS
  <1>1. obj \in [Objects -> Copies] /\ cache \in [Objects -> Copies] /\ fresh \subseteq Objects
    BY ZeroTypes DEF Init
  <1>2. \A o \in Backups : ~obj[o].exists
    BY DEF Init, Absent, Objects
  <1>3. PICK c \in Scenarios : newestFirst = c.newestFirst /\ alike = c.alike
                               /\ budget = c.budget /\ limit = c.budget
    BY DEF Init
  <1>4. newestFirst \in BOOLEAN /\ alike \subseteq Tags \X Tags /\ budget \in [Charges -> Nat]
        /\ limit \in [Charges -> Nat]
    BY <1>3, BackupsAssumption
  <1>5. cur \in [Kinds -> Passes] /\ pc \in [Kinds -> {"idle", "post", "status"}]
    BY ZeroTypes DEF Init, Passes
  <1>6. ops \in Seq(Requests) /\ ended \subseteq Kinds \X Tags \X Final /\ sent \in [Objects -> Nat]
        /\ secret \in Secrets /\ clusterReady \in BOOLEAN
    <2>1. ops = <<>> /\ ended = {} /\ secret \in Secrets /\ clusterReady = FALSE
          /\ sent = [o \in Objects |-> 0]
      BY DEF Init
    <2>2. <<>> \in Seq(Requests)
      OBVIOUS
    <2>. QED BY <2>1, <2>2
  <1>7. TypeOK
    BY <1>1, <1>2, <1>4, <1>5, <1>6 DEF TypeOK, Passes
  <1>8. \A k \in Kinds : pc[k] = "idle" /\ ~cur[k].fresh
    BY DEF Init, NoPass
  <1>9. CopiesOK /\ OpsOK /\ PassOK /\ IdleOK
    BY <1>8 DEF CopiesOK, OpsOK, PassOK, PassOf, IdleOK, Init
  <1>. QED BY <1>7, <1>9 DEF Inv

-----------------------------------------------------------------------------
(* The users' steps.                                                       *)

\* A write by a user keeps what concerns the resources and the passes.
LEMMA UserStep ==
    ASSUME Inv, NEW o \in Objects, NEW new \in Copies, UserWrites(o, new),
           o \in Backups /\ new.exists => new.spec.provider \in Protocols
    PROVE  /\ obj' \in [Objects -> Copies] /\ cache' \in [Objects -> Copies]
           /\ fresh' \subseteq Objects
           /\ \A b \in Backups : obj'[b].exists => obj'[b].spec.provider \in Protocols
           /\ cur' \in [Kinds -> Passes] /\ pc' = pc
           /\ CopiesOK'
           /\ \A k \in Kinds : /\ cur'[k].name = cur[k].name /\ cur'[k].copy = cur[k].copy
                               /\ cur'[k].goal = cur[k].goal /\ cur'[k].req = cur[k].req
                               /\ ~cur[k].fresh => ~cur'[k].fresh
  <1> USE DEF Inv
  <1>1. obj' = [obj EXCEPT ![o] = new] /\ cache' = [cache EXCEPT ![o] = new]
        /\ fresh' = fresh \cup {o} /\ cur' = Outdate(o) /\ pc' = pc
    BY DEF UserWrites, Put, Cached, TypeOK
  <1>2. obj' \in [Objects -> Copies] /\ cache' \in [Objects -> Copies] /\ fresh' \subseteq Objects
    BY <1>1 DEF TypeOK
  <1>3. \A b \in Backups : obj'[b].exists => obj'[b].spec.provider \in Protocols
    BY <1>1 DEF TypeOK, Objects
  <1>4. cur \in [Kinds -> Passes]
    BY DEF TypeOK, Passes
  <1>5. ASSUME NEW k \in Kinds
        PROVE  /\ cur'[k] = [cur[k] EXCEPT !.fresh = cur[k].fresh /\ cur[k].name # o]
               /\ cur'[k] \in Passes
               /\ cur'[k].name = cur[k].name /\ cur'[k].copy = cur[k].copy
               /\ cur'[k].goal = cur[k].goal /\ cur'[k].req = cur[k].req
               /\ cur'[k].fresh <=> (cur[k].fresh /\ cur[k].name # o)
    <2>1. cur[k] \in Passes
      BY <1>4
    <2>2. cur'[k] = [cur[k] EXCEPT !.fresh = cur[k].fresh /\ cur[k].name # o]
      BY <1>1 DEF Outdate
    <2>3. (cur[k].fresh /\ cur[k].name # o) \in BOOLEAN
      OBVIOUS
    <2>. QED BY <2>1, <2>2, <2>3 DEF Passes
  <1>6. cur' \in [Kinds -> Passes]
    <2>1. cur' = [k \in Kinds |-> cur'[k]]
      BY <1>1 DEF Outdate
    <2>. QED BY <1>5, <2>1
  <1>7. CopiesOK'
    <2>1. \A p \in fresh' : cache'[p] = obj'[p]
      BY <1>1 DEF CopiesOK, TypeOK
    <2>2. ASSUME NEW k \in Kinds, cur'[k].fresh PROVE cur'[k].copy = obj'[cur'[k].name]
      <3>1. cur[k].fresh /\ cur[k].name # o /\ cur'[k].copy = cur[k].copy
            /\ cur'[k].name = cur[k].name
        BY <1>5, <2>2
      <3>2. cur[k].copy = obj[cur[k].name]
        BY <3>1 DEF CopiesOK
      <3>3. cur[k].name \in Objects
        BY <3>1, ObjectTypes DEF IdleOK, PassOK, PassOf
      <3>. QED BY <1>1, <3>1, <3>2, <3>3 DEF TypeOK
    <2>. QED BY <2>1, <2>2 DEF CopiesOK
  <1>. QED BY <1>1, <1>2, <1>3, <1>5, <1>6, <1>7

\* Creating, editing and deleting a resource.
LEMMA WriteStep ==
    ASSUME Inv, NEW o \in Objects,
           Delete(o) \/ \E s \in SpecsOf[o] : Create(o, s) \/ Edit(o, s)
    PROVE  /\ Inv'
           /\ \E new \in Copies : UserWrites(o, new) /\ new.state \in {"", obj[o].state}
           /\ UNCHANGED icarusVars
  <1> USE DEF Inv
  <1>1. \E new \in Copies :
           /\ UserWrites(o, new) /\ new.state \in {"", obj[o].state}
           /\ o \in Backups /\ new.exists => new.spec.provider \in Protocols
    <2>1. CASE Delete(o)
      BY <2>1, ZeroTypes DEF Delete, Absent
    <2>2. ASSUME NEW s \in SpecsOf[o], Create(o, s) \/ Edit(o, s)
          PROVE  \E new \in Copies :
                    /\ UserWrites(o, new) /\ new.state \in {"", obj[o].state}
                    /\ o \in Backups /\ new.exists => new.spec.provider \in Protocols
      <3>1. s \in SpecType /\ (o \in Backups => s.provider \in Protocols)
        BY <2>2, SpecTypes
        DEF Create, Edit, Admitted, validateBackupCreateUpdate, validateStorageLocation
      <3>2. CASE Create(o, s)
        <4> DEFINE new == [exists |-> TRUE, spec |-> s, state |-> ""]
        <4>1. new \in Copies
          BY <3>1 DEF Copies, States
        <4>. QED BY <3>1, <3>2, <4>1 DEF Create
      <3>3. CASE Edit(o, s)
        <4> DEFINE new == [obj[o] EXCEPT !.spec = s]
        <4>1. obj[o] \in Copies
          BY DEF TypeOK
        <4>2. new \in Copies /\ new.state = obj[o].state /\ new.spec = s
          BY <3>1, <4>1 DEF Copies
        <4>3. UserWrites(o, new)
          BY <3>3 DEF Edit
        <4> HIDE DEF new
        <4>. QED BY <3>1, <4>2, <4>3
      <3>. QED BY <2>2, <3>2, <3>3
    <2>. QED BY <2>1, <2>2
  <1>2. UNCHANGED <<icarusVars, envVars>>
    BY DEF Delete, Create, Edit
  <1>3. sent' \in [Objects -> Nat] /\ budget' \in [Charges -> Nat] /\ limit' = limit
    <2>1. CASE Delete(o)
      BY <2>1 DEF Delete, TypeOK
    <2>2. ASSUME NEW s \in SpecsOf[o], Create(o, s)
          PROVE  sent' \in [Objects -> Nat] /\ budget' \in [Charges -> Nat] /\ limit' = limit
      <3>1. Spend(o) /\ o \in Charges
        BY <2>2, ChargeTypes DEF Create
      <3>2. budget' \in [Charges -> Nat] /\ limit' = limit
        BY <3>1, SpendType DEF TypeOK
      <3>. QED BY <2>2, <3>2 DEF Create, TypeOK
    <2>3. ASSUME NEW s \in SpecsOf[o], Edit(o, s)
          PROVE  sent' \in [Objects -> Nat] /\ budget' \in [Charges -> Nat] /\ limit' = limit
      <3>1. Spend("edit") /\ "edit" \in Charges
        BY <2>3, ChargeTypes DEF Edit
      <3>2. budget' \in [Charges -> Nat] /\ limit' = limit
        BY <3>1, SpendType DEF TypeOK
      <3>. QED BY <2>3, <3>2 DEF Edit, TypeOK
    <2>. QED BY <2>1, <2>2, <2>3
  <1>4. PICK new \in Copies :
           /\ UserWrites(o, new) /\ new.state \in {"", obj[o].state}
           /\ o \in Backups /\ new.exists => new.spec.provider \in Protocols
    BY <1>1
  <1>5. /\ obj' \in [Objects -> Copies] /\ cache' \in [Objects -> Copies]
        /\ fresh' \subseteq Objects
        /\ \A b \in Backups : obj'[b].exists => obj'[b].spec.provider \in Protocols
        /\ cur' \in [Kinds -> Passes] /\ pc' = pc
        /\ CopiesOK'
        /\ \A k \in Kinds : /\ cur'[k].name = cur[k].name /\ cur'[k].copy = cur[k].copy
                            /\ cur'[k].goal = cur[k].goal /\ cur'[k].req = cur[k].req
                            /\ ~cur[k].fresh => ~cur'[k].fresh
    BY <1>4, UserStep
  <1>6. TypeOK'
    BY <1>2, <1>3, <1>5 DEF TypeOK, Passes, icarusVars, envVars
  <1>7. OpsOK' /\ IdleOK'
    BY <1>2, <1>5 DEF OpsOK, IdleOK, icarusVars
  <1>8. PassOK'
    <2>1. ended' = ended /\ alike' = alike /\ pc' = pc
      BY <1>2, <1>5 DEF icarusVars
    <2>. QED BY <1>5, <2>1, PassKept
  <1>. QED BY <1>2, <1>4, <1>5, <1>6, <1>7, <1>8

-----------------------------------------------------------------------------
(* Icarus's, the environment's and the cache's steps.                      *)

\* What the API server, the passes and the history keep is enough for the rest.
LEMMA ExternalStep ==
    ASSUME Inv,
           \/ \E o \in Objects : Sync(o)
           \/ Environment
           \/ IcarusRestart
           \/ \E i \in DOMAIN ops, s \in Final : OpEnds(i, s)
    PROVE  Inv'
  <1> USE DEF Inv
  <1>1. CASE \E o \in Objects : Sync(o)
    <2>1. PICK o \in Objects : Sync(o)
      BY <1>1
    <2>2. cache' = [cache EXCEPT ![o] = obj[o]] /\ fresh' = fresh \cup {o}
          /\ UNCHANGED <<obj, icarusVars, sent, envVars, passVars, budget, limit>>
      BY <2>1 DEF Sync
    <2>3. TypeOK'
      BY <2>2 DEF TypeOK, icarusVars, envVars, passVars
    <2>4. CopiesOK'
      BY <2>2 DEF CopiesOK, TypeOK, passVars
    <2>5. PassOK'
      BY <2>2, PassKept DEF icarusVars, passVars
    <2>. QED
      BY <2>2, <2>3, <2>4, <2>5 DEF OpsOK, IdleOK, icarusVars, passVars
  <1>2. CASE Environment
    <2>1. "env" \in Charges /\ Spend("env")
      BY <1>2, ChargeTypes DEF Environment
    <2>2. budget' \in [Charges -> Nat] /\ limit' = limit
      BY <2>1, SpendType DEF TypeOK
    <2>3. UNCHANGED <<apiVars, icarusVars, sent, passVars>> /\ secret' \in Secrets
          /\ clusterReady' \in BOOLEAN
      BY <1>2 DEF Environment
    <2>4. PassOK'
      BY <2>3, PassKept DEF icarusVars, passVars
    <2>5. TypeOK'
      BY <2>2, <2>3 DEF TypeOK, apiVars, icarusVars, passVars
    <2>. QED
      BY <2>3, <2>4, <2>5 DEF CopiesOK, OpsOK, IdleOK, apiVars, icarusVars, passVars
  <1>3. CASE IcarusRestart
    <2>1. "fault" \in Charges /\ Spend("fault")
      BY <1>3, ChargeTypes DEF IcarusRestart
    <2>2. budget' \in [Charges -> Nat] /\ limit' = limit
      BY <2>1, SpendType DEF TypeOK
    <2>3. ops' = <<>> /\ UNCHANGED <<apiVars, ended, newestFirst, alike, sent, envVars, passVars>>
      BY <1>3 DEF IcarusRestart
    <2>4. ops' \in Seq(Requests)
      BY <2>3
    <2>5. PassOK'
      BY <2>3, PassKept DEF passVars
    <2>6. TypeOK'
      BY <2>2, <2>3, <2>4 DEF TypeOK, apiVars, envVars, passVars
    <2>. QED
      BY <2>3, <2>5, <2>6 DEF CopiesOK, OpsOK, IdleOK, apiVars, passVars
  <1>4. CASE \E i \in DOMAIN ops, s \in Final : OpEnds(i, s)
    <2>1. PICK i \in DOMAIN ops, s \in Final : OpEnds(i, s)
      BY <1>4
    <2>2. ops \in Seq(Requests) /\ i \in 1..Len(ops) /\ ops[i] \in Requests
      <3>1. ops \in Seq(Requests)
        BY DEF TypeOK
      <3>. QED BY <3>1
    <2>3. ops' = [ops EXCEPT ![i] = [ops[i] EXCEPT !.state = s]]
          /\ ended' = ended \cup {<<ops[i].kind, ops[i].tag, s>>}
          /\ UNCHANGED <<apiVars, newestFirst, alike, sent, envVars, passVars, budget, limit>>
      BY <2>1 DEF OpEnds
    <2>4. [ops[i] EXCEPT !.state = s] \in Requests
      BY <2>2 DEF Requests, States, Final
    <2>5. ops' \in Seq(Requests) /\ DOMAIN ops' = DOMAIN ops
      BY <2>2, <2>3, <2>4
    <2>6. ended' \subseteq Kinds \X Tags \X Final
      <3>1. ops[i].kind \in Kinds /\ ops[i].tag \in Tags
        BY <2>2 DEF Requests
      <3>2. <<ops[i].kind, ops[i].tag, s>> \in Kinds \X Tags \X Final
        BY <3>1
      <3>3. ended \subseteq Kinds \X Tags \X Final
        BY DEF TypeOK
      <3>. QED BY <2>3, <3>2, <3>3
    <2>7. TypeOK'
      BY <2>3, <2>5, <2>6 DEF TypeOK, apiVars, envVars, passVars
    <2>8. OpsOK'
      <3>1. ASSUME NEW j \in DOMAIN ops', ops'[j].state \in Final
            PROVE  <<ops'[j].kind, ops'[j].tag, ops'[j].state>> \in ended'
        <4>1. CASE j = i
          <5>1. ops'[j] = [ops[i] EXCEPT !.state = s]
            BY <2>2, <2>3, <4>1
          <5>2. ops'[j].kind = ops[i].kind /\ ops'[j].tag = ops[i].tag /\ ops'[j].state = s
            BY <2>2, <5>1 DEF Requests
          <5>. QED BY <2>3, <5>2
        <4>2. CASE j # i
          <5>1. ops'[j] = ops[j] /\ j \in DOMAIN ops
            BY <2>3, <2>5, <3>1, <4>2
          <5>. QED BY <2>3, <3>1, <5>1 DEF OpsOK
        <4>. QED BY <4>1, <4>2
      <3>. QED BY <3>1 DEF OpsOK
    <2>9. CopiesOK' /\ IdleOK'
      BY <2>3 DEF CopiesOK, IdleOK, apiVars, passVars
    <2>10. PassOK'
      <3>1. ended \subseteq ended' /\ pc' = pc /\ cur' = cur /\ alike' = alike
        BY <2>3 DEF passVars
      <3>. QED BY <3>1, PassKept
    <2>. QED BY <2>7, <2>8, <2>9, <2>10
  <1>. QED BY <1>1, <1>2, <1>3, <1>4

-----------------------------------------------------------------------------
(* The controllers' steps.                                                 *)

\* The end of a pass.
LEMMA EndPassStep ==
    ASSUME Inv, NEW k \in Kinds, EndPass(k), ended' = ended, alike' = alike
    PROVE  /\ PassOK' /\ IdleOK'
           /\ pc' \in [Kinds -> {"idle", "post", "status"}] /\ cur' \in [Kinds -> Passes]
           /\ \A j \in Kinds : cur'[j].fresh => j # k /\ cur'[j] = cur[j]
  <1> USE DEF Inv
  <1>1. pc \in [Kinds -> {"idle", "post", "status"}] /\ cur \in [Kinds -> Passes]
    BY DEF TypeOK, Passes
  <1>2. pc' = [pc EXCEPT ![k] = "idle"] /\ cur' = [cur EXCEPT ![k] = NoPass]
    BY DEF EndPass
  <1>3. pc' \in [Kinds -> {"idle", "post", "status"}] /\ cur' \in [Kinds -> Passes]
    BY <1>1, <1>2, ZeroTypes DEF Passes
  <1>4. pc'[k] = "idle" /\ cur'[k] = NoPass /\ ~cur'[k].fresh
    BY <1>1, <1>2 DEF NoPass
  <1>5. \A j \in Kinds \ {k} : pc'[j] = pc[j] /\ cur'[j] = cur[j]
    BY <1>1, <1>2
  <1>6. ASSUME NEW j \in Kinds PROVE PassOf(j)'
    <2>1. CASE j = k
      BY <1>4, <2>1 DEF PassOf
    <2>2. CASE j # k
      BY <1>5, <2>2, PassOfKept DEF PassOK
    <2>. QED BY <2>1, <2>2
  <1>7. PassOK'
    BY <1>6 DEF PassOK
  <1>8. IdleOK'
    BY <1>4, <1>5 DEF IdleOK
  <1>. QED BY <1>3, <1>4, <1>5, <1>7, <1>8

\* A pass that begins: what it read is the cache's copy, and a state it is to show is
\* one that an operation of its tag has.
LEMMA GoStep ==
    ASSUME Inv, NEW o \in Objects, NEW l \in {"post", "status"}, NEW g \in States,
           NEW r \in Requests, Go(o, l, g, r), ReadCache(o),
           UNCHANGED <<apiVars, icarusVars, sent, envVars>>,
           cache[o].state # "COMPLETED", r.state = "PENDING",
           l = "post" => g \in {"", "PENDING"},
           l = "status" => cache[o].state # "FAILED",
           g \in Final => Reached(KindOf(o), TagOf(o, cache[o].spec), g)
    PROVE  Inv'
  <1> USE DEF Inv
  <1> DEFINE k == KindOf(o)
             p == [name |-> o, copy |-> cache[o], fresh |-> o \in fresh, goal |-> g, req |-> r]
  <1>1. pc \in [Kinds -> {"idle", "post", "status"}] /\ cur \in [Kinds -> Passes]
        /\ cache[o] \in Copies
    BY DEF TypeOK, Passes
  <1>2. k \in Kinds /\ o \in ObjectsOf(k)
    BY KindTypes
  <1>3. pc' = [pc EXCEPT ![k] = l] /\ cur' = [cur EXCEPT ![k] = p]
    BY DEF Go
  <1>4. p \in Passes
    <2>1. (o \in fresh) \in BOOLEAN
      BY Membership
    <2>. QED BY <1>1, <2>1 DEF Passes
  <1>5. p.name = o /\ p.copy = cache[o] /\ (p.fresh <=> o \in fresh) /\ p.goal = g /\ p.req = r
    OBVIOUS
  <1> HIDE DEF k, p
  <1>6. pc' \in [Kinds -> {"idle", "post", "status"}] /\ cur' \in [Kinds -> Passes]
    BY <1>1, <1>2, <1>3, <1>4
  <1>7. pc'[k] = l /\ cur'[k] = p /\ \A j \in Kinds \ {k} : pc'[j] = pc[j] /\ cur'[j] = cur[j]
    BY <1>1, <1>2, <1>3
  <1>8. budget' \in [Charges -> Nat] /\ limit' \in [Charges -> Nat]
    <2>1. CASE Spend("fault")
      BY <2>1, SpendType, ChargeTypes DEF TypeOK
    <2>2. CASE UNCHANGED <<budget, limit>>
      BY <2>2 DEF TypeOK
    <2>. QED BY <2>1, <2>2 DEF ReadCache
  <1>9. TypeOK'
    BY <1>6, <1>8 DEF TypeOK, Passes, apiVars, icarusVars, envVars
  <1>10. CopiesOK'
    <2>1. \A q \in fresh' : cache'[q] = obj'[q]
      BY DEF CopiesOK, apiVars
    <2>2. ASSUME NEW j \in Kinds, cur'[j].fresh PROVE cur'[j].copy = obj'[cur'[j].name]
      <3>1. obj' = obj
        BY DEF apiVars
      <3>2. CASE j = k
        BY <1>5, <1>7, <2>2, <3>1, <3>2 DEF CopiesOK
      <3>3. CASE j # k
        BY <1>7, <2>2, <3>1, <3>3 DEF CopiesOK
      <3>. QED BY <3>2, <3>3
    <2>. QED BY <2>1, <2>2 DEF CopiesOK
  <1>11. OpsOK'
    BY DEF OpsOK, icarusVars
  <1>12. IdleOK'
    BY <1>7 DEF IdleOK
  <1>13. PassOK'
    <2>1. ended' = ended /\ alike' = alike
      BY DEF icarusVars
    <2>2. ASSUME NEW j \in Kinds, j # k PROVE PassOf(j)'
      BY <1>7, <2>1, <2>2, PassOfKept DEF PassOK
    <2>3. PassOf(k)'
      <3>1. ASSUME g \in Final PROVE Reached(k, TagOf(cur[k].name, cur[k].copy.spec), cur[k].goal)'
        <4>1. Reached(k, TagOf(o, cache[o].spec), g)
          BY <3>1 DEF k
        <4>2. cur'[k].name = o /\ cur'[k].copy = cache[o] /\ cur'[k].goal = g
          BY <1>5, <1>7
        <4>. QED BY <2>1, <4>1, <4>2 DEF Reached, Matches, TagOf
      <3>. QED BY <1>2, <1>5, <1>7, <3>1 DEF PassOf
    <2>. QED BY <2>2, <2>3 DEF PassOK
  <1>. QED BY <1>9, <1>10, <1>11, <1>12, <1>13

\* The beginning of either controller's pass.
LEMMA ReconcileStep ==
    ASSUME Inv,
           \/ \E o \in Backups : reconcileBackup(o)
           \/ \E o \in Restores : reconcileRestore(o)
    PROVE  Inv' /\ UNCHANGED <<obj, ended, alike>>
  <1> USE DEF Inv
  <1>1. ASSUME NEW o \in Objects PROVE cache[o] \in Copies /\ cache[o].spec \in SpecType
    BY DEF TypeOK, Copies
  <1>2. ASSUME NEW i \in DOMAIN ops PROVE ops[i] \in Requests
    <2>1. ops \in Seq(Requests)
      BY DEF TypeOK
    <2>. QED BY <2>1
  <1>3. ASSUME NEW k \in Kinds, NEW i \in DOMAIN ops, NEW t, ops[i].kind = k,
               Matches(k, t, ops[i].tag), ops[i].state \in Final
        PROVE  Reached(k, t, ops[i].state)
    <2>1. <<k, ops[i].tag, ops[i].state>> \in ended
      BY <1>3 DEF OpsOK
    <2>. QED BY <1>3, <2>1 DEF Reached
  <1>4. ASSUME NEW o \in Backups, reconcileBackup(o) PROVE Inv'
    <2> DEFINE req == createBackupRequest(o, cache[o].spec)
    <2>1. o \in Objects /\ KindOf(o) = "backup" /\ "backup" \in Kinds
      BY DEF Objects, KindOf, Kinds
    <2>2. req \in Requests /\ req.state = "PENDING"
      BY <1>1, <2>1, RequestTypes DEF createBackupRequest
    <2>3. /\ cache[o].state # "COMPLETED" /\ ReadCache(o)
          /\ UNCHANGED <<apiVars, icarusVars, sent, envVars>>
      BY <1>4 DEF reconcileBackup, MayBackup
    <2>4. CASE Go(o, "post", "PENDING", req)
      <3>1. "PENDING" \in States /\ "PENDING" \notin Final
        BY DEF States, Final
      <3> HIDE DEF req
      <3>. QED BY <2>1, <2>2, <2>3, <2>4, <3>1, GoStep
    <2>5. ASSUME cache[o].state # "FAILED",
                 NEW i \in findRelatedBackup(o, cache[o].spec), Go(o, "status", ops[i].state, req)
          PROVE  Inv'
      <3>1. i \in DOMAIN ops /\ ops[i].kind = "backup"
            /\ Matches("backup", TagOf(o, cache[o].spec), ops[i].tag)
        BY DEF findRelatedBackup, ListBackups
      <3>2. ops[i].state \in States
        BY <1>2, <3>1 DEF Requests
      <3>3. ops[i].state \in Final => Reached("backup", TagOf(o, cache[o].spec), ops[i].state)
        BY <1>3, <2>1, <3>1
      <3> HIDE DEF req
      <3>. QED BY <2>1, <2>2, <2>3, <2>5, <3>2, <3>3, GoStep
    <2>. QED BY <1>4, <2>4, <2>5 DEF reconcileBackup
  <1>5. ASSUME NEW o \in Restores, reconcileRestore(o) PROVE Inv'
    <2> DEFINE req == createRestoreReq(o, cache[o].spec)
    <2>1. o \in Objects /\ KindOf(o) = "restore" /\ "restore" \in Kinds
      BY BackupsAssumption DEF Objects, KindOf, Kinds
    <2>2. req \in Requests /\ req.state = "PENDING"
      BY <1>1, <2>1, RequestTypes DEF createRestoreReq
    <2>3. /\ cache[o].state # "COMPLETED" /\ ReadCache(o)
          /\ UNCHANGED <<apiVars, icarusVars, sent, envVars>>
      BY <1>5 DEF reconcileRestore, MayRestore
    <2>4. CASE Go(o, "post", "", req)
      <3>1. "" \in States /\ "" \notin Final
        BY DEF States, Final
      <3> HIDE DEF req
      <3>. QED BY <2>1, <2>2, <2>3, <2>4, <3>1, GoStep
    <2>5. ASSUME cache[o].state # "FAILED",
                 NEW i \in findRelatedIcarusRestore(o, cache[o].spec),
                 Go(o, "status", ops[i].state, req)
          PROVE  Inv'
      <3>1. i \in DOMAIN ops /\ ops[i].kind = "restore"
            /\ Matches("restore", TagOf(o, cache[o].spec), ops[i].tag)
        BY DEF findRelatedIcarusRestore, ListRestores
      <3>2. ops[i].state \in States
        BY <1>2, <3>1 DEF Requests
      <3>3. ops[i].state \in Final => Reached("restore", TagOf(o, cache[o].spec), ops[i].state)
        BY <1>3, <2>1, <3>1
      <3> HIDE DEF req
      <3>. QED BY <2>1, <2>2, <2>3, <2>5, <3>2, <3>3, GoStep
    <2>. QED BY <1>5, <2>4, <2>5 DEF reconcileRestore
  <1>. QED BY <1>4, <1>5 DEF reconcileBackup, reconcileRestore, apiVars, icarusVars

\* A pass that is given up.
LEMMA AbortStep ==
    ASSUME Inv, NEW k \in Kinds, Abort(k)
    PROVE  Inv' /\ UNCHANGED <<obj, ended, alike>>
  <1> USE DEF Inv
  <1>1. EndPass(k) /\ Spend("fault") /\ UNCHANGED <<apiVars, icarusVars, sent, envVars>>
    BY DEF Abort
  <1>2. budget' \in [Charges -> Nat] /\ limit' = limit
    BY <1>1, SpendType, ChargeTypes DEF TypeOK
  <1>3. ended' = ended /\ alike' = alike
    BY <1>1 DEF icarusVars
  <1>4. /\ PassOK' /\ IdleOK'
        /\ pc' \in [Kinds -> {"idle", "post", "status"}] /\ cur' \in [Kinds -> Passes]
        /\ \A j \in Kinds : cur'[j].fresh => j # k /\ cur'[j] = cur[j]
    BY <1>1, <1>3, EndPassStep
  <1>5. TypeOK'
    BY <1>1, <1>2, <1>4 DEF TypeOK, Passes, apiVars, icarusVars, envVars
  <1>6. CopiesOK' /\ OpsOK'
    BY <1>1, <1>4 DEF CopiesOK, OpsOK, apiVars, icarusVars
  <1>. QED BY <1>1, <1>3, <1>4, <1>5, <1>6 DEF apiVars

\* Icarus takes a request, answered or not.
LEMMA AcceptStep ==
    ASSUME Inv, NEW k \in Kinds, Accept(k)
    PROVE  /\ ops' \in Seq(Requests) /\ sent' \in [Objects -> Nat]
           /\ OpsOK' /\ pc[k] = "post"
           /\ UNCHANGED <<apiVars, ended, newestFirst, alike, envVars>>
  <1> USE DEF Inv
  <1>1. /\ ops' = Append(ops, cur[k].req) /\ pc[k] = "post"
        /\ sent' = [sent EXCEPT ![cur[k].name] = @ + 1]
        /\ UNCHANGED <<apiVars, ended, newestFirst, alike, envVars>>
    BY DEF Accept
  <1>2. ops \in Seq(Requests) /\ cur[k].req \in Requests
    <2>1. cur[k] \in Passes
      BY DEF TypeOK, Passes
    <2>. QED BY <2>1 DEF TypeOK, Passes
  <1>3. ops' \in Seq(Requests)
    BY <1>1, <1>2
  <1>4. cur[k].req.state = "PENDING" /\ cur[k].name \in Objects
    BY <1>1, ObjectTypes DEF PassOK, PassOf
  <1>5. sent' \in [Objects -> Nat]
    <2> DEFINE o == cur[k].name
    <2>1. sent \in [Objects -> Nat] /\ o \in Objects
      BY <1>4 DEF TypeOK
    <2>2. sent' = [sent EXCEPT ![o] = sent[o] + 1]
      BY <1>1
    <2> HIDE DEF o, Inv
    <2>3. sent[o] + 1 \in Nat
      BY <2>1
    <2>. QED BY <2>1, <2>2, <2>3
  <1>6. ASSUME NEW i \in DOMAIN ops', ops'[i].state \in Final
        PROVE  <<ops'[i].kind, ops'[i].tag, ops'[i].state>> \in ended'
    <2>1. i \in 1..(Len(ops) + 1)
      BY <1>1, <1>2
    <2>2. CASE i = Len(ops) + 1
      <3>1. ops'[i] = cur[k].req
        BY <1>1, <1>2, <2>2
      <3>. QED BY <1>4, <1>6, <3>1 DEF Final
    <2>3. CASE i \in 1..Len(ops)
      <3>1. ops'[i] = ops[i] /\ i \in DOMAIN ops
        BY <1>1, <1>2, <2>3
      <3>. QED BY <1>1, <1>6, <3>1 DEF OpsOK
    <2>. QED BY <1>2, <2>1, <2>2, <2>3
  <1>7. OpsOK'
    BY <1>6 DEF OpsOK
  <1>. QED BY <1>1, <1>3, <1>5, <1>7

\* The request is sent: the pass goes on to the status, or ends.
LEMMA PostStep ==
    ASSUME Inv, NEW k \in Kinds, Accept(k),
           budget' \in [Charges -> Nat], limit' \in [Charges -> Nat],
           \/ EndPass(k)
           \/ pc' = [pc EXCEPT ![k] = "status"] /\ cur' = cur
    PROVE  Inv' /\ UNCHANGED <<obj, ended, alike>>
  <1> USE DEF Inv
  <1>1. /\ ops' \in Seq(Requests) /\ sent' \in [Objects -> Nat]
        /\ OpsOK' /\ pc[k] = "post"
        /\ UNCHANGED <<apiVars, ended, newestFirst, alike, envVars>>
    BY AcceptStep
  <1>2. CASE EndPass(k)
    <2>1. /\ PassOK' /\ IdleOK'
          /\ pc' \in [Kinds -> {"idle", "post", "status"}] /\ cur' \in [Kinds -> Passes]
          /\ \A j \in Kinds : cur'[j].fresh => j # k /\ cur'[j] = cur[j]
      BY <1>1, <1>2, EndPassStep
    <2>2. TypeOK'
      BY <1>1, <2>1 DEF TypeOK, Passes, apiVars, envVars
    <2>3. CopiesOK'
      BY <1>1, <2>1 DEF CopiesOK, apiVars
    <2>. QED BY <1>1, <2>1, <2>2, <2>3 DEF apiVars
  <1>3. CASE pc' = [pc EXCEPT ![k] = "status"] /\ cur' = cur
    <2>1. TypeOK'
      BY <1>1, <1>3 DEF TypeOK, apiVars, envVars
    <2>2. CopiesOK' /\ IdleOK'
      BY <1>1, <1>3 DEF CopiesOK, IdleOK, apiVars, TypeOK
    <2>3. ASSUME NEW j \in Kinds PROVE PassOf(j)'
      <3>1. CASE j = k
        <4>1. pc'[k] = "status" /\ cur'[k] = cur[k] /\ PassOf(k)
          BY <1>3 DEF TypeOK, PassOK
        <4>2. /\ cur[k].name \in ObjectsOf(k) /\ cur[k].copy.state # "COMPLETED"
              /\ cur[k].req.state = "PENDING" /\ cur[k].goal \in {"", "PENDING"}
          BY <1>1, <4>1 DEF PassOf
        <4>. QED BY <3>1, <4>1, <4>2 DEF PassOf, Final
      <3>2. CASE j # k
        <4>1. pc'[j] = pc[j] /\ cur'[j] = cur[j] /\ PassOf(j)
          BY <1>3, <3>2 DEF TypeOK, PassOK
        <4>. QED BY <1>1, <4>1, PassOfKept
      <3>. QED BY <3>1, <3>2
    <2>. QED BY <1>1, <2>1, <2>2, <2>3 DEF PassOK, apiVars
  <1>. QED BY <1>2, <1>3

\* reconcileStatus, and what it does to the status.
LEMMA StatusStep ==
    ASSUME Inv, NEW k \in Kinds, reconcileStatus(k)
    PROVE  /\ Inv'
           /\ UNCHANGED <<ended, alike>>
           /\ \/ obj' = obj
              \/ \E o \in ObjectsOf(k) :
                    /\ cur[k].name = o /\ cur[k].copy = obj[o] /\ pc[k] = "status"
                    /\ obj' = [obj EXCEPT ![o] = [obj[o] EXCEPT !.state = cur[k].goal]]
  <1> USE DEF Inv
  <1> DEFINE o == cur[k].name
             new == [obj[o] EXCEPT !.state = cur[k].goal]
  <1>1. pc[k] = "status" /\ EndPass(k) /\ UNCHANGED <<icarusVars, sent, envVars, budget, limit>>
    BY DEF reconcileStatus
  <1>2. o \in ObjectsOf(k) /\ o \in Objects
    BY <1>1, ObjectTypes DEF PassOK, PassOf
  <1>3. obj[o] \in Copies /\ cur[k].goal \in States
    <2>1. cur[k] \in Passes
      BY DEF TypeOK, Passes
    <2>. QED BY <1>2, <2>1 DEF TypeOK, Passes
  <1>4. new \in Copies /\ new.exists = obj[o].exists /\ new.spec = obj[o].spec
    BY <1>3 DEF Copies
  <1>5. ended' = ended /\ alike' = alike
    BY <1>1 DEF icarusVars
  <1>6. /\ PassOK' /\ IdleOK'
        /\ pc' \in [Kinds -> {"idle", "post", "status"}] /\ cur' \in [Kinds -> Passes]
        /\ \A j \in Kinds : cur'[j].fresh => j # k /\ cur'[j] = cur[j]
    BY <1>1, <1>5, EndPassStep
  <1>7. OpsOK'
    BY <1>1 DEF OpsOK, icarusVars
  <1>8. CASE ~cur[k].fresh
    <2>1. UNCHANGED apiVars
      BY <1>8 DEF reconcileStatus, NoConflict
    <2>2. TypeOK'
      BY <1>1, <1>6, <2>1 DEF TypeOK, Passes, apiVars, icarusVars, envVars
    <2>3. CopiesOK'
      BY <1>6, <2>1 DEF CopiesOK, apiVars
    <2>. QED BY <1>5, <1>6, <1>7, <2>1, <2>2, <2>3 DEF apiVars
  <1>9. CASE cur[k].fresh
    <2>1. obj' = [obj EXCEPT ![o] = new] /\ (Cached(o) \/ NotCached(o))
      BY <1>9 DEF reconcileStatus, NoConflict, Put
    <2> HIDE DEF new
    <2>2. obj' \in [Objects -> Copies] /\ obj'[o] = new
          /\ \A q \in Objects \ {o} : obj'[q] = obj[q]
      BY <1>2, <1>4, <2>1 DEF TypeOK
    <2>3. \A b \in Backups : obj'[b].exists => obj'[b].spec.provider \in Protocols
      <3>1. ASSUME NEW b \in Backups PROVE obj'[b].exists => obj'[b].spec.provider \in Protocols
        <4>1. b \in Objects /\ (obj[b].exists => obj[b].spec.provider \in Protocols)
          BY DEF Objects, TypeOK
        <4>2. obj'[b].exists = obj[b].exists /\ obj'[b].spec = obj[b].spec
          BY <1>4, <2>2, <4>1
        <4>. QED BY <4>1, <4>2
      <3>. QED BY <3>1
    <2>4. cache' \in [Objects -> Copies] /\ fresh' \subseteq Objects
          /\ \A q \in fresh' : cache'[q] = obj'[q]
      <3>1. CASE Cached(o)
        BY <1>2, <2>2, <3>1 DEF Cached, TypeOK, CopiesOK
      <3>2. CASE NotCached(o)
        BY <1>2, <2>2, <3>2 DEF NotCached, TypeOK, CopiesOK
      <3>. QED BY <2>1, <3>1, <3>2
    <2>5. TypeOK'
      BY <1>1, <1>6, <2>2, <2>3, <2>4 DEF TypeOK, Passes, icarusVars, envVars
    <2>6. ASSUME NEW j \in Kinds, cur'[j].fresh PROVE cur'[j].copy = obj'[cur'[j].name]
      <3>1. j # k /\ cur'[j] = cur[j] /\ cur[j].fresh
        BY <1>6, <2>6
      <3>2. cur[j].name \in ObjectsOf(j) /\ cur[j].name \in Objects
        BY <3>1, ObjectTypes DEF IdleOK, PassOK, PassOf
      <3>3. cur[j].name # o
        <4>1. ObjectsOf(j) \cap ObjectsOf(k) = {}
          <5>1. Backups \cap Restores = {}
            BY BackupsAssumption
          <5>2. j \in {"backup", "restore"} /\ k \in {"backup", "restore"} /\ j # k
            BY <3>1 DEF Kinds
          <5>. QED BY <5>1, <5>2 DEF ObjectsOf
        <4>. QED BY <1>2, <3>2, <4>1
      <3>. QED BY <2>2, <3>1, <3>2, <3>3 DEF CopiesOK
    <2>7. CopiesOK'
      BY <2>4, <2>6 DEF CopiesOK
    <2>8. cur[k].copy = obj[o]
      BY <1>9 DEF CopiesOK
    <2>9. obj' = [obj EXCEPT ![o] = [obj[o] EXCEPT !.state = cur[k].goal]]
      BY <2>1 DEF new
    <2>. QED BY <1>1, <1>2, <1>5, <1>6, <1>7, <2>5, <2>7, <2>8, <2>9
  <1>. QED BY <1>8, <1>9

\* Requests, as they are made.
LEMMA RequestStep ==
    ASSUME Inv, PostBackup \/ PostRestore \/ \E k \in Kinds : PostUnanswered(k)
    PROVE  Inv' /\ UNCHANGED <<obj, ended, alike>>
  <1>1. budget \in [Charges -> Nat] /\ limit \in [Charges -> Nat]
        /\ "backup" \in Kinds /\ "restore" \in Kinds
    BY DEF Inv, TypeOK, Kinds
  <1>2. CASE PostBackup
    BY <1>1, <1>2, PostStep DEF PostBackup
  <1>3. CASE PostRestore
    BY <1>1, <1>3, PostStep DEF PostRestore
  <1>4. ASSUME NEW k \in Kinds, PostUnanswered(k)
        PROVE  Inv' /\ UNCHANGED <<obj, ended, alike>>
    <2>1. Accept(k) /\ Spend("fault") /\ EndPass(k)
      BY <1>4 DEF PostUnanswered
    <2>2. budget' \in [Charges -> Nat] /\ limit' \in [Charges -> Nat]
      BY <1>1, <2>1, SpendType, ChargeTypes
    <2>. QED BY <2>1, <2>2, PostStep
  <1>. QED BY <1>2, <1>3, <1>4

\* Every step keeps the invariant.
LEMMA InvStep == Inv /\ [Next]_vars => Inv'
  <1> SUFFICES ASSUME Inv, [Next]_vars PROVE Inv'
    OBVIOUS
  <1>1. CASE BackupStep \/ RestoreStep \/ \E k \in Kinds : PostUnanswered(k)
    <2>1. "backup" \in Kinds /\ "restore" \in Kinds
      BY DEF Kinds
    <2>. QED BY <1>1, <2>1, RequestStep, StatusStep
         DEF BackupStep, RestoreStep, BackupStatus, RestoreStatus
  <1>2. CASE \E k \in Kinds : Abort(k)
    BY <1>2, AbortStep
  <1>3. CASE (\E o \in Backups : reconcileBackup(o)) \/ (\E o \in Restores : reconcileRestore(o))
    BY <1>3, ReconcileStep
  <1>4. CASE \E o \in Objects : Delete(o) \/ \E s \in SpecsOf[o] : Create(o, s) \/ Edit(o, s)
    BY <1>4, WriteStep
  <1>5. CASE \/ \E o \in Objects : Sync(o)
             \/ Environment
             \/ IcarusRestart
             \/ \E i \in DOMAIN ops, s \in Final : OpEnds(i, s)
    BY <1>5, ExternalStep
  <1>6. CASE UNCHANGED vars
    <2>1. UNCHANGED <<obj, cache, fresh, ops, ended, newestFirst, alike, sent, secret,
                      clusterReady, pc, cur, budget, limit>>
      BY <1>6 DEF vars, apiVars, icarusVars, envVars, passVars
    <2>2. PassOK'
      BY <2>1, PassKept DEF Inv
    <2>. QED BY <2>1, <2>2 DEF Inv, TypeOK, CopiesOK, OpsOK, IdleOK
  <1>. QED BY <1>1, <1>2, <1>3, <1>4, <1>5, <1>6 DEF Next

\* Both controllers keep their types: what Icarus is asked for and what the status
\* shows is well-formed, and every backup is one the webhook admitted.
THEOREM BackupsType == Spec => []TypeOK
  <1>1. Inv => TypeOK
    BY DEF Inv
  <1>. QED BY <1>1, InvInit, InvStep, PTL DEF Spec

-----------------------------------------------------------------------------
(* The refinement.                                                         *)

\* A user's write changes one resource's key, and resets its state or keeps it.
LEMMA WriteRefines ==
    ASSUME Inv, NEW o \in Objects,
           Delete(o) \/ \E s \in SpecsOf[o] : Create(o, s) \/ Edit(o, s)
    PROVE  Op!Next
  <1>1. PICK new \in Copies : UserWrites(o, new) /\ new.state \in {"", obj[o].state}
    BY WriteStep
  <1>2. UNCHANGED icarusVars
    BY WriteStep
  <1>3. outcomesBar' = outcomesBar
    BY <1>2 DEF outcomesBar, Matches, icarusVars
  <1>4. obj' = [obj EXCEPT ![o] = new] /\ obj \in [Objects -> Copies]
    BY <1>1 DEF UserWrites, Put, Inv, TypeOK
  <1>5. obj'[o] = new /\ \A q \in Objects \ {o} : obj'[q] = obj[q]
    BY <1>4
  <1>6. shownBar' = [shownBar EXCEPT ![o] = new.state]
    BY <1>5 DEF shownBar
  <1>7. shownBar' \in {shownBar, [shownBar EXCEPT ![o] = ""]}
    <2>1. CASE new.state = ""
      BY <1>6, <2>1
    <2>2. CASE new.state = obj[o].state
      BY <1>5, <2>2 DEF shownBar
    <2>. QED BY <1>1, <2>1, <2>2
  <1> DEFINE key == <<KindOf(o), TagOf(o, new.spec)>>
  <1>8. key \in Kinds \X Tags
    BY KindTypes, TagTypes DEF Copies
  <1>9. keyBar' = [keyBar EXCEPT ![o] = key]
    BY <1>5 DEF keyBar, TagOf
  <1>10. Op!Write(o)
    BY <1>3, <1>7, <1>8, <1>9 DEF Op!Write
  <1>. QED BY <1>10 DEF Op!Next

\* An operation that ends adds to the outcomes.
LEMMA EndRefines ==
    ASSUME NEW i \in DOMAIN ops, NEW s \in Final, OpEnds(i, s)
    PROVE  Op!Next
  <1>1. ended \subseteq ended' /\ alike' = alike /\ obj' = obj
    BY DEF OpEnds, apiVars
  <1>2. shownBar' = shownBar /\ keyBar' = keyBar
    BY <1>1 DEF shownBar, keyBar, TagOf
  <1>3. outcomesBar \subseteq outcomesBar'
    BY <1>1 DEF outcomesBar, Matches
  <1>4. outcomesBar' \in SUBSET ((Kinds \X Tags) \X Op!Final)
    BY DEF outcomesBar, Final, Op!Final
  <1>5. Op!End
    BY <1>2, <1>3, <1>4 DEF Op!End
  <1>. QED BY <1>5 DEF Op!Next

\* A status that is written follows the operation.
LEMMA StatusRefines ==
    ASSUME Inv, NEW k \in Kinds, reconcileStatus(k)
    PROVE  [Op!Next]_(Op!vars)
  <1>1. /\ UNCHANGED <<ended, alike>>
        /\ \/ obj' = obj
           \/ \E o \in ObjectsOf(k) :
                 /\ cur[k].name = o /\ cur[k].copy = obj[o] /\ pc[k] = "status"
                 /\ obj' = [obj EXCEPT ![o] = [obj[o] EXCEPT !.state = cur[k].goal]]
    BY StatusStep
  <1>2. outcomesBar' = outcomesBar
    BY <1>1 DEF outcomesBar, Matches
  <1>3. CASE obj' = obj
    <2>1. shownBar' = shownBar /\ keyBar' = keyBar
      BY <1>3 DEF shownBar, keyBar, TagOf
    <2>. QED BY <1>2, <2>1 DEF Op!vars
  <1>4. ASSUME NEW o \in ObjectsOf(k), cur[k].name = o, cur[k].copy = obj[o],
               pc[k] = "status",
               obj' = [obj EXCEPT ![o] = [obj[o] EXCEPT !.state = cur[k].goal]]
        PROVE  Op!Next
    <2> DEFINE g == cur[k].goal
               t == TagOf(o, obj[o].spec)
    <2>1. o \in Objects /\ obj \in [Objects -> Copies] /\ obj[o] \in Copies
      BY ObjectTypes DEF Inv, TypeOK
    <2>2. g \in States
      <3>1. cur[k] \in Passes
        BY DEF Inv, TypeOK, Passes
      <3>. QED BY <3>1 DEF Passes
    <2>3. PassOf(k)
      BY DEF Inv, PassOK
    <2>4. /\ obj[o].state # "COMPLETED"
          /\ obj[o].state = "FAILED" => g \in {"", "PENDING"}
          /\ g \in Final => Reached(k, t, g)
      BY <1>4, <2>3 DEF PassOf
    <2>5. KindOf(o) = k /\ t \in Tags
      <3>1. KindOf(o) = k
        <4>1. Backups \cap Restores = {}
          BY BackupsAssumption
        <4>2. k \in {"backup", "restore"}
          BY DEF Kinds
        <4>. QED BY <4>1, <4>2 DEF KindOf, ObjectsOf
      <3>. QED BY <2>1, <3>1, TagTypes DEF Copies
    <2>6. obj'[o] = [obj[o] EXCEPT !.state = g] /\ \A q \in Objects \ {o} : obj'[q] = obj[q]
      BY <1>4, <2>1
    <2>7. obj'[o].state = g /\ obj'[o].spec = obj[o].spec
      BY <2>1, <2>6 DEF Copies
    <2> HIDE DEF g, t
    <2>8. shownBar' = [shownBar EXCEPT ![o] = g] /\ keyBar' = keyBar
      BY <2>1, <2>6, <2>7 DEF shownBar, keyBar, TagOf
    <2>9. shownBar[o] = obj[o].state /\ keyBar[o] = <<k, t>>
      BY <2>1, <2>5 DEF shownBar, keyBar, t
    <2>10. g \in Op!Final => <<keyBar[o], g>> \in outcomesBar
      <3>1. ASSUME g \in Final PROVE <<<<k, t>>, g>> \in outcomesBar
        <4>1. <<<<k, t>>, g>> \in (Kinds \X Tags) \X Final
          BY <2>5, <3>1
        <4>2. \E e \in ended : e[1] = k /\ Matches(k, t, e[2]) /\ e[3] = g
          BY <2>4, <3>1 DEF Reached
        <4>. QED BY <4>1, <4>2 DEF outcomesBar
      <3>. QED BY <2>9, <3>1 DEF Op!Final, Final
    <2>11. Op!Show(o, g)
      BY <1>2, <2>4, <2>8, <2>9, <2>10 DEF Op!Show
    <2>12. g \in Op!States
      BY <2>2 DEF States, Final, Op!States, Op!Final
    <2>. QED BY <2>1, <2>11, <2>12 DEF Op!Next
  <1>. QED BY <1>1, <1>3, <1>4

\* Every step of the controllers is a step of module Operations, or none at all.
LEMMA StepRefines == Inv /\ [Next]_vars => [Op!Next]_(Op!vars)
  <1> SUFFICES ASSUME Inv, [Next]_vars PROVE [Op!Next]_(Op!vars)
    OBVIOUS
  <1>1. ASSUME UNCHANGED <<obj, ended, alike>> PROVE UNCHANGED Op!vars
    <2>1. shownBar' = shownBar /\ keyBar' = keyBar
      BY <1>1 DEF shownBar, keyBar, TagOf
    <2>2. outcomesBar' = outcomesBar
      BY <1>1 DEF outcomesBar, Matches
    <2>. QED BY <2>1, <2>2 DEF Op!vars
  <1>2. CASE BackupStatus \/ RestoreStatus
    <2>1. "backup" \in Kinds /\ "restore" \in Kinds
      BY DEF Kinds
    <2>. QED BY <1>2, <2>1, StatusRefines DEF BackupStatus, RestoreStatus
  <1>3. CASE PostBackup \/ PostRestore \/ \E k \in Kinds : PostUnanswered(k)
    BY <1>1, <1>3, RequestStep
  <1>4. CASE \E k \in Kinds : Abort(k)
    BY <1>1, <1>4, AbortStep
  <1>5. CASE (\E o \in Backups : reconcileBackup(o)) \/ (\E o \in Restores : reconcileRestore(o))
    BY <1>1, <1>5, ReconcileStep
  <1>6. CASE \E o \in Objects : Delete(o) \/ \E s \in SpecsOf[o] : Create(o, s) \/ Edit(o, s)
    BY <1>6, WriteRefines
  <1>7. CASE \E i \in DOMAIN ops, s \in Final : OpEnds(i, s)
    BY <1>7, EndRefines
  <1>8. CASE (\E o \in Objects : Sync(o)) \/ Environment \/ IcarusRestart
    BY <1>1, <1>8 DEF Sync, Environment, IcarusRestart, apiVars, icarusVars
  <1>9. CASE UNCHANGED vars
    BY <1>1, <1>9 DEF vars, apiVars, icarusVars
  <1>. QED
    BY <1>2, <1>3, <1>4, <1>5, <1>6, <1>7, <1>8, <1>9 DEF Next, BackupStep, RestoreStep

LEMMA InitRefines == Init => Op!Init
  <1> SUFFICES ASSUME Init PROVE Op!Init
    OBVIOUS
  <1>1. \A o \in Objects : obj[o].state = "" /\ obj[o].spec = NoSpec
    <2>1. Absent.state = "" /\ Absent.spec = NoSpec
      BY DEF Absent
    <2>2. \A o \in Objects : obj[o] = Absent
      BY DEF Init
    <2>. QED BY <2>1, <2>2
  <1>2. shownBar = [o \in Objects |-> ""]
    BY <1>1 DEF shownBar
  <1>3. keyBar \in [Objects -> Kinds \X Tags]
    <2>1. ASSUME NEW o \in Objects PROVE <<KindOf(o), TagOf(o, obj[o].spec)>> \in Kinds \X Tags
      <3>1. obj[o].spec \in SpecType
        BY <1>1, NoSpecType
      <3>. QED BY <3>1, KindTypes, TagTypes
    <2>. QED BY <2>1 DEF keyBar
  <1>4. outcomesBar = {}
    BY DEF Init, outcomesBar
  <1>. QED BY <1>2, <1>3, <1>4 DEF Op!Init

\* Whatever fails, and however often the user edits: the status of a backup or a restore
\* shows a state that an operation of its tag has reached, completed is final, and failed
\* gives way to a new request only (reconcileStatus, reconcileBackup, reconcileRestore).
THEOREM StatusRefinement == Spec => StatusIsTrue
  <1>. QED BY InitRefines, InvInit, InvStep, StepRefines, PTL DEF Spec, StatusIsTrue, Op!Spec

-----------------------------------------------------------------------------
(* How often a backup is requested.                                        *)

\* The controller is working on o, with the current version of it.
Working(o) == pc["backup"] # "idle" /\ cur["backup"].name = o
Current(o) == Working(o) /\ cur["backup"].fresh

\* The last operation of the tag has another configuration than the spec, or the same.
Differs(o) == reconcileFailedBackup(o, obj[o].spec)
Same(o) == \E i \in findRelatedBackup(o, obj[o].spec) :
              ~backupConfigChanged(ops[i], createBackupRequest(o, obj[o].spec))

\* In state st a request will be sent some time, although nothing else happens.
Due(o, st) ==
    /\ obj[o].exists
    /\ \/ st = ""
       \/ st = "PENDING" /\ ~Same(o)
       \/ st = "FAILED" /\ Differs(o)

\* A request that is about to be sent with an outdated copy will not do.
DueAgain(o) ==
    /\ ~cur["backup"].fresh /\ obj[o].exists /\ obj[o].state # "COMPLETED"
    /\ obj[o].state = "" \/ cur["backup"].req # createBackupRequest(o, obj[o].spec)

One(b) == IF b THEN 1 ELSE 0

\* The state that o has, or is about to have.
Shows(o) == IF Current(o) THEN cur["backup"].goal ELSE obj[o].state

\* Requests that will be sent without a further charge.
Posting(o) == Working(o) /\ pc["backup"] = "post"
Owed(o) == IF Posting(o) THEN 1 + One(DueAgain(o)) ELSE One(Due(o, Shows(o)))

\* Nothing is charged beyond the budget.
BudgetOK == \A c \in Charges : budget[c] <= limit[c]

\* Copies differ from a backup in nothing but the state, and every backup that exists
\* has been charged for.
SpecOf(o) ==
    /\ cache[o].exists = obj[o].exists /\ cache[o].spec = obj[o].spec
    /\ obj[o].exists => obj[o].spec \in SpecsOf[o] /\ budget[o] < limit[o]
SpecsOK == \A o \in Backups : SpecOf(o)

\* What a pass is to send is the request for the copy it has read.
RequestOK ==
    pc["backup"] # "idle" =>
        /\ cur["backup"].copy.spec \in SpecsOf[cur["backup"].name]
        /\ cur["backup"].req = createBackupRequest(cur["backup"].name, cur["backup"].copy.spec)
        /\ budget[cur["backup"].name] < limit[cur["backup"].name]
        /\ pc["backup"] = "post" => cur["backup"].goal = "PENDING"

KindOK == pc["restore"] # "idle" => cur["restore"].req.kind = "restore"

\* For each backup no more requests have been sent, or are owed, than were charged for.
AccountOf(o) == sent[o] + Owed(o) <= Charged(o)
AccountOK == \A o \in Backups : Unshared(o) => AccountOf(o)

\* The inductive invariant.
AccountInv == Inv /\ BudgetOK /\ SpecsOK /\ RequestOK /\ KindOK /\ AccountOK
\* A charge lowers one budget.
LEMMA SpendFalls ==
    ASSUME Inv, NEW b \in Charges, Spend(b)
    PROVE  /\ limit' = limit /\ budget'[b] = budget[b] - 1
           /\ \A c \in Charges \ {b} : budget'[c] = budget[c]
           /\ \A c \in Charges : budget'[c] <= budget[c]
  <1>1. budget \in [Charges -> Nat] /\ budget' = [budget EXCEPT ![b] = budget[b] - 1]
        /\ limit' = limit
    BY DEF Inv, TypeOK, Spend
  <1>2. budget'[b] = budget[b] - 1 /\ \A c \in Charges \ {b} : budget'[c] = budget[c]
    BY <1>1
  <1>3. \A c \in Charges : budget[c] \in Nat
    BY <1>1
  <1>. QED BY <1>1, <1>2, <1>3

\* No step gives a budget back, and the tags stay as they are.
LEMMA BudgetStep ==
    ASSUME Inv, [Next]_vars
    PROVE  /\ limit' = limit /\ alike' = alike
           /\ \A c \in Charges : budget'[c] <= budget[c]
  <1>1. ASSUME budget' = budget PROVE \A c \in Charges : budget'[c] <= budget[c]
    <2>1. \A c \in Charges : budget[c] \in Nat
      BY DEF Inv, TypeOK
    <2>. QED BY <1>1, <2>1
  <1>2. CASE BackupStep \/ RestoreStep
    <2>1. UNCHANGED <<budget, limit, alike>>
      BY <1>2 DEF BackupStep, RestoreStep, PostBackup, PostRestore, Accept, BackupStatus,
                  RestoreStatus, reconcileStatus, icarusVars
    <2>. QED BY <1>1, <2>1
  <1>3. CASE \E k \in Kinds : PostUnanswered(k) \/ Abort(k)
    <2>1. Spend("fault") /\ alike' = alike
      BY <1>3 DEF PostUnanswered, Abort, Accept, icarusVars
    <2>. QED BY <2>1, SpendFalls, ChargeTypes
  <1>4. CASE (\E o \in Backups : reconcileBackup(o)) \/ (\E o \in Restores : reconcileRestore(o))
    <2>1. (Spend("fault") \/ UNCHANGED <<budget, limit>>) /\ alike' = alike
      BY <1>4 DEF reconcileBackup, reconcileRestore, ReadCache, icarusVars
    <2>. QED BY <1>1, <2>1, SpendFalls, ChargeTypes
  <1>5. ASSUME NEW o \in Objects,
               Sync(o) \/ Delete(o) \/ \E s \in SpecsOf[o] : Create(o, s) \/ Edit(o, s)
        PROVE  /\ limit' = limit /\ alike' = alike
               /\ \A c \in Charges : budget'[c] <= budget[c]
    <2>1. (Spend(o) \/ Spend("edit") \/ UNCHANGED <<budget, limit>>) /\ alike' = alike
      BY <1>5 DEF Sync, Delete, Create, Edit, icarusVars
    <2>. QED BY <1>1, <2>1, SpendFalls, ChargeTypes
  <1>6. CASE Environment \/ IcarusRestart
    <2>1. (Spend("env") \/ Spend("fault")) /\ alike' = alike
      BY <1>6 DEF Environment, IcarusRestart, icarusVars
    <2>. QED BY <2>1, SpendFalls, ChargeTypes
  <1>7. CASE (\E i \in DOMAIN ops, s \in Final : OpEnds(i, s)) \/ UNCHANGED vars
    <2>1. UNCHANGED <<budget, limit, alike>>
      BY <1>7 DEF OpEnds, vars, icarusVars
    <2>. QED BY <1>1, <2>1
  <1>. QED BY <1>2, <1>3, <1>4, <1>5, <1>6, <1>7 DEF Next

\* What one backup's copies show stays as it is while nobody writes it.
LEMMA SpecKept ==
    ASSUME NEW o \in Backups, SpecOf(o), limit' = limit, budget'[o] <= budget[o],
           budget[o] \in Nat, budget'[o] \in Nat, limit[o] \in Nat,
           obj'[o].exists = obj[o].exists, obj'[o].spec = obj[o].spec,
           \/ cache'[o] = cache[o]
           \/ cache'[o].exists = obj'[o].exists /\ cache'[o].spec = obj'[o].spec
    PROVE  SpecOf(o)'
  BY DEF SpecOf

\* Every write of a backup is seen in the cache at once, but for its state.
LEMMA SpecsStep == ASSUME AccountInv, [Next]_vars, Inv' PROVE BudgetOK' /\ SpecsOK'
  <1> USE DEF AccountInv
  <1>1. /\ limit' = limit
        /\ \A c \in Charges : budget'[c] <= budget[c]
    BY BudgetStep
  <1>2. ASSUME NEW c \in Charges
        PROVE  budget[c] \in Nat /\ budget'[c] \in Nat /\ limit[c] \in Nat
    BY DEF Inv, TypeOK
  <1>3. BudgetOK'
    <2>1. ASSUME NEW c \in Charges PROVE budget'[c] <= limit'[c]
      <3>1. budget[c] <= limit[c] /\ budget'[c] <= budget[c] /\ limit'[c] = limit[c]
        BY <1>1 DEF BudgetOK
      <3>. QED BY <1>2, <3>1
    <2>. QED BY <2>1 DEF BudgetOK
  <1>4. ASSUME NEW b \in Backups PROVE SpecOf(b)'
    <2>1. b \in Objects /\ b \in Charges /\ SpecOf(b)
      BY ChargeTypes DEF Objects, SpecsOK
    <2>2. obj \in [Objects -> Copies] /\ cache \in [Objects -> Copies]
      BY DEF Inv, TypeOK
    <2>3. ASSUME obj'[b].exists = obj[b].exists, obj'[b].spec = obj[b].spec,
                 \/ cache'[b] = cache[b]
                 \/ cache'[b].exists = obj'[b].exists /\ cache'[b].spec = obj'[b].spec
          PROVE  SpecOf(b)'
      BY <1>1, <1>2, <2>1, <2>3, SpecKept
    <2>4. ASSUME UNCHANGED <<obj, cache>> PROVE SpecOf(b)'
      BY <2>3, <2>4
    <2>5. CASE PostBackup \/ PostRestore \/ \E k \in Kinds : PostUnanswered(k) \/ Abort(k)
      BY <2>4, <2>5 DEF PostBackup, PostRestore, PostUnanswered, Accept, Abort, apiVars
    <2>6. ASSUME NEW k \in Kinds, reconcileStatus(k) PROVE SpecOf(b)'
      <3>1. CASE ~cur[k].fresh
        BY <2>4, <2>6, <3>1 DEF reconcileStatus, NoConflict, apiVars
      <3>2. CASE cur[k].fresh
        <4> DEFINE o == cur[k].name
        <4>1. o \in Objects
          BY <2>6, ObjectTypes DEF Inv, PassOK, PassOf, reconcileStatus
        <4>2. obj' = [obj EXCEPT ![o] = [obj[o] EXCEPT !.state = cur[k].goal]]
              /\ (cache' = [cache EXCEPT ![o] = obj'[o]] \/ cache' = cache)
          BY <2>6, <3>2 DEF reconcileStatus, NoConflict, Put, Cached, NotCached
        <4>3. obj[o] \in Copies
          BY <2>2, <4>1
        <4>4. obj'[o] = [obj[o] EXCEPT !.state = cur[k].goal]
              /\ (b # o => obj'[b] = obj[b])
          BY <2>1, <2>2, <4>1, <4>2
        <4>5. obj'[b].exists = obj[b].exists /\ obj'[b].spec = obj[b].spec
          BY <4>3, <4>4 DEF Copies
        <4>6. cache'[b] = cache[b] \/ cache'[b] = obj'[b]
          BY <2>1, <2>2, <4>1, <4>2
        <4>. QED BY <2>3, <4>5, <4>6
      <3>. QED BY <3>1, <3>2
    <2>7. CASE (\E o \in Backups : reconcileBackup(o)) \/ (\E o \in Restores : reconcileRestore(o))
      BY <2>4, <2>7 DEF reconcileBackup, reconcileRestore, apiVars
    <2>8. ASSUME NEW o \in Objects, Sync(o) PROVE SpecOf(b)'
      <3>1. obj' = obj /\ cache' = [cache EXCEPT ![o] = obj[o]]
        BY <2>8 DEF Sync
      <3>2. cache'[b] = cache[b] \/ cache'[b] = obj'[b]
        BY <2>1, <2>2, <3>1
      <3>. QED BY <2>3, <3>1, <3>2
    <2>9. ASSUME NEW o \in Objects, NEW new, UserWrites(o, new),
                 new.exists => new.spec \in SpecsOf[o] /\ budget'[o] < limit[o]
          PROVE  SpecOf(b)'
      <3>1. obj' = [obj EXCEPT ![o] = new] /\ cache' = [cache EXCEPT ![o] = obj'[o]]
        BY <2>9 DEF UserWrites, Put, Cached
      <3>2. CASE b # o
        BY <2>1, <2>2, <2>3, <3>1, <3>2
      <3>3. CASE b = o
        <4>1. obj'[b] = new /\ cache'[b] = new
          BY <2>1, <2>2, <3>1, <3>3
        <4>. QED BY <1>1, <2>9, <3>3, <4>1 DEF SpecOf
      <3>. QED BY <3>2, <3>3
    <2>10. ASSUME NEW o \in Objects, Delete(o) PROVE SpecOf(b)'
      <3>1. UserWrites(o, Absent) /\ ~Absent.exists
        BY <2>10 DEF Delete, Absent
      <3>. QED BY <2>9, <3>1
    <2>11. ASSUME NEW o \in Objects, NEW s \in SpecsOf[o], Create(o, s) PROVE SpecOf(b)'
      <3> DEFINE new == [exists |-> TRUE, spec |-> s, state |-> ""]
      <3>1. UserWrites(o, new) /\ new.spec = s /\ Spend(o) /\ o \in Charges
        BY <2>11, ChargeTypes DEF Create
      <3> HIDE DEF new
      <3>2. budget'[o] = budget[o] - 1 /\ budget[o] <= limit[o]
        BY <3>1, SpendFalls DEF BudgetOK
      <3>3. budget'[o] < limit[o]
        BY <1>2, <3>1, <3>2
      <3>. QED BY <2>9, <3>1, <3>3
    <2>12. ASSUME NEW o \in Objects, NEW s \in SpecsOf[o], Edit(o, s) PROVE SpecOf(b)'
      <3> DEFINE new == [obj[o] EXCEPT !.spec = s]
      <3>1. UserWrites(o, new) /\ obj[o].exists /\ Spend("edit")
        BY <2>12 DEF Edit
      <3>2. obj[o] \in Copies /\ o \in Charges
        BY <2>2, ChargeTypes
      <3>3. new.spec = s
        BY <3>2 DEF Copies
      <3> HIDE DEF new
      <3>4. CASE o \in Backups
        <4>1. budget[o] < limit[o] /\ budget'[o] <= budget[o]
          BY <1>1, <3>1, <3>2, <3>4 DEF SpecsOK, SpecOf
        <4>2. budget'[o] < limit[o]
          BY <1>2, <3>2, <4>1
        <4>. QED BY <2>9, <3>1, <3>3, <4>2
      <3>5. CASE o \notin Backups
        BY <2>1, <2>2, <2>3, <3>1, <3>5 DEF UserWrites, Put, Cached
      <3>. QED BY <3>4, <3>5
    <2>13. CASE \/ Environment \/ IcarusRestart \/ UNCHANGED vars
                \/ \E i \in DOMAIN ops, s \in Final : OpEnds(i, s)
      BY <2>4, <2>13 DEF Environment, IcarusRestart, OpEnds, vars, apiVars
    <2>14. CASE BackupStep \/ RestoreStep
      <3>1. "backup" \in Kinds /\ "restore" \in Kinds
        BY DEF Kinds
      <3>. QED BY <2>5, <2>6, <2>14, <3>1
           DEF BackupStep, RestoreStep, BackupStatus, RestoreStatus
    <2>. QED BY <2>5, <2>7, <2>8, <2>10, <2>11, <2>12, <2>13, <2>14 DEF Next
  <1>. QED BY <1>3, <1>4 DEF SpecsOK
\* What is left of a pass of the backup controller after a step.
PassGoesOn ==
    /\ cur'["backup"].name = cur["backup"].name /\ cur'["backup"].copy = cur["backup"].copy
    /\ cur'["backup"].req = cur["backup"].req /\ cur'["backup"].goal = cur["backup"].goal
    /\ pc'["backup"] \in {pc["backup"], "idle"} \/ pc'["backup"] = "status"

\* A write by a user leaves a pass what it is.
LEMMA WriteGoesOn ==
    ASSUME Inv, NEW o \in Objects,
           Delete(o) \/ \E s \in SpecsOf[o] : Create(o, s) \/ Edit(o, s)
    PROVE  /\ pc' = pc
           /\ \A k \in Kinds : /\ cur'[k].name = cur[k].name /\ cur'[k].copy = cur[k].copy
                               /\ cur'[k].goal = cur[k].goal /\ cur'[k].req = cur[k].req
                               /\ cur[k].name # o => cur'[k].fresh = cur[k].fresh
                               /\ cur'[k].fresh => cur[k].fresh
  <1>1. cur' = Outdate(o) /\ pc' = pc
    BY DEF Delete, Create, Edit, UserWrites
  <1>2. ASSUME NEW k \in Kinds
        PROVE  /\ cur'[k].name = cur[k].name /\ cur'[k].copy = cur[k].copy
               /\ cur'[k].goal = cur[k].goal /\ cur'[k].req = cur[k].req
               /\ cur[k].name # o => cur'[k].fresh = cur[k].fresh
               /\ cur'[k].fresh => cur[k].fresh
    <2>1. cur[k] \in Passes
      BY DEF Inv, TypeOK, Passes
    <2>2. cur'[k] = [cur[k] EXCEPT !.fresh = cur[k].fresh /\ cur[k].name # o]
      BY <1>1 DEF Outdate
    <2>. QED BY <2>1, <2>2 DEF Passes
  <1>. QED BY <1>1, <1>2

\* A pass starts with a copy of the cache.
LEMMA GoesFrom ==
    ASSUME Inv, NEW o \in Backups, NEW l, NEW g, NEW r, Go(o, l, g, r)
    PROVE  /\ pc["backup"] = "idle" /\ pc'["backup"] = l
           /\ cur'["backup"].name = o /\ cur'["backup"].copy = cache[o]
           /\ cur'["backup"].fresh = (o \in fresh)
           /\ cur'["backup"].goal = g /\ cur'["backup"].req = r
  <1> DEFINE p == [name |-> o, copy |-> cache[o], fresh |-> o \in fresh, goal |-> g, req |-> r]
  <1>1. KindOf(o) = "backup" /\ "backup" \in Kinds
    BY DEF KindOf, Kinds
  <1>2. /\ pc["backup"] = "idle" /\ pc' = [pc EXCEPT !["backup"] = l]
        /\ cur' = [cur EXCEPT !["backup"] = p]
    BY <1>1 DEF Go
  <1>3. pc \in [Kinds -> {"idle", "post", "status"}] /\ cur \in [Kinds -> Passes]
    BY DEF Inv, TypeOK, Passes
  <1>4. pc'["backup"] = l /\ cur'["backup"] = p
    BY <1>1, <1>2, <1>3
  <1>. QED BY <1>2, <1>4

\* What a pass of a backup decides.
LEMMA Decides ==
    ASSUME NEW o \in Backups, reconcileBackup(o)
    PROVE  /\ cache[o].exists /\ cache[o].state # "COMPLETED"
           /\ \/ /\ NeedsBackup(o, cache[o])
                 /\ Go(o, "post", "PENDING", createBackupRequest(o, cache[o].spec))
              \/ /\ ~NeedsBackup(o, cache[o]) /\ cache[o].state # "FAILED"
                 /\ \E i \in findRelatedBackup(o, cache[o].spec) :
                       /\ ops[i].state # cache[o].state
                       /\ Go(o, "status", ops[i].state, createBackupRequest(o, cache[o].spec))
           /\ ReadCache(o) /\ UNCHANGED <<apiVars, icarusVars, sent, envVars>>
  BY DEF reconcileBackup, MayBackup

\* What the other controller does leaves the backup controller's pass alone.
LEMMA OtherPass ==
    ASSUME Inv, PostRestore \/ RestoreStatus \/ PostUnanswered("restore") \/ Abort("restore")
                  \/ \E o \in Restores : reconcileRestore(o)
    PROVE  pc'["backup"] = pc["backup"] /\ cur'["backup"] = cur["backup"]
  <1>1. pc \in [Kinds -> {"idle", "post", "status"}] /\ cur \in [Kinds -> Passes]
        /\ "backup" \in Kinds
    BY DEF Inv, TypeOK, Passes, Kinds
  <1>2. ASSUME EndPass("restore")
        PROVE  pc'["backup"] = pc["backup"] /\ cur'["backup"] = cur["backup"]
    BY <1>1, <1>2 DEF EndPass
  <1>3. CASE PostRestore
    <2>1. EndPass("restore") \/ (pc' = [pc EXCEPT !["restore"] = "status"] /\ cur' = cur)
      BY <1>3 DEF PostRestore
    <2>. QED BY <1>1, <1>2, <2>1
  <1>4. CASE RestoreStatus \/ PostUnanswered("restore") \/ Abort("restore")
    BY <1>2, <1>4 DEF RestoreStatus, reconcileStatus, PostUnanswered, Abort
  <1>5. ASSUME NEW o \in Restores, reconcileRestore(o)
        PROVE  pc'["backup"] = pc["backup"] /\ cur'["backup"] = cur["backup"]
    <2>1. KindOf(o) = "restore"
      BY BackupsAssumption DEF KindOf
    <2>2. \E l, g, r : Go(o, l, g, r)
      BY <1>5 DEF reconcileRestore
    <2>3. PICK l, g, r : Go(o, l, g, r)
      BY <2>2
    <2>4. /\ pc' = [pc EXCEPT !["restore"] = l]
          /\ cur' = [cur EXCEPT !["restore"] =
                       [name |-> o, copy |-> cache[o], fresh |-> o \in fresh, goal |-> g,
                        req |-> r]]
      BY <2>1, <2>3 DEF Go
    <2>. QED BY <1>1, <2>4
  <1>. QED BY <1>3, <1>4, <1>5

\* A pass is for a backup that exists, or did when it was read.
LEMMA RequestStepOK == ASSUME AccountInv, [Next]_vars, Inv' PROVE RequestOK'
  <1> USE DEF AccountInv
  <1>1. /\ limit' = limit /\ "backup" \in Kinds
        /\ \A c \in Charges : budget'[c] <= budget[c]
    BY BudgetStep DEF Kinds
  <1>2. ASSUME NEW c \in Charges
        PROVE  budget[c] \in Nat /\ budget'[c] \in Nat /\ limit[c] \in Nat
    BY DEF Inv, TypeOK
  <1>3. ASSUME pc'["backup"] = "idle" PROVE RequestOK'
    BY <1>3 DEF RequestOK
  <1>4. ASSUME pc["backup"] # "idle", PassGoesOn PROVE RequestOK'
    <2>1. cur["backup"].name \in Charges
      BY <1>1, <1>4, ObjectTypes, ChargeTypes DEF Inv, PassOK, PassOf
    <2>2. budget'[cur["backup"].name] < limit[cur["backup"].name]
      <3>1. budget[cur["backup"].name] < limit[cur["backup"].name]
            /\ budget'[cur["backup"].name] <= budget[cur["backup"].name]
        BY <1>1, <1>4, <2>1 DEF RequestOK
      <3>. QED BY <1>2, <2>1, <3>1
    <2>. QED BY <1>1, <1>4, <2>2 DEF RequestOK, PassGoesOn
  <1>5. ASSUME pc'["backup"] = pc["backup"], PassGoesOn PROVE RequestOK'
    BY <1>3, <1>4, <1>5
  <1>6. ASSUME pc'["backup"] = pc["backup"], cur'["backup"] = cur["backup"] PROVE RequestOK'
    BY <1>5, <1>6 DEF PassGoesOn
  <1>7. pc \in [Kinds -> {"idle", "post", "status"}]
    BY DEF Inv, TypeOK
  <1>8. CASE PostBackup
    <2>1. pc["backup"] = "post" /\ pc'["backup"] = "status" /\ cur' = cur
      BY <1>1, <1>7, <1>8 DEF PostBackup, Accept
    <2>. QED BY <1>4, <2>1 DEF PassGoesOn
  <1>9. CASE BackupStatus \/ PostUnanswered("backup") \/ Abort("backup")
    <2>1. pc'["backup"] = "idle"
      BY <1>1, <1>7, <1>9 DEF BackupStatus, reconcileStatus, PostUnanswered, Abort, EndPass
    <2>. QED BY <1>3, <2>1
  <1>10. CASE PostRestore \/ RestoreStatus \/ PostUnanswered("restore") \/ Abort("restore")
                \/ \E o \in Restores : reconcileRestore(o)
    BY <1>6, <1>10, OtherPass
  <1>11. ASSUME NEW o \in Backups, reconcileBackup(o) PROVE RequestOK'
    <2>1. PICK l, g : /\ Go(o, l, g, createBackupRequest(o, cache[o].spec))
                      /\ l = "post" => g = "PENDING"
      BY <1>11, Decides
    <2>2. /\ cur'["backup"].name = o /\ cur'["backup"].copy = cache[o]
          /\ cur'["backup"].req = createBackupRequest(o, cache[o].spec)
          /\ pc'["backup"] = "post" => cur'["backup"].goal = "PENDING"
      BY <2>1, GoesFrom
    <2>3. cache[o].spec \in SpecsOf[o] /\ budget[o] < limit[o]
      BY <1>11, Decides DEF SpecsOK, SpecOf
    <2>4. o \in Charges
      BY ChargeTypes DEF Objects
    <2>5. budget'[o] < limit'[o]
      BY <1>1, <1>2, <2>3, <2>4
    <2>. QED BY <2>2, <2>3, <2>5 DEF RequestOK
  <1>12. ASSUME NEW o \in Objects,
                Delete(o) \/ \E s \in SpecsOf[o] : Create(o, s) \/ Edit(o, s)
         PROVE  RequestOK'
    BY <1>1, <1>5, <1>12, WriteGoesOn DEF PassGoesOn
  <1>13. CASE \/ \E o \in Objects : Sync(o)
              \/ \E i \in DOMAIN ops, s \in Final : OpEnds(i, s)
              \/ Environment \/ IcarusRestart \/ UNCHANGED vars
    BY <1>6, <1>13 DEF Sync, OpEnds, Environment, IcarusRestart, vars, passVars
  <1>14. \A k \in Kinds : k = "backup" \/ k = "restore"
    BY DEF Kinds
  <1>. QED BY <1>8, <1>9, <1>10, <1>11, <1>12, <1>13, <1>14
       DEF Next, BackupStep, RestoreStep
\* A pass of the restore controller sends a restore.
LEMMA KindStep == ASSUME AccountInv, [Next]_vars PROVE KindOK'
  <1>1. /\ pc \in [Kinds -> {"idle", "post", "status"}] /\ cur \in [Kinds -> Passes]
        /\ "restore" \in Kinds /\ KindOK /\ Inv
    BY DEF AccountInv, Inv, TypeOK, Passes, Kinds
  <1>2. ASSUME pc["restore"] # "idle", cur'["restore"].req = cur["restore"].req PROVE KindOK'
    BY <1>1, <1>2 DEF KindOK
  <1>3. ASSUME pc'["restore"] = "idle" PROVE KindOK'
    BY <1>3 DEF KindOK
  <1>4. ASSUME pc'["restore"] = pc["restore"], cur'["restore"].req = cur["restore"].req
        PROVE  KindOK'
    BY <1>2, <1>3, <1>4
  <1>5. ASSUME NEW k \in Kinds, EndPass(k) PROVE KindOK'
    <2>1. CASE k = "restore"
      BY <1>1, <1>3, <1>5, <2>1 DEF EndPass
    <2>2. CASE k # "restore"
      BY <1>1, <1>4, <1>5, <2>2 DEF EndPass
    <2>. QED BY <2>1, <2>2
  <1>6. ASSUME NEW k \in Kinds, pc[k] = "post", pc' = [pc EXCEPT ![k] = "status"], cur' = cur
        PROVE  KindOK'
    <2>1. CASE k = "restore"
      BY <1>2, <1>6, <2>1
    <2>2. CASE k # "restore"
      BY <1>1, <1>4, <1>6, <2>2
    <2>. QED BY <2>1, <2>2
  <1>7. ASSUME NEW o \in Restores, reconcileRestore(o) PROVE KindOK'
    <2>1. KindOf(o) = "restore"
      BY BackupsAssumption DEF KindOf
    <2>2. PICK l, g : Go(o, l, g, createRestoreReq(o, cache[o].spec))
      BY <1>7 DEF reconcileRestore
    <2> DEFINE p == [name |-> o, copy |-> cache[o], fresh |-> o \in fresh, goal |-> g,
                     req |-> createRestoreReq(o, cache[o].spec)]
    <2>3. cur'["restore"] = p
      BY <1>1, <2>1, <2>2 DEF Go
    <2>4. cur'["restore"].req = createRestoreReq(o, cache[o].spec)
      BY <2>3
    <2>5. createRestoreReq(o, cache[o].spec).kind = "restore"
      BY DEF createRestoreReq
    <2> HIDE DEF p
    <2>. QED BY <2>4, <2>5 DEF KindOK
  <1>8. ASSUME NEW o \in Backups, reconcileBackup(o) PROVE KindOK'
    <2>1. PICK l, g, r : Go(o, l, g, r)
      BY <1>8, Decides
    <2>2. KindOf(o) = "backup"
      BY DEF KindOf
    <2>3. pc'["restore"] = pc["restore"] /\ cur'["restore"] = cur["restore"]
      BY <1>1, <2>1, <2>2 DEF Go
    <2>. QED BY <1>4, <2>3
  <1>9. ASSUME NEW o \in Objects,
               Delete(o) \/ \E s \in SpecsOf[o] : Create(o, s) \/ Edit(o, s)
        PROVE  KindOK'
    BY <1>1, <1>4, <1>9, WriteGoesOn
  <1>10. CASE \/ \E o \in Objects : Sync(o)
              \/ \E i \in DOMAIN ops, s \in Final : OpEnds(i, s)
              \/ Environment \/ IcarusRestart \/ UNCHANGED vars
    BY <1>4, <1>10 DEF Sync, OpEnds, Environment, IcarusRestart, vars, passVars
  <1>11. CASE BackupStep \/ RestoreStep \/ \E k \in Kinds : PostUnanswered(k) \/ Abort(k)
    <2>1. \E k \in Kinds : \/ EndPass(k)
                           \/ /\ pc[k] = "post" /\ cur' = cur
                              /\ pc' = [pc EXCEPT ![k] = "status"]
      BY <1>11 DEF BackupStep, RestoreStep, PostBackup, PostRestore, PostUnanswered, Accept,
                   Abort, BackupStatus, RestoreStatus, reconcileStatus, Kinds
    <2>. QED BY <1>5, <1>6, <2>1
  <1>. QED BY <1>7, <1>8, <1>9, <1>10, <1>11 DEF Next

-----------------------------------------------------------------------------
(* What is owed and what was charged for.                                  *)

LEMMA OneType == ASSUME NEW b PROVE One(b) \in {0, 1}
  BY DEF One

LEMMA OwedType ==
    ASSUME NEW o
    PROVE  /\ Posting(o) => Owed(o) \in {1, 2}
           /\ ~Posting(o) => Owed(o) \in {0, 1}
           /\ Owed(o) \in Nat
  <1>1. One(DueAgain(o)) \in {0, 1} /\ One(Due(o, Shows(o))) \in {0, 1}
    BY OneType
  <1>. QED BY <1>1 DEF Owed

\* A charge is one creation, edit or fault.
LEMMA ChargedStep ==
    ASSUME AccountInv, [Next]_vars, Inv', NEW o \in Backups
    PROVE  /\ Charged(o) \in Nat /\ Charged(o)' \in Nat /\ Charged(o)' >= Charged(o)
           /\ Spend(o) \/ Spend("edit") \/ Spend("fault") => Charged(o)' = Charged(o) + 1
           /\ budget[o] < limit[o] => Charged(o) >= 1
  <1> USE DEF AccountInv
  <1>1. /\ o \in Charges /\ "edit" \in Charges /\ "fault" \in Charges
        /\ o # "edit" /\ o # "fault"
    BY ChargeTypes, BackupsAssumption DEF Objects
  <1>2. ASSUME NEW c \in Charges
        PROVE  budget[c] \in Nat /\ budget'[c] \in Nat /\ limit[c] \in Nat
               /\ budget'[c] <= budget[c] /\ budget[c] <= limit[c] /\ limit'[c] = limit[c]
    BY BudgetStep DEF Inv, TypeOK, BudgetOK
  <1>3. /\ budget[o] \in Nat /\ budget'[o] \in Nat /\ limit[o] \in Nat
        /\ budget'[o] <= budget[o] /\ budget[o] <= limit[o] /\ limit'[o] = limit[o]
        /\ budget["edit"] \in Nat /\ budget'["edit"] \in Nat /\ limit["edit"] \in Nat
        /\ budget'["edit"] <= budget["edit"] /\ budget["edit"] <= limit["edit"]
        /\ limit'["edit"] = limit["edit"]
        /\ budget["fault"] \in Nat /\ budget'["fault"] \in Nat /\ limit["fault"] \in Nat
        /\ budget'["fault"] <= budget["fault"] /\ budget["fault"] <= limit["fault"]
        /\ limit'["fault"] = limit["fault"]
    BY <1>1, <1>2
  <1>4. Charged(o) \in Nat /\ Charged(o)' \in Nat /\ Charged(o)' >= Charged(o)
        /\ (budget[o] < limit[o] => Charged(o) >= 1)
    BY <1>3 DEF Charged
  <1>5. ASSUME NEW c \in {o, "edit", "fault"}, Spend(c) PROVE Charged(o)' = Charged(o) + 1
    <2>1. c \in Charges
      BY <1>1
    <2>2. budget'[c] = budget[c] - 1 /\ \A d \in Charges \ {c} : budget'[d] = budget[d]
      BY <1>5, <2>1, SpendFalls
    <2>. QED BY <1>1, <1>3, <2>2 DEF Charged
  <1>. QED BY <1>4, <1>5

\* The account is kept by a step that owes no more than it charges.
LEMMA Balance ==
    ASSUME AccountInv, [Next]_vars, Inv', NEW o \in Backups, AccountOf(o),
           NEW d \in Nat, sent'[o] + Owed(o)' <= sent[o] + Owed(o) + d,
           Charged(o)' >= Charged(o) + d
    PROVE  AccountOf(o)'
  <1>1. sent[o] \in Nat /\ sent'[o] \in Nat
    BY DEF AccountInv, Inv, TypeOK, Objects
  <1>2. Owed(o) \in Nat /\ Owed(o)' \in Nat
    <2>1. One(DueAgain(o)') \in {0, 1} /\ One(Due(o, Shows(o))') \in {0, 1}
      BY OneType
    <2>2. Owed(o)' \in Nat
      BY <2>1 DEF Owed, One
    <2>. QED BY <2>2, OwedType
  <1>3. Charged(o) \in Nat /\ Charged(o)' \in Nat
    BY ChargedStep
  <1>. QED BY <1>1, <1>2, <1>3 DEF AccountOf

\* The bounds of what is owed after a step.
LEMMA OwedNext ==
    ASSUME NEW o
    PROVE  /\ Owed(o)' \in Nat /\ Owed(o)' <= 2
           /\ ~Posting(o)' => Owed(o)' <= 1
  <1>1. One(DueAgain(o)') \in {0, 1} /\ One(Due(o, Shows(o))') \in {0, 1}
    BY OneType
  <1>2. Owed(o)' = IF Posting(o)' THEN 1 + One(DueAgain(o)') ELSE One(Due(o, Shows(o))')
    BY DEF Owed, One
  <1>. QED BY <1>1, <1>2

\* Operations of the tag that keep their configuration.
LEMMA SameOps ==
    ASSUME NEW o, obj'[o].spec = obj[o].spec,
           ListBackups(o, obj[o].spec)' = ListBackups(o, obj[o].spec),
           \A i \in ListBackups(o, obj[o].spec) :
               ops'[i].opts = ops[i].opts /\ ops'[i].provider = ops[i].provider
    PROVE  (Same(o)' <=> Same(o)) /\ (Differs(o)' <=> Differs(o))
  <1> DEFINE mine == ListBackups(o, obj[o].spec)
             req == createBackupRequest(o, obj[o].spec)
             last == {i \in mine : \A j \in mine : j <= i}
  <1>1. findRelatedBackup(o, obj[o].spec) = last
    BY DEF findRelatedBackup
  <1>2. findRelatedBackup(o, obj[o].spec)' = last
    BY DEF findRelatedBackup
  <1>3. createBackupRequest(o, obj[o].spec)' = req
    BY DEF createBackupRequest, TagOf
  <1>4. ASSUME NEW i \in last
        PROVE  ops'[i].opts = ops[i].opts /\ ops'[i].provider = ops[i].provider
    OBVIOUS
  <1>5. Same(o) <=> \E i \in last : ~backupConfigChanged(ops[i], req)
    BY <1>1 DEF Same
  <1>6. Same(o)' <=> \E i \in last : ~backupConfigChanged(ops'[i], req)
    BY <1>2, <1>3 DEF Same, backupConfigChanged
  <1>7. Differs(o) <=> \E i \in last : backupConfigChanged(ops[i], req)
    BY <1>1 DEF Differs, reconcileFailedBackup
  <1>8. Differs(o)' <=> \E i \in last : backupConfigChanged(ops'[i], req)
    BY <1>2, <1>3 DEF Differs, reconcileFailedBackup, backupConfigChanged
  <1>9. \A i \in last : backupConfigChanged(ops'[i], req) <=> backupConfigChanged(ops[i], req)
    BY <1>4 DEF backupConfigChanged
  <1> HIDE DEF mine, req, last
  <1>. QED BY <1>5, <1>6, <1>7, <1>8, <1>9

\* With the operations and the resource as they were, and a pass for it too, as much is
\* owed as before.
LEMMA OwedKept ==
    ASSUME NEW o, obj'[o] = obj[o],
           obj[o].exists => (Same(o)' <=> Same(o)) /\ (Differs(o)' <=> Differs(o)),
           Working(o)' <=> Working(o),
           Working(o) => /\ pc'["backup"] = pc["backup"]
                         /\ cur'["backup"].fresh = cur["backup"].fresh
                         /\ cur'["backup"].goal = cur["backup"].goal
                         /\ cur'["backup"].req = cur["backup"].req
    PROVE  Owed(o)' = Owed(o)
  <1>1. Posting(o)' <=> Posting(o)
    BY DEF Posting
  <1>2. Posting(o) => (DueAgain(o)' <=> DueAgain(o))
    BY DEF Posting, DueAgain, createBackupRequest, TagOf
  <1>3. Shows(o)' = Shows(o)
    BY DEF Shows, Current
  <1>4. Due(o, Shows(o))' <=> Due(o, Shows(o))
    BY <1>3 DEF Due
  <1>. QED BY <1>1, <1>2, <1>4 DEF Owed, One
\* One operation of the tag is the last.
LEMMA LastIsOne == ASSUME Inv, NEW o, Differs(o) PROVE ~Same(o)
  <1>1. DOMAIN ops \subseteq Nat
    <2>1. ops \in Seq(Requests)
      BY DEF Inv, TypeOK
    <2>2. DOMAIN ops = 1..Len(ops) /\ Len(ops) \in Nat
      BY <2>1
    <2>. QED BY <2>2
  <1>2. \A i, j \in findRelatedBackup(o, obj[o].spec) : i = j
    BY <1>1 DEF findRelatedBackup, ListBackups
  <1>. QED BY <1>2 DEF Differs, reconcileFailedBackup, Same

\* Operations of other tags, and the ends of operations, make no difference.
LEMMA OpsUnchanged ==
    ASSUME NEW o, obj'[o].spec = obj[o].spec, ops' = ops, alike' = alike
    PROVE  (Same(o)' <=> Same(o)) /\ (Differs(o)' <=> Differs(o))
  <1>1. ListBackups(o, obj[o].spec)' = ListBackups(o, obj[o].spec)
    BY DEF ListBackups, Matches, TagOf
  <1>. QED BY <1>1, SameOps

LEMMA OpsEnd ==
    ASSUME Inv, NEW o, obj' = obj, NEW i \in DOMAIN ops, NEW s \in Final, OpEnds(i, s)
    PROVE  (Same(o)' <=> Same(o)) /\ (Differs(o)' <=> Differs(o))
  <1>1. ops \in Seq(Requests) /\ ops' = [ops EXCEPT ![i].state = s] /\ alike' = alike
    BY DEF Inv, TypeOK, OpEnds
  <1>2. DOMAIN ops' = DOMAIN ops
    BY <1>1
  <1>3. ASSUME NEW j \in DOMAIN ops
        PROVE  /\ ops'[j].opts = ops[j].opts /\ ops'[j].provider = ops[j].provider
               /\ ops'[j].kind = ops[j].kind /\ ops'[j].tag = ops[j].tag
    <2>1. ops[j] \in Requests
      BY <1>1
    <2>2. ops'[j] = ops[j] \/ ops'[j] = [ops[j] EXCEPT !.state = s]
      BY <1>1
    <2>. QED BY <2>1, <2>2 DEF Requests
  <1>4. ListBackups(o, obj[o].spec)' = ListBackups(o, obj[o].spec)
    <2> DEFINE t == TagOf(o, obj[o].spec)
    <2>1. TagOf(o, obj[o].spec)' = t
      BY DEF TagOf
    <2> HIDE DEF t
    <2>2. ListBackups(o, obj[o].spec)'
             = {j \in DOMAIN ops' : ops'[j].kind = "backup"
                                     /\ (t = ops'[j].tag \/ <<t, ops'[j].tag>> \in alike')}
      BY <2>1 DEF ListBackups, Matches
    <2>3. ListBackups(o, obj[o].spec)
             = {j \in DOMAIN ops : ops[j].kind = "backup"
                                    /\ (t = ops[j].tag \/ <<t, ops[j].tag>> \in alike)}
      BY DEF ListBackups, Matches, t
    <2>. QED BY <1>1, <1>2, <1>3, <2>2, <2>3
  <1>5. ListBackups(o, obj[o].spec) \subseteq DOMAIN ops
    BY DEF ListBackups
  <1>. QED BY <1>3, <1>4, <1>5, SameOps

LEMMA OpsOther ==
    ASSUME Inv, NEW o, obj' = obj, NEW r \in Requests, ops' = Append(ops, r), alike' = alike,
           r.kind # "backup" \/ ~Matches("backup", TagOf(o, obj[o].spec), r.tag)
    PROVE  (Same(o)' <=> Same(o)) /\ (Differs(o)' <=> Differs(o))
  <1>1. ops \in Seq(Requests)
    BY DEF Inv, TypeOK
  <1>2. /\ DOMAIN ops' = DOMAIN ops \cup {Len(ops) + 1} /\ Len(ops) + 1 \notin DOMAIN ops
        /\ ops'[Len(ops) + 1] = r /\ \A i \in DOMAIN ops : ops'[i] = ops[i]
    BY <1>1
  <1>3. ListBackups(o, obj[o].spec)' = ListBackups(o, obj[o].spec)
    BY <1>2 DEF ListBackups, Matches, TagOf
  <1>4. ListBackups(o, obj[o].spec) \subseteq DOMAIN ops
    BY DEF ListBackups
  <1>. QED BY <1>2, <1>3, <1>4, SameOps

\* Once the request for its spec is sent, a backup's last operation has its configuration.
LEMMA OpsOwn ==
    ASSUME Inv, NEW o, obj' = obj, NEW r \in Requests, ops' = Append(ops, r), alike' = alike,
           r = createBackupRequest(o, obj[o].spec)
    PROVE  Same(o)' /\ ~Differs(o)'
  <1>1. ops \in Seq(Requests)
    BY DEF Inv, TypeOK
  <1> DEFINE n == Len(ops) + 1
  <1>2. DOMAIN ops' = 1..n /\ n \in Nat /\ ops'[n] = r
    BY <1>1
  <1>3. r.kind = "backup" /\ r.tag = TagOf(o, obj[o].spec)
    BY DEF createBackupRequest
  <1> HIDE DEF n
  <1>4. n \in ListBackups(o, obj[o].spec)' /\ ListBackups(o, obj[o].spec)' \subseteq 1..n
    <2> DEFINE t == TagOf(o, obj[o].spec)
    <2>1. TagOf(o, obj[o].spec)' = t /\ r.tag = t
      BY <1>3 DEF TagOf
    <2> HIDE DEF t
    <2>2. ListBackups(o, obj[o].spec)'
             = {j \in 1..n : ops'[j].kind = "backup"
                              /\ (t = ops'[j].tag \/ <<t, ops'[j].tag>> \in alike')}
      BY <1>2, <2>1 DEF ListBackups, Matches
    <2>. QED BY <1>2, <1>3, <2>1, <2>2
  <1>5. findRelatedBackup(o, obj[o].spec)' = {n}
    <2> DEFINE mine == ListBackups(o, obj[o].spec)'
    <2>1. findRelatedBackup(o, obj[o].spec)' = {i \in mine : \A j \in mine : j <= i}
      BY DEF findRelatedBackup
    <2>2. \A j \in mine : j \in Nat /\ j <= n
      BY <1>2, <1>4
    <2>3. n \in mine
      BY <1>4
    <2> HIDE DEF mine
    <2>4. \A i \in mine : (\A j \in mine : j <= i) <=> i = n
      BY <1>2, <2>2, <2>3
    <2>. QED BY <2>1, <2>3, <2>4
  <1>6. ~backupConfigChanged(ops'[n], createBackupRequest(o, obj[o].spec)')
    BY <1>2 DEF backupConfigChanged, createBackupRequest, TagOf
  <1>. QED BY <1>5, <1>6 DEF Same, Differs, reconcileFailedBackup, backupConfigChanged
-----------------------------------------------------------------------------
(* The account, step by step.                                              *)

\* A step that leaves the backup, its pass and its operations alone.
LEMMA AccountKept ==
    ASSUME AccountInv, [Next]_vars, Inv', NEW o \in Backups, AccountOf(o),
           sent'[o] = sent[o], Owed(o)' = Owed(o)
    PROVE  AccountOf(o)'
  <1>1. sent'[o] + Owed(o)' = sent[o] + Owed(o) /\ sent[o] \in Nat /\ Owed(o) \in Nat
    BY OwedType DEF AccountInv, Inv, TypeOK, Objects
  <1>2. sent'[o] + Owed(o)' <= sent[o] + Owed(o) + 0
    BY <1>1
  <1>3. Charged(o)' >= Charged(o) + 0
    BY ChargedStep
  <1>. QED BY <1>2, <1>3, Balance

\* A charge pays for one request more.
LEMMA AccountCharged ==
    ASSUME AccountInv, [Next]_vars, Inv', NEW o \in Backups, AccountOf(o),
           Spend(o) \/ Spend("edit") \/ Spend("fault"),
           sent'[o] + Owed(o)' <= sent[o] + Owed(o) + 1
    PROVE  AccountOf(o)'
  <1>1. Charged(o)' = Charged(o) + 1 /\ Charged(o) \in Nat
    BY ChargedStep
  <1>2. Charged(o)' >= Charged(o) + 1
    BY <1>1
  <1>. QED BY <1>2, Balance

\* Users' writes: a new backup owes its first request, an edit may lead to another one,
\* and what is deleted owes only what is being sent.
LEMMA AccountWrites ==
    ASSUME AccountInv, [Next]_vars, Inv', NEW o \in Backups, AccountOf(o), NEW q \in Objects,
           Delete(q) \/ \E s \in SpecsOf[q] : Create(q, s) \/ Edit(q, s)
    PROVE  AccountOf(o)'
  <1>1. /\ pc' = pc /\ o \in Objects /\ "backup" \in Kinds /\ ops' = ops /\ alike' = alike
        /\ obj \in [Objects -> Copies] /\ sent \in [Objects -> Nat] /\ Inv
        /\ cur'["backup"].name = cur["backup"].name
        /\ cur'["backup"].goal = cur["backup"].goal /\ cur'["backup"].req = cur["backup"].req
        /\ cur["backup"].name # q => cur'["backup"].fresh = cur["backup"].fresh
        /\ Owed(o) \in Nat
    <2>1. ops' = ops /\ alike' = alike
      BY DEF Delete, Create, Edit, icarusVars
    <2>. QED BY <2>1, WriteGoesOn, OwedType DEF Objects, Kinds, AccountInv, Inv, TypeOK
  <1>2. PICK new : obj' = [obj EXCEPT ![q] = new]
    BY DEF Delete, Create, Edit, UserWrites, Put
  <1>3. Working(o)' <=> Working(o)
    BY <1>1 DEF Working
  <1>4. Posting(o)' <=> Posting(o)
    BY <1>1, <1>3 DEF Posting
  <1>5. CASE q # o
    <2>1. obj'[o] = obj[o]
      BY <1>1, <1>2, <1>5
    <2>2. (Same(o)' <=> Same(o)) /\ (Differs(o)' <=> Differs(o))
      BY <1>1, <2>1, OpsUnchanged
    <2>3. Owed(o)' = Owed(o)
      BY <1>1, <1>3, <1>5, <2>1, <2>2, OwedKept DEF Working
    <2>4. sent'[o] = sent[o]
      BY <1>1, <1>5 DEF Delete, Create, Edit
    <2>. QED BY <2>3, <2>4, AccountKept
  <1>6. ASSUME q = o, NEW s \in SpecsOf[o], Create(o, s) PROVE AccountOf(o)'
    <2>1. sent'[o] = 0 /\ Spend(o)
      BY <1>1, <1>6 DEF Create
    <2>2. Charged(o)' = Charged(o) + 1 /\ Charged(o) \in Nat
          /\ (budget[o] < limit[o] => Charged(o) >= 1)
      BY <2>1, ChargedStep
    <2>3. Owed(o)' \in Nat /\ Owed(o)' <= 2 /\ (~Posting(o)' => Owed(o)' <= 1)
      BY OwedNext
    <2>4. Posting(o) => budget[o] < limit[o]
      BY DEF Posting, Working, AccountInv, RequestOK
    <2>. QED BY <1>4, <2>1, <2>2, <2>3, <2>4 DEF AccountOf
  <1>7. ASSUME q = o, NEW s \in SpecsOf[o], Edit(o, s) PROVE AccountOf(o)'
    <2>1. sent'[o] = sent[o] /\ Spend("edit") /\ sent[o] \in Nat
      BY <1>1, <1>7 DEF Edit
    <2>2. Owed(o)' \in Nat /\ Owed(o)' <= 2 /\ (~Posting(o)' => Owed(o)' <= 1)
      BY OwedNext
    <2>3. Posting(o) => Owed(o) >= 1
      BY OwedType
    <2>4. sent'[o] + Owed(o)' <= sent[o] + Owed(o) + 1
      BY <1>1, <1>4, <2>1, <2>2, <2>3
    <2>. QED BY <2>1, <2>4, AccountCharged
  <1>8. ASSUME q = o, Delete(o) PROVE AccountOf(o)'
    <2>1. sent' = sent /\ sent[o] \in Nat /\ obj'[o] = Absent
      BY <1>1, <1>8 DEF Delete, UserWrites, Put
    <2>2. ~obj'[o].exists
      <3>1. ~Absent.exists
        BY DEF Absent
      <3>. QED BY <2>1, <3>1
    <2>3. ~DueAgain(o)' /\ ~Due(o, Shows(o))'
      BY <2>2 DEF DueAgain, Due
    <2>4. Owed(o)' = IF Posting(o)' THEN 1 ELSE 0
      BY <2>3 DEF Owed, One
    <2>5. Owed(o)' <= Owed(o) /\ Owed(o)' \in Nat
      BY <1>1, <1>4, <2>4, OwedType
    <2>6. sent'[o] + Owed(o)' <= sent[o] + Owed(o) + 0
      BY <1>1, <2>1, <2>5
    <2>7. Charged(o)' >= Charged(o) + 0
      BY ChargedStep
    <2>. QED BY <2>6, <2>7, Balance
  <1>. QED BY <1>5, <1>6, <1>7, <1>8

\* The cache, the environment and Icarus: operations that are forgotten are a charge.
LEMMA AccountExternal ==
    ASSUME AccountInv, [Next]_vars, Inv', NEW o \in Backups, AccountOf(o),
           \/ \E q \in Objects : Sync(q)
           \/ \E i \in DOMAIN ops, s \in Final : OpEnds(i, s)
           \/ Environment \/ IcarusRestart \/ UNCHANGED vars
    PROVE  AccountOf(o)'
  <1>1. UNCHANGED <<obj, pc, cur, sent>> /\ Inv /\ sent[o] \in Nat /\ Owed(o) \in Nat
    <2>1. UNCHANGED <<obj, pc, cur, sent>>
      BY DEF Sync, OpEnds, Environment, IcarusRestart, vars, apiVars, passVars
    <2>. QED BY <2>1, OwedType DEF AccountInv, Inv, TypeOK, Objects
  <1>2. Working(o)' <=> Working(o)
    BY <1>1 DEF Working
  <1>3. ASSUME (Same(o)' <=> Same(o)) /\ (Differs(o)' <=> Differs(o)) PROVE AccountOf(o)'
    <2>1. Owed(o)' = Owed(o)
      BY <1>1, <1>2, <1>3, OwedKept
    <2>. QED BY <1>1, <2>1, AccountKept
  <1>4. CASE (\E q \in Objects : Sync(q)) \/ Environment \/ UNCHANGED vars
    <2>1. ops' = ops /\ alike' = alike
      BY <1>4 DEF Sync, Environment, vars, icarusVars
    <2>. QED BY <1>1, <1>3, <2>1, OpsUnchanged
  <1>5. CASE \E i \in DOMAIN ops, s \in Final : OpEnds(i, s)
    BY <1>1, <1>3, <1>5, OpsEnd
  <1>6. CASE IcarusRestart
    <2>1. Spend("fault")
      BY <1>6 DEF IcarusRestart
    <2>2. Posting(o)' <=> Posting(o)
      BY <1>1, <1>2 DEF Posting
    <2>3. Owed(o)' <= Owed(o) + 1
      BY <1>1, <2>2, OwedNext, OwedType
    <2>4. sent'[o] + Owed(o)' <= sent[o] + Owed(o) + 1
      BY <1>1, <2>3, OwedNext
    <2>. QED BY <2>1, <2>4, AccountCharged
  <1>. QED BY <1>4, <1>5, <1>6
\* The restore controller's steps.
LEMMA AccountRestores ==
    ASSUME AccountInv, [Next]_vars, Inv', NEW o \in Backups, AccountOf(o),
           PostRestore \/ RestoreStatus \/ PostUnanswered("restore") \/ Abort("restore")
             \/ \E q \in Restores : reconcileRestore(q)
    PROVE  AccountOf(o)'
  <1>1. pc'["backup"] = pc["backup"] /\ cur'["backup"] = cur["backup"]
    BY OtherPass DEF AccountInv
  <1>2. Working(o)' <=> Working(o)
    BY <1>1 DEF Working
  <1>3. /\ o \in Objects /\ o \notin Restores /\ obj \in [Objects -> Copies]
        /\ sent \in [Objects -> Nat] /\ Inv /\ "restore" \in Kinds
    BY BackupsAssumption DEF AccountInv, Inv, TypeOK, Objects, Kinds
  <1>4. alike' = alike
    BY <1>3, BudgetStep
  <1>5. ASSUME obj' = obj, ops' = ops, sent' = sent PROVE AccountOf(o)'
    <2>1. (Same(o)' <=> Same(o)) /\ (Differs(o)' <=> Differs(o))
      BY <1>4, <1>5, OpsUnchanged
    <2>2. Owed(o)' = Owed(o)
      BY <1>1, <1>2, <1>5, <2>1, OwedKept
    <2>. QED BY <1>5, <2>2, AccountKept
  <1>6. CASE Abort("restore") \/ \E q \in Restores : reconcileRestore(q)
    BY <1>5, <1>6 DEF Abort, reconcileRestore, apiVars, icarusVars
  <1>7. ASSUME pc["restore"] # "idle" PROVE cur["restore"].name \in Restores
    BY <1>3, <1>7 DEF Inv, PassOK, PassOf, ObjectsOf
  <1>8. CASE RestoreStatus
    <2>1. /\ pc["restore"] = "status" /\ ops' = ops /\ sent' = sent
          /\ \/ obj' = obj
             \/ Put(cur["restore"].name, [obj[cur["restore"].name] EXCEPT
                                             !.state = cur["restore"].goal])
      BY <1>8 DEF RestoreStatus, reconcileStatus, apiVars, icarusVars
    <2>2. cur["restore"].name # o
      BY <1>3, <1>7, <2>1
    <2>3. obj'[o] = obj[o]
      BY <1>3, <2>1, <2>2 DEF Put
    <2>4. (Same(o)' <=> Same(o)) /\ (Differs(o)' <=> Differs(o))
      BY <1>4, <2>1, <2>3, OpsUnchanged
    <2>5. Owed(o)' = Owed(o)
      BY <1>1, <1>2, <2>3, <2>4, OwedKept
    <2>. QED BY <2>1, <2>5, AccountKept
  <1>9. CASE PostRestore \/ PostUnanswered("restore")
    <2>1. Accept("restore")
      BY <1>9 DEF PostRestore, PostUnanswered
    <2>2. /\ pc["restore"] = "post" /\ obj' = obj /\ ops' = Append(ops, cur["restore"].req)
          /\ sent' = [sent EXCEPT ![cur["restore"].name] = @ + 1]
      BY <2>1 DEF Accept, apiVars
    <2>3. cur["restore"].name # o
      BY <1>3, <1>7, <2>2
    <2>4. sent'[o] = sent[o]
      BY <1>3, <2>2, <2>3
    <2>5. cur["restore"].req \in Requests /\ cur["restore"].req.kind # "backup"
      <3>1. cur["restore"] \in Passes
        BY <1>3 DEF Inv, TypeOK, Passes
      <3>2. cur["restore"].req.kind = "restore"
        BY <2>2 DEF AccountInv, KindOK
      <3>. QED BY <3>1, <3>2 DEF Passes
    <2>6. (Same(o)' <=> Same(o)) /\ (Differs(o)' <=> Differs(o))
      BY <1>3, <1>4, <2>2, <2>5, OpsOther
    <2>7. Owed(o)' = Owed(o)
      BY <1>1, <1>2, <2>2, <2>6, OwedKept
    <2>. QED BY <2>4, <2>7, AccountKept
  <1>. QED BY <1>6, <1>8, <1>9
\* A pass starts: it is to send what is due, and one with an outdated copy is a charge.
LEMMA AccountReconcile ==
    ASSUME AccountInv, [Next]_vars, Inv', NEW o \in Backups, AccountOf(o),
           NEW q \in Backups, reconcileBackup(q)
    PROVE  AccountOf(o)'
  <1>1. /\ UNCHANGED <<obj, cache, fresh, ops, alike, sent>> /\ Inv
        /\ sent[o] \in Nat /\ Owed(o) \in Nat /\ o \in Objects
    BY Decides, OwedType DEF AccountInv, Inv, TypeOK, Objects, apiVars, icarusVars
  <1>2. PICK l, g : /\ Go(q, l, g, createBackupRequest(q, cache[q].spec))
                    /\ \/ l = "post" /\ g = "PENDING" /\ NeedsBackup(q, cache[q])
                       \/ /\ l = "status" /\ ~NeedsBackup(q, cache[q])
                          /\ cache[q].state # "FAILED"
                          /\ \E i \in findRelatedBackup(q, cache[q].spec) :
                                ops[i].state # cache[q].state /\ g = ops[i].state
    BY Decides
  <1>3. /\ pc["backup"] = "idle" /\ pc'["backup"] = l
        /\ cur'["backup"].name = q /\ cur'["backup"].copy = cache[q]
        /\ cur'["backup"].fresh = (q \in fresh)
        /\ cur'["backup"].goal = g
        /\ cur'["backup"].req = createBackupRequest(q, cache[q].spec)
    BY <1>1, <1>2, GoesFrom
  <1>4. (Same(o)' <=> Same(o)) /\ (Differs(o)' <=> Differs(o))
    BY <1>1, OpsUnchanged
  <1>5. CASE q # o
    <2>1. ~Working(o) /\ ~Working(o)'
      BY <1>3, <1>5 DEF Working
    <2>2. Owed(o)' = Owed(o)
      BY <1>1, <1>4, <2>1, OwedKept
    <2>. QED BY <1>1, <2>2, AccountKept
  <1>6. CASE q = o
    <2>1. /\ obj[o].exists /\ cache[o].spec = obj[o].spec /\ cache[o].state # "COMPLETED"
          /\ cache[o].state \in States /\ obj[o].state \in States
          /\ o \in fresh => cache[o] = obj[o]
      <3>1. cache[o] \in Copies /\ obj[o] \in Copies
        BY <1>1 DEF Inv, TypeOK
      <3>2. cache[o].exists /\ cache[o].state # "COMPLETED"
        BY <1>6, Decides
      <3>. QED BY <1>1, <3>1, <3>2 DEF Copies, AccountInv, SpecsOK, SpecOf, CopiesOK, Inv
    <2>2. Working(o)' /\ (Current(o)' <=> o \in fresh) /\ ~Posting(o)
      BY <1>2, <1>3, <1>6 DEF Working, Current, Posting
    <2>3. Owed(o) = One(Due(o, obj[o].state))
      <3>1. Shows(o) = obj[o].state
        BY <1>3 DEF Shows, Current, Working
      <3>. QED BY <2>2, <3>1 DEF Owed
    <2>4. cur'["backup"].req = createBackupRequest(o, obj[o].spec)
      BY <1>3, <1>6, <2>1
    <2>5. DueAgain(o)' <=> o \notin fresh /\ obj[o].state = ""
      <3>1. createBackupRequest(o, obj[o].spec)' = createBackupRequest(o, obj[o].spec)
        BY <1>1 DEF createBackupRequest, TagOf
      <3>. QED BY <1>1, <1>3, <1>6, <2>1, <2>4, <3>1 DEF DueAgain
    <2>6. o \notin fresh => Spend("fault")
      BY <1>6, Decides DEF ReadCache
    <2>7. ASSUME l = "post", o \in fresh PROVE AccountOf(o)'
      <3>1. Due(o, obj[o].state)
        <4>1. obj[o].state \in {"", "PENDING", "FAILED"}
          BY <2>1, <2>7 DEF States, Final
        <4>2. NeedsBackup(o, obj[o])
          BY <1>2, <1>6, <2>1, <2>7
        <4>3. CASE obj[o].state = "FAILED"
          BY <2>1, <4>2, <4>3 DEF NeedsBackup, Due, Differs
        <4>4. CASE obj[o].state = "PENDING"
          <5>1. ListBackups(o, obj[o].spec) = {}
            BY <4>2, <4>4 DEF NeedsBackup
          <5>2. ~Same(o)
            BY <5>1 DEF Same, findRelatedBackup
          <5>. QED BY <2>1, <4>4, <5>2 DEF Due
        <4>. QED BY <2>1, <4>1, <4>3, <4>4 DEF Due
      <3>2. Owed(o) = 1
        BY <2>3, <3>1 DEF One
      <3>3. Posting(o)'
        BY <1>3, <2>2, <2>7 DEF Posting
      <3>4. ~DueAgain(o)'
        BY <2>5, <2>7
      <3>5. Owed(o)' = 1
        BY <3>3, <3>4 DEF Owed, One
      <3>. QED BY <1>1, <3>2, <3>5, AccountKept
    <2>8. ASSUME l = "post", o \notin fresh PROVE AccountOf(o)'
      <3>1. Posting(o)'
        BY <1>3, <2>2, <2>8 DEF Posting
      <3>2. Owed(o)' = 1 + One(DueAgain(o)')
        BY <3>1 DEF Owed, One
      <3>3. DueAgain(o)' => Owed(o) = 1
        BY <2>1, <2>3, <2>5 DEF Due, One
      <3>4. Owed(o)' \in Nat /\ Owed(o)' <= Owed(o) + 1
        BY <1>1, <3>2, <3>3 DEF One
      <3>5. sent'[o] + Owed(o)' <= sent[o] + Owed(o) + 1
        BY <1>1, <3>4
      <3>. QED BY <2>6, <2>8, <3>5, AccountCharged
    <2>9. ASSUME l = "status" PROVE AccountOf(o)'
      <3>1. ~Posting(o)'
        BY <1>3, <2>9 DEF Posting
      <3>2. Owed(o)' = One(Due(o, Shows(o))')
        BY <3>1 DEF Owed, One
      <3>3. CASE o \notin fresh
        <4>1. Shows(o)' = obj[o].state
          BY <1>1, <2>2, <3>3 DEF Shows
        <4>2. Due(o, Shows(o))' <=> Due(o, obj[o].state)
          BY <1>1, <1>4, <4>1 DEF Due
        <4>3. Owed(o)' = Owed(o)
          BY <2>3, <3>2, <4>2 DEF One
        <4>. QED BY <1>1, <4>3, AccountKept
      <3>4. CASE o \in fresh
        <4>1. obj[o].state = "PENDING"
          BY <1>2, <1>6, <2>1, <2>9, <3>4 DEF NeedsBackup, States, Final
        <4>2. g \notin {"", "PENDING"}
          <5>1. PICK i \in findRelatedBackup(o, cache[o].spec) :
                   ops[i].state # cache[o].state /\ g = ops[i].state
            BY <1>2, <1>6, <2>9
          <5>2. ops[i] \in Requests
            <6>1. ops \in Seq(Requests)
              BY <1>1 DEF Inv, TypeOK
            <6>2. i \in DOMAIN ops
              BY DEF findRelatedBackup, ListBackups
            <6>. QED BY <6>1, <6>2
          <5>. QED BY <2>1, <3>4, <4>1, <5>1, <5>2 DEF Requests
        <4>3. Shows(o)' = g
          BY <1>3, <2>2, <3>4 DEF Shows
        <4>4. Due(o, Shows(o))' => Due(o, obj[o].state)
          <5>1. Due(o, Shows(o))' => Differs(o)
            BY <1>4, <4>2, <4>3 DEF Due
          <5>2. Differs(o) => ~Same(o)
            BY <1>1, LastIsOne
          <5>. QED BY <2>1, <4>1, <5>1, <5>2 DEF Due
        <4>5. Owed(o)' <= Owed(o) /\ Owed(o)' \in Nat
          BY <2>3, <3>2, <4>4 DEF One
        <4>6. sent'[o] + Owed(o)' <= sent[o] + Owed(o) + 0
          BY <1>1, <4>5
        <4>7. Charged(o)' >= Charged(o) + 0
          BY ChargedStep
        <4>. QED BY <4>6, <4>7, Balance
      <3>. QED BY <3>3, <3>4
    <2>. QED BY <1>2, <2>7, <2>8, <2>9
  <1>. QED BY <1>5, <1>6
\* A request is sent: one for another backup is none of this one's, and its own is no
\* longer owed.
LEMMA AccountPost ==
    ASSUME AccountInv, [Next]_vars, Inv', NEW o \in Backups, Unshared(o), AccountOf(o),
           PostBackup \/ PostUnanswered("backup")
    PROVE  AccountOf(o)'
  <1> DEFINE c == cur["backup"]
  <1>1. /\ pc["backup"] = "post" /\ obj' = obj /\ alike' = alike
        /\ ops' = Append(ops, c.req) /\ sent' = [sent EXCEPT ![c.name] = @ + 1]
    BY DEF PostBackup, PostUnanswered, Accept, apiVars
  <1>2. /\ Inv /\ "backup" \in Kinds /\ o \in Objects /\ c \in Passes
        /\ sent \in [Objects -> Nat] /\ sent[o] \in Nat /\ Owed(o) \in Nat
        /\ pc \in [Kinds -> {"idle", "post", "status"}] /\ cur \in [Kinds -> Passes]
    BY OwedType DEF AccountInv, Inv, TypeOK, Kinds, Objects, Passes
  <1>3. /\ c.name \in Backups /\ c.copy.spec \in SpecsOf[c.name] /\ c.goal = "PENDING"
        /\ c.req = createBackupRequest(c.name, c.copy.spec) /\ c.req \in Requests
    <2>1. c.name \in Backups
      BY <1>1, <1>2 DEF Inv, PassOK, PassOf, ObjectsOf
    <2>2. c.req \in Requests
      BY <1>2 DEF Passes
    <2>. QED BY <1>1, <2>1, <2>2 DEF AccountInv, RequestOK
  <1>4. \/ pc'["backup"] = "status" /\ cur' = cur
        \/ pc'["backup"] = "idle" /\ Spend("fault")
    BY <1>2 DEF PostBackup, PostUnanswered, EndPass
  <1>5. ~Posting(o)'
    BY <1>4 DEF Posting
  <1> HIDE DEF c
  <1>6. CASE c.name # o
    <2>1. ~Working(o) /\ ~Working(o)'
      BY <1>4, <1>6 DEF Working, c
    <2>2. sent'[o] = sent[o]
      BY <1>1, <1>2, <1>6
    <2>3. obj[o].exists => (Same(o)' <=> Same(o)) /\ (Differs(o)' <=> Differs(o))
      <3>1. ASSUME obj[o].exists PROVE ~Matches("backup", TagOf(o, obj[o].spec), c.req.tag)
        <4>1. obj[o].spec \in SpecsOf[o]
          BY <3>1 DEF AccountInv, SpecsOK, SpecOf
        <4>2. c.req.tag = TagOf(c.name, c.copy.spec)
          BY <1>3 DEF createBackupRequest
        <4>3. KindOf(o) = "backup" /\ ObjectsOf("backup") = Backups
          BY DEF KindOf, ObjectsOf
        <4>. QED BY <1>3, <1>6, <4>1, <4>2, <4>3 DEF Unshared
      <3>. QED BY <1>1, <1>2, <1>3, <3>1, OpsOther
    <2>4. Owed(o)' = Owed(o)
      BY <1>1, <2>1, <2>3, OwedKept
    <2>. QED BY <2>2, <2>4, AccountKept
  <1>7. CASE c.name = o
    <2>1. Working(o) /\ Posting(o)
      BY <1>1, <1>7 DEF Working, Posting, c
    <2>2. sent'[o] = sent[o] + 1
      BY <1>1, <1>2, <1>7
    <2>3. Owed(o) = 1 + One(DueAgain(o))
      BY <2>1 DEF Owed
    <2>4. Owed(o)' = One(Due(o, Shows(o))')
      BY <1>5 DEF Owed, One
    <2>5. CASE pc'["backup"] = "idle" /\ Spend("fault")
      <3>1. Owed(o)' \in Nat /\ Owed(o)' <= 1 /\ Owed(o) >= 1
        BY <2>3, <2>4 DEF One
      <3>2. sent'[o] + Owed(o)' <= sent[o] + Owed(o) + 1
        BY <1>2, <2>2, <3>1
      <3>. QED BY <2>5, <3>2, AccountCharged
    <2>6. CASE pc'["backup"] = "status" /\ cur' = cur
      <3>1. ASSUME c.req = createBackupRequest(o, obj[o].spec) PROVE Same(o)' /\ ~Differs(o)'
        BY <1>1, <1>2, <1>3, <3>1, OpsOwn
      <3>2. Working(o)' /\ (Current(o)' <=> c.fresh)
        BY <1>7, <2>6 DEF Working, Current, c
      <3>3. Due(o, Shows(o))' => DueAgain(o)
        <4>1. CASE c.fresh
          <5>1. c.copy = obj[o]
            BY <1>2, <1>7, <4>1 DEF Inv, CopiesOK, c
          <5>2. Same(o)'
            BY <1>3, <1>7, <3>1, <5>1
          <5>3. Shows(o)' = "PENDING"
            BY <1>3, <2>6, <3>2, <4>1 DEF Shows, c
          <5>. QED BY <5>2, <5>3 DEF Due
        <4>2. CASE ~c.fresh
          <5>1. Shows(o)' = obj[o].state
            BY <1>1, <3>2, <4>2 DEF Shows
          <5>2. ASSUME Due(o, Shows(o))'
                PROVE  /\ obj[o].exists /\ obj[o].state # "COMPLETED"
                       /\ obj[o].state = "" \/ ~Same(o)' \/ Differs(o)'
            BY <1>1, <5>1, <5>2 DEF Due
          <5>. QED BY <3>1, <4>2, <5>2 DEF DueAgain, c
        <4>. QED BY <4>1, <4>2
      <3>4. Owed(o)' \in Nat /\ Owed(o)' + 1 <= Owed(o)
        BY <2>3, <2>4, <3>3 DEF One
      <3>5. sent'[o] + Owed(o)' <= sent[o] + Owed(o) + 0
        BY <1>2, <2>2, <3>4
      <3>6. Charged(o)' >= Charged(o) + 0
        BY ChargedStep
      <3>. QED BY <3>5, <3>6, Balance
    <2>. QED BY <1>4, <2>5, <2>6
  <1>. QED BY <1>6, <1>7

\* A pass ends: it writes the state it was to write, or none, and one that fails is a
\* charge.
LEMMA AccountEnds ==
    ASSUME AccountInv, [Next]_vars, Inv', NEW o \in Backups, AccountOf(o),
           BackupStatus \/ Abort("backup")
    PROVE  AccountOf(o)'
  <1> DEFINE c == cur["backup"]
  <1>1. EndPass("backup") /\ ops' = ops /\ alike' = alike /\ sent' = sent
    BY DEF BackupStatus, reconcileStatus, Abort, icarusVars
  <1>2. /\ Inv /\ "backup" \in Kinds /\ o \in Objects /\ c \in Passes
        /\ sent[o] \in Nat /\ Owed(o) \in Nat /\ obj \in [Objects -> Copies]
        /\ pc \in [Kinds -> {"idle", "post", "status"}]
    BY OwedType DEF AccountInv, Inv, TypeOK, Kinds, Objects, Passes
  <1>3. pc'["backup"] = "idle"
    BY <1>1, <1>2 DEF EndPass
  <1>4. ~Working(o)' /\ ~Posting(o)' /\ ~Current(o)'
    BY <1>3 DEF Working, Posting, Current
  <1>5. Owed(o)' = One(Due(o, obj[o].state)')
    <2>1. Shows(o)' = obj'[o].state
      BY <1>4 DEF Shows
    <2>2. Due(o, Shows(o))' <=> Due(o, obj[o].state)'
      BY <2>1 DEF Due
    <2>. QED BY <1>4, <2>2 DEF Owed, One
  <1>6. CASE Abort("backup")
    <2>1. Owed(o)' \in Nat /\ Owed(o)' <= 1
      BY <1>5 DEF One
    <2>2. sent'[o] + Owed(o)' <= sent[o] + Owed(o) + 1
      BY <1>1, <1>2, <2>1
    <2>. QED BY <1>6, <2>2, AccountCharged DEF Abort
  <1>7. CASE BackupStatus
    <2>1. /\ pc["backup"] = "status"
          /\ IF c.fresh THEN obj' = [obj EXCEPT ![c.name] = [obj[c.name] EXCEPT !.state = c.goal]]
                        ELSE obj' = obj
      BY <1>7 DEF BackupStatus, reconcileStatus, NoConflict, Put, apiVars
    <2>2. c.name \in Objects /\ ~Posting(o)
      BY <1>2, <2>1, ObjectTypes DEF Inv, PassOK, PassOf, Posting
    <2>3. Owed(o) = One(Due(o, Shows(o)))
      BY <2>2 DEF Owed
    <2> HIDE DEF c
    <2>4. obj'[o].exists = obj[o].exists /\ obj'[o].spec = obj[o].spec
          /\ obj'[o].state = Shows(o)
      <3>1. CASE c.fresh /\ c.name = o
        <4>1. Shows(o) = c.goal
          BY <2>1, <3>1 DEF Shows, Current, Working, c
        <4>2. obj'[o] = [obj[o] EXCEPT !.state = c.goal] /\ obj[o] \in Copies
          BY <1>2, <2>1, <3>1
        <4>. QED BY <4>1, <4>2 DEF Copies
      <3>2. CASE ~(c.fresh /\ c.name = o)
        <4>1. Shows(o) = obj[o].state
          BY <3>2 DEF Shows, Current, Working, c
        <4>2. obj'[o] = obj[o]
          BY <1>2, <2>1, <2>2, <3>2
        <4>. QED BY <4>1, <4>2
      <3>. QED BY <3>1, <3>2
    <2>5. (Same(o)' <=> Same(o)) /\ (Differs(o)' <=> Differs(o))
      BY <1>1, <2>4, OpsUnchanged
    <2>6. Due(o, obj[o].state)' <=> Due(o, Shows(o))
      BY <2>4, <2>5 DEF Due
    <2>7. Owed(o)' = Owed(o)
      BY <1>5, <2>3, <2>6 DEF One
    <2>. QED BY <1>1, <2>7, AccountKept
  <1>. QED BY <1>6, <1>7

\* Every step keeps the account.
LEMMA AccountStep == AccountInv /\ [Next]_vars => AccountInv'
  <1> SUFFICES ASSUME AccountInv, [Next]_vars PROVE AccountInv'
    OBVIOUS
  <1>1. Inv'
    BY InvStep DEF AccountInv
  <1>2. BudgetOK' /\ SpecsOK' /\ RequestOK' /\ KindOK'
    BY <1>1, SpecsStep, RequestStepOK, KindStep
  <1>3. ASSUME NEW o \in Backups, Unshared(o) PROVE AccountOf(o)'
    <2>1. AccountOf(o)
      BY <1>3 DEF AccountInv, AccountOK
    <2>2. CASE BackupStep \/ PostUnanswered("backup") \/ Abort("backup")
      BY <1>1, <1>3, <2>1, <2>2, AccountPost, AccountEnds DEF BackupStep
    <2>3. CASE RestoreStep \/ PostUnanswered("restore") \/ Abort("restore")
                 \/ \E q \in Restores : reconcileRestore(q)
      BY <1>1, <2>1, <2>3, AccountRestores DEF RestoreStep
    <2>4. CASE \E q \in Backups : reconcileBackup(q)
      BY <1>1, <2>1, <2>4, AccountReconcile
    <2>5. CASE \E q \in Objects : Delete(q) \/ \E s \in SpecsOf[q] : Create(q, s) \/ Edit(q, s)
      BY <1>1, <2>1, <2>5, AccountWrites
    <2>6. CASE \/ \E q \in Objects : Sync(q)
               \/ \E i \in DOMAIN ops, s \in Final : OpEnds(i, s)
               \/ Environment \/ IcarusRestart \/ UNCHANGED vars
      BY <1>1, <2>1, <2>6, AccountExternal
    <2>7. \A k \in Kinds : k = "backup" \/ k = "restore"
      BY DEF Kinds
    <2>. QED BY <2>2, <2>3, <2>4, <2>5, <2>6, <2>7 DEF Next
  <1>4. alike' = alike
    BY BudgetStep DEF AccountInv
  <1>5. AccountOK'
    <2>1. ASSUME NEW o \in Backups, Unshared(o)' PROVE AccountOf(o)'
      <3>1. Unshared(o)
        BY <1>4, <2>1 DEF Unshared, Matches
      <3>. QED BY <1>3, <3>1
    <2>. QED BY <2>1 DEF AccountOK
  <1>. QED BY <1>1, <1>2, <1>5 DEF AccountInv

LEMMA AccountInit == Init => AccountInv
  <1> SUFFICES ASSUME Init PROVE AccountInv
    OBVIOUS
  <1>1. Inv
    BY InvInit
  <1>2. budget = limit /\ budget \in [Charges -> Nat]
    BY <1>1 DEF Init, Inv, TypeOK
  <1>3. pc["backup"] = "idle" /\ pc["restore"] = "idle"
    BY DEF Init, Kinds
  <1>4. ASSUME NEW o \in Backups
        PROVE  ~obj[o].exists /\ cache[o] = obj[o] /\ sent[o] = 0
    <2>1. ~Absent.exists
      BY DEF Absent
    <2>. QED BY <2>1 DEF Init, Objects
  <1>5. BudgetOK
    <2>1. \A c \in Charges : budget[c] \in Nat
      BY <1>2
    <2>. QED BY <1>2, <2>1 DEF BudgetOK
  <1>6. SpecsOK /\ RequestOK /\ KindOK
    BY <1>3, <1>4 DEF SpecsOK, SpecOf, RequestOK, KindOK
  <1>7. ASSUME NEW o \in Backups PROVE AccountOf(o)
    <2>1. Owed(o) = 0
      BY <1>3, <1>4 DEF Owed, Posting, Working, Due, One
    <2>2. Charged(o) = 0
      <3>1. budget[o] \in Nat /\ budget["edit"] \in Nat /\ budget["fault"] \in Nat
        BY <1>2, ChargeTypes DEF Objects
      <3>. QED BY <1>2, <3>1 DEF Charged
    <2>. QED BY <1>4, <2>1, <2>2 DEF AccountOf
  <1>. QED BY <1>1, <1>5, <1>6, <1>7 DEF AccountInv, AccountOK

\* However often calls fail, stay unanswered or meet an outdated copy, and however often
\* Icarus forgets what it runs: a backup with a tag of its own is requested once for
\* its creation and at most once more for each edit and each fault (reconcileBackup,
\* findRelatedBackup, reconcileFailedBackup).
THEOREM RequestsHaveReasons == Spec => []RequestsAccounted
  <1>1. AccountInv => RequestsAccounted
    <2> SUFFICES ASSUME AccountInv, NEW o \in Backups, Unshared(o) PROVE sent[o] <= Charged(o)
      BY DEF RequestsAccounted
    <2>1. AccountOf(o) /\ sent[o] \in Nat /\ Owed(o) \in Nat
      BY OwedType DEF AccountInv, AccountOK, Inv, TypeOK, Objects
    <2>2. Charged(o) \in Int
      <3>1. /\ o \in Charges /\ "edit" \in Charges /\ "fault" \in Charges
        BY ChargeTypes DEF Objects
      <3>2. \A c \in Charges : budget[c] \in Nat /\ limit[c] \in Nat
        BY DEF AccountInv, Inv, TypeOK
      <3>. QED BY <3>1, <3>2 DEF Charged
    <2>. QED BY <2>1, <2>2 DEF AccountOf
  <1>. QED BY <1>1, AccountInit, AccountStep, PTL DEF Spec
=============================================================================

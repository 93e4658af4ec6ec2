--------------------------- MODULE RepairsProofs ---------------------------
(***************************************************************************)
(* Theorems about module Repairs: its type, that a keyspace has at most    *)
(* one repair run that has not ended, that the schedules of other owners   *)
(* are left alone, and the date of a schedule's first run.                 *)
(***************************************************************************)
EXTENDS Repairs, TLAPS

Entries == [ks : Keyspaces, cfg : Nat]
InRun == pc \in {"runs", "create", "start"}
InRemove == pc \in {"pause", "unsched"}

\* What a pass's loops rely on: the kind of what is left to do, also while a repair
\* or the removal of a schedule is under way, and where that returns to.
LoopOK ==
    /\ InRun => ret \in {"reaperks", "initauth", "status", "keyspaces"}
    /\ InRun /\ ret = "keyspaces" => todo \in Seq(Keyspaces)
    /\ InRemove => ret \in {"prune", "schedule"}
    /\ InRemove /\ ret = "schedule" => todo \in Seq(Entries) /\ todo # <<>>
    /\ pc = "schedule" => todo # <<>>

\* Between two requests of RunRepair nobody else creates or starts a run.
RunOK ==
    /\ OneActiveRun
    /\ pc = "create" => runs[ks]["NOT_STARTED"] + runs[ks]["RUNNING"] = 0
    /\ pc = "start" => runs[ks]["NOT_STARTED"] = 1

TypeInv == TypeOK /\ LoopOK

\* The inductive invariant.
Inv == TypeInv /\ RunOK

\* The keyspaces the code names are among those of the model.
LEMMA NamedKeyspaces == Auth \in Keyspaces /\ ReaperKs \in Keyspaces
  BY RepairsAssumption DEF Keyspaces

\* The parts of a sequence that is not empty.
LEMMA HeadTail ==
    ASSUME NEW S, NEW q \in Seq(S), q # <<>>
    PROVE  Head(q) \in S /\ Tail(q) \in Seq(S)
  OBVIOUS

\* What the specs provide has the type the loops need.
LEMMA SpecTypes ==
    ASSUME NEW c \in Specs
    PROVE  /\ c.dcs \in Seq(DCs)
           /\ Wanted(c) \in Seq(Entries)
           /\ BuiltIn \o <<ReaperKs>> \o otherKeyspaces(c) \in Seq(Keyspaces)
  <1>1. c.dcs \in Seq(DCs) /\ c.repairs \in Seq(Entries) /\ otherKeyspaces(c) \in Seq(Extra)
    BY RepairsAssumption DEF Entries
  <1>2. Wanted(c) \in Seq(Entries)
    BY <1>1 DEF Wanted
  <1>3. BuiltIn \in Seq(Keyspaces) /\ <<ReaperKs>> \in Seq(Keyspaces)
    BY RepairsAssumption, NamedKeyspaces
  <1>4. otherKeyspaces(c) \in Seq(Keyspaces)
    BY <1>1 DEF Keyspaces
  <1>. QED BY <1>1, <1>2, <1>3, <1>4

\* Options some spec asks for.
LEMMA OptionTypes ==
    ASSUME NEW c \in Specs, NEW k \in Keyspaces
    PROVE  desiredReplicationOptions(c, k) \in Options
  BY DEF Options

\* A fault or an edit leaves the budget a budget.
LEMMA SpendType ==
    ASSUME NEW b \in FaultKinds, budget \in [FaultKinds -> Nat], Spend(b)
    PROVE  budget' \in [FaultKinds -> Nat]
  <1>1. budget[b] - 1 \in Nat
    BY DEF Spend
  <1>. QED BY <1>1 DEF Spend

\* A run that changes its state, and one that is deleted.
LEMMA MoveType ==
    ASSUME NEW f \in [RunStates -> Nat], NEW a \in RunStates, NEW b \in RunStates,
           a # b, f[a] > 0
    PROVE  [f EXCEPT ![a] = @ - 1, ![b] = @ + 1] \in [RunStates -> Nat]
  <1>1. f[a] - 1 \in Nat /\ f[b] + 1 \in Nat
    OBVIOUS
  <1>. QED BY <1>1

\* Init establishes the type.
LEMMA TypeInit == Init => TypeInv
  <1> SUFFICES ASSUME Init PROVE TypeInv
    OBVIOUS
  <1>1. repl \in [Keyspaces -> Options]
    <2>1. repl = InitRepl
      BY DEF Init
    <2>2. \A k \in Keyspaces : InitRepl[k] \in Options
      BY DEF Options
    <2>3. InitRepl = [k \in Keyspaces |-> InitRepl[k]]
      BY RepairsAssumption
    <2>. QED BY <2>1, <2>2, <2>3
  <1>2. spec \in Specs /\ cc \in Specs
    BY RepairsAssumption DEF Init
  <1>3. runs \in [Keyspaces -> [RunStates -> Nat]]
    BY DEF Init
  <1>4. budget \in [FaultKinds -> Nat]
    BY RepairsAssumption DEF Init
  <1>. QED
    BY <1>1, <1>2, <1>3, <1>4, NamedKeyspaces
    DEF Init, TypeInv, TypeOK, LoopOK, Stops, InRun, InRemove

\* The user's, Reaper's and the kubelet's steps keep the type.
LEMMA TypeEnvironment ==
    ASSUME Inv,
           \/ \E new \in Specs : EditSpec(new)
           \/ \E k \in Extra : AddSchedule(k)
           \/ \E k \in Keyspaces : RunEnds(k)
           \/ \E d \in DCs : ReaperStart(d) \/ ReaperStop(d)
           \/ ReaperStuck
    PROVE  TypeInv'
  <1> USE DEF Inv, TypeInv, TypeOK, LoopOK, InRun, InRemove, passVars
  <1>0. {"edit", "user", "fault", "stuck"} \subseteq FaultKinds
    BY DEF FaultKinds
  <1>1. CASE \E new \in Specs : EditSpec(new)
    BY <1>0, <1>1, SpendType DEF EditSpec, reaperVars
  <1>2. CASE \E k \in Extra : AddSchedule(k)
    <2>1. PICK k \in Extra : AddSchedule(k)
      BY <1>2
    <2>2. k \in Keyspaces
      BY DEF Keyspaces
    <2>3. schedules' \subseteq Schedules
      <3>1. [ks |-> k, cfg |-> 0, owner |-> "user", active |-> TRUE] \in Schedules
        BY <2>2 DEF Schedules
      <3>. QED BY <2>1, <3>1 DEF AddSchedule
    <2>. QED BY <1>0, <2>1, <2>3, SpendType DEF AddSchedule
  <1>3. CASE \E k \in Keyspaces : RunEnds(k)
    <2>1. PICK k \in Keyspaces : RunEnds(k)
      BY <1>3
    <2>2. runs[k] \in [RunStates -> Nat] /\ "RUNNING" \in RunStates
      BY DEF RunStates
    <2>3. runs' \in [Keyspaces -> [RunStates -> Nat]]
      BY <2>1, <2>2 DEF RunEnds
    <2>. QED BY <2>1, <2>3 DEF RunEnds
  <1>4. CASE \E d \in DCs : ReaperStart(d)
    BY <1>4 DEF ReaperStart
  <1>5. CASE \E d \in DCs : ReaperStop(d)
    BY <1>0, <1>5, SpendType DEF ReaperStop
  <1>6. CASE ReaperStuck
    BY <1>0, <1>6, SpendType DEF ReaperStuck
  <1>. QED BY <1>1, <1>2, <1>3, <1>4, <1>5, <1>6

\* The steps of a pass before the schedules, RunRepair left out, keep the type.
LEMMA TypeSetup ==
    ASSUME Inv,
           \/ Begin \/ Abort \/ AlterAuth \/ RepairAuth \/ ReaperKeyspace \/ Deploy \/ Ping
           \/ CheckCluster \/ AddCluster \/ RepairAuthInit \/ DeleteCluster \/ ReAddCluster
           \/ RestartReaper \/ (\E k \in Keyspaces : DeleteRun(k))
           \/ (\E s \in schedules : DeleteAnySchedule(s)) \/ ReportReady \/ ReaperFails
    PROVE  TypeInv'
  <1> USE NamedKeyspaces
      DEF Inv, TypeInv, TypeOK, LoopOK, InRun, InRemove, Stops, Goto, EndPass, Repair, reaperVars
  <1>0. "fault" \in FaultKinds
    BY DEF FaultKinds
  <1>1. CASE Begin
    BY <1>1 DEF Begin
  <1>2. CASE Abort
    BY <1>0, <1>2, SpendType DEF Abort
  <1>3. CASE AlterAuth
    <2>1. desiredReplicationOptions(cc, Auth) \in Options
      BY OptionTypes
    <2>2. repl' \in [Keyspaces -> Options]
      BY <1>3, <2>1 DEF AlterAuth, UpdateRF
    <2>3. stale' \in [Keyspaces -> {"no", "altered", "repairing", "missed"}]
      BY <1>3 DEF AlterAuth, UpdateRF
    <2>. QED BY <1>3, <2>2, <2>3 DEF AlterAuth
  <1>4. CASE RepairAuth
    BY <1>0, <1>4, SpendType DEF RepairAuth
  <1>5. CASE ReaperKeyspace
    <2>1. desiredReplicationOptions(cc, ReaperKs) \in Options
      BY OptionTypes
    <2>2. repl' \in [Keyspaces -> Options]
      BY <1>5, <2>1 DEF ReaperKeyspace, UpdateRF
    <2>3. stale' \in [Keyspaces -> {"no", "altered", "repairing", "missed"}]
      BY <1>5 DEF ReaperKeyspace, UpdateRF
    <2>4. cc.dcs \in Seq(DCs)
      BY SpecTypes
    <2>. QED BY <1>5, <2>2, <2>3, <2>4 DEF ReaperKeyspace
  <1>6. CASE Deploy
    <2>1. Head(todo) \in DCs /\ Tail(todo) \in Seq(DCs)
      BY <1>6 DEF Deploy
    <2>. QED BY <1>6, <2>1 DEF Deploy
  <1>7. CASE Ping
    BY <1>7 DEF Ping
  <1>8. CASE CheckCluster
    BY <1>8 DEF CheckCluster
  <1>9. CASE AddCluster
    BY <1>9 DEF AddCluster
  <1>10. CASE RepairAuthInit
    BY <1>10 DEF RepairAuthInit
  <1>11. CASE DeleteCluster
    BY <1>11 DEF DeleteCluster
  <1>12. CASE ReAddCluster
    BY <1>12 DEF ReAddCluster
  <1>13. CASE RestartReaper
    BY <1>13 DEF RestartReaper
  <1>14. CASE \E k \in Keyspaces : DeleteRun(k)
    <2>1. PICK k \in Keyspaces : DeleteRun(k)
      BY <1>14
    <2>2. runs[k] \in [RunStates -> Nat] /\ {"RUNNING", "PAUSED"} \subseteq RunStates
      BY DEF RunStates
    <2>3. runs' \in [Keyspaces -> [RunStates -> Nat]]
      BY <2>1, <2>2 DEF DeleteRun
    <2>. QED BY <2>1, <2>3 DEF DeleteRun
  <1>15. CASE \E s \in schedules : DeleteAnySchedule(s)
    BY <1>15 DEF DeleteAnySchedule
  <1>16. CASE ReportReady
    BY <1>16 DEF ReportReady
  <1>17. CASE ReaperFails
    BY <1>17 DEF ReaperFails
  <1>. QED
    BY <1>1, <1>2, <1>3, <1>4, <1>5, <1>6, <1>7, <1>8, <1>9, <1>10, <1>11, <1>12, <1>13,
       <1>14, <1>15, <1>16, <1>17

\* RunRepair, the schedules and the keyspaces keep the type.
LEMMA TypeLoops ==
    ASSUME Inv,
           \/ ListRuns \/ CreateRun \/ StartRun \/ ListSchedules \/ PruneSchedule \/ PlanSchedule
           \/ PauseSchedule \/ DeleteSchedule \/ CreateSchedule \/ SchedulesDone
           \/ AlterKeyspace \/ SkipKeyspace \/ PassDone
    PROVE  TypeInv'
  <1> USE NamedKeyspaces
      DEF Inv, TypeInv, TypeOK, LoopOK, InRun, InRemove, Stops, Goto, EndPass, Entries
  <1>1. CASE ListRuns
    BY <1>1 DEF ListRuns, reaperVars
  <1>2. CASE CreateRun
    <2>1. runs[ks] \in [RunStates -> Nat] /\ "NOT_STARTED" \in RunStates
      BY DEF RunStates
    <2>2. runs' \in [Keyspaces -> [RunStates -> Nat]]
      BY <1>2, <2>1 DEF CreateRun
    <2>. QED BY <1>2, <2>2 DEF CreateRun
  <1>3. CASE StartRun
    <2>1. runs[ks] \in [RunStates -> Nat] /\ {"NOT_STARTED", "RUNNING"} \subseteq RunStates
      BY DEF RunStates
    <2>2. runs[ks]["NOT_STARTED"] > 0
      BY <1>3 DEF RunOK, StartRun
    <2>3. [runs[ks] EXCEPT !["NOT_STARTED"] = @ - 1, !["RUNNING"] = @ + 1]
             \in [RunStates -> Nat]
      BY <2>1, <2>2, MoveType
    <2>4. runs' = [runs EXCEPT ![ks] =
                     [runs[ks] EXCEPT !["NOT_STARTED"] = @ - 1, !["RUNNING"] = @ + 1]]
      BY <1>3 DEF StartRun
    <2>5. runs' \in [Keyspaces -> [RunStates -> Nat]]
      BY <2>3, <2>4
    <2>. QED BY <1>3, <2>5 DEF StartRun
  <1>4. CASE ListSchedules
    BY <1>4 DEF ListSchedules, filterOperatorRepairSchedules, reaperVars
  <1>5. CASE PruneSchedule
    <2>1. CASE \E s \in repairsToDelete : Remove(s, "prune")
      <3>1. PICK s \in listed : Remove(s, "prune")
        BY <2>1 DEF repairsToDelete
      <3>2. s.ks \in Keyspaces
        BY DEF Schedules
      <3>. QED BY <1>5, <3>1, <3>2 DEF PruneSchedule, Remove, reaperVars
    <2>2. CASE pc' = "plan" /\ todo' = Wanted(cc) /\ UNCHANGED <<cc, listed, ks, ret>>
      <3>1. Wanted(cc) \in Seq(Entries)
        BY SpecTypes
      <3>. QED BY <1>5, <2>2, <3>1 DEF PruneSchedule, reaperVars
    <2>. QED BY <1>5, <2>1, <2>2 DEF PruneSchedule
  <1>6. CASE PlanSchedule
    <2>1. Tail(todo) \in Seq(Entries)
      BY <1>6 DEF PlanSchedule
    <2>2. CASE \E s \in listed : Remove(s, "schedule")
      <3>1. PICK s \in listed : Remove(s, "schedule")
        BY <2>2
      <3>2. s.ks \in Keyspaces
        BY DEF Schedules
      <3>. QED BY <1>6, <3>1, <3>2 DEF PlanSchedule, Remove, reaperVars
    <2>3. CASE todo' = Tail(todo) /\ UNCHANGED <<pc, cc, listed, ks, ret>>
      BY <1>6, <2>1, <2>3 DEF PlanSchedule, reaperVars
    <2>4. CASE Goto("schedule")
      BY <1>6, <2>4 DEF PlanSchedule, reaperVars
    <2>. QED BY <1>6, <2>2, <2>3, <2>4 DEF PlanSchedule
  <1>7. CASE PauseSchedule
    <2>1. OwnOf(ks) \subseteq Schedules
      BY DEF OwnOf
    <2>2. \A s \in Schedules : [s EXCEPT !.active = FALSE] \in Schedules
      BY DEF Schedules
    <2>3. schedules' \subseteq Schedules
      BY <1>7, <2>1, <2>2 DEF PauseSchedule
    <2>. QED BY <1>7, <2>3 DEF PauseSchedule
  <1>8. CASE DeleteSchedule
    BY <1>8 DEF DeleteSchedule
  <1>9. CASE CreateSchedule
    <2>0. todo # <<>> /\ todo \in Seq(Entries)
      BY <1>9 DEF CreateSchedule, Entries
    <2>1. Head(todo) \in Entries /\ Tail(todo) \in Seq(Entries)
      BY <2>0, HeadTail
    <2>2. [ks |-> Head(todo).ks, cfg |-> Head(todo).cfg, owner |-> "operator", active |-> TRUE]
             \in Schedules
      BY <2>1 DEF Schedules, Entries
    <2>3. schedules' \subseteq Schedules
      BY <1>9, <2>2 DEF CreateSchedule
    <2>. QED BY <1>9, <2>1, <2>3 DEF CreateSchedule
  <1>10. CASE SchedulesDone
    <2>1. desiredKeyspaces \in Seq(Keyspaces)
      BY SpecTypes DEF desiredKeyspaces
    <2>. QED BY <1>10, <2>1 DEF SchedulesDone, reaperVars
  <1>11. CASE AlterKeyspace
    <2>1. Head(todo) \in Keyspaces /\ Tail(todo) \in Seq(Keyspaces)
      BY <1>11 DEF AlterKeyspace
    <2>2. desiredReplicationOptions(cc, Head(todo)) \in Options
      BY <2>1, OptionTypes
    <2>3. repl' \in [Keyspaces -> Options]
      BY <1>11, <2>2 DEF AlterKeyspace, UpdateRF
    <2>4. stale' \in [Keyspaces -> {"no", "altered", "repairing", "missed"}]
      BY <1>11 DEF AlterKeyspace, UpdateRF
    <2>. QED BY <1>11, <2>1, <2>3, <2>4 DEF AlterKeyspace, reaperVars
  <1>12. CASE SkipKeyspace
    <2>1. Tail(todo) \in Seq(Keyspaces)
      BY <1>12 DEF SkipKeyspace
    <2>. QED BY <1>12, <2>1 DEF SkipKeyspace, reaperVars
  <1>13. CASE PassDone
    BY <1>13 DEF PassDone, reaperVars
  <1>. QED
    BY <1>1, <1>2, <1>3, <1>4, <1>5, <1>6, <1>7, <1>8, <1>9, <1>10, <1>11, <1>12, <1>13

\* Each step keeps what is known of the runs: only CreateRun adds one, to a keyspace
\* without one, and only StartRun changes its state.
LEMMA RunStep == ASSUME Inv, [Next]_vars PROVE RunOK'
  <1> USE DEF Inv, TypeInv, TypeOK, RunOK, OneActiveRun, Goto, EndPass, Repair
  <1>0. {"NOT_STARTED", "RUNNING", "PAUSED"} \subseteq RunStates
    BY DEF RunStates
  <1>1. CASE UNCHANGED <<runs, pc, ks>>
    BY <1>1
  <1>2. CASE UNCHANGED runs /\ pc' \notin {"create", "start"}
    BY <1>2
  <1>3. CASE \E k \in Keyspaces : RunEnds(k)
    <2>1. PICK k \in Keyspaces : RunEnds(k)
      BY <1>3
    <2>2. /\ runs' = [runs EXCEPT ![k] = [runs[k] EXCEPT !["RUNNING"] = @ - 1]]
          /\ runs[k] \in [RunStates -> Nat] /\ runs[k]["RUNNING"] > 0
          /\ UNCHANGED <<pc, ks>>
      BY <2>1 DEF RunEnds, passVars
    <2>3. /\ \A j \in Keyspaces : runs'[j]["NOT_STARTED"] = runs[j]["NOT_STARTED"]
          /\ \A j \in Keyspaces : runs'[j]["RUNNING"] <= runs[j]["RUNNING"]
          /\ \A j \in Keyspaces : runs'[j]["RUNNING"] \in Nat
      BY <1>0, <2>2
    <2>4. \A j \in Keyspaces : runs[j]["NOT_STARTED"] \in Nat /\ runs[j]["RUNNING"] \in Nat
      BY <1>0
    <2>. QED BY <2>2, <2>3, <2>4
  <1>4. CASE \E k \in Keyspaces : DeleteRun(k)
    <2>1. PICK k \in Keyspaces : DeleteRun(k)
      BY <1>4
    <2>2. pc' = "delete"
      BY <2>1 DEF DeleteRun
    <2>3. \A j \in Keyspaces : runs[j]["NOT_STARTED"] \in Nat /\ runs[j]["RUNNING"] \in Nat
      BY <1>0
    <2>4. CASE runs[k]["RUNNING"] > 0 /\
               runs' = [runs EXCEPT ![k]["RUNNING"] = @ - 1, ![k]["PAUSED"] = @ + 1]
      <3>1. runs' = [runs EXCEPT ![k] =
                       [runs[k] EXCEPT !["RUNNING"] = @ - 1, !["PAUSED"] = @ + 1]]
        BY <2>4
      <3>2. runs'[k]["NOT_STARTED"] = runs[k]["NOT_STARTED"]
            /\ runs'[k]["RUNNING"] = runs[k]["RUNNING"] - 1
        BY <1>0, <3>1
      <3>3. \A j \in Keyspaces \ {k} : runs'[j] = runs[j]
        BY <3>1
      <3>. QED BY <2>2, <2>3, <2>4, <3>2, <3>3
    <2>5. CASE \E s \in RunStates \ {"RUNNING"} :
                  runs[k][s] > 0 /\ runs' = [runs EXCEPT ![k][s] = @ - 1]
      <3>1. PICK s \in RunStates \ {"RUNNING"} :
                    runs[k][s] > 0 /\ runs' = [runs EXCEPT ![k] = [runs[k] EXCEPT ![s] = @ - 1]]
        BY <2>5
      <3>2. runs'[k]["RUNNING"] = runs[k]["RUNNING"]
            /\ runs'[k]["NOT_STARTED"] <= runs[k]["NOT_STARTED"]
            /\ runs'[k]["NOT_STARTED"] \in Nat
        BY <1>0, <2>3, <3>1
      <3>3. \A j \in Keyspaces \ {k} : runs'[j] = runs[j]
        BY <3>1
      <3>4. runs'[k]["NOT_STARTED"] + runs'[k]["RUNNING"] <= 1
        <4>1. runs[k]["NOT_STARTED"] + runs[k]["RUNNING"] <= 1
          BY DEF RunOK, OneActiveRun
        <4>. QED BY <2>3, <3>2, <4>1
      <3>. QED BY <2>2, <3>3, <3>4
    <2>. QED BY <2>1, <2>4, <2>5 DEF DeleteRun
  <1>5. CASE ListRuns
    <2>1. \A j \in Keyspaces : runs[j]["NOT_STARTED"] \in Nat /\ runs[j]["RUNNING"] \in Nat
      BY <1>0
    <2>2. pc' = "create" => ~Active(ks)
      BY <1>5 DEF ListRuns, RunPending, TypeInv, LoopOK, InRun
    <2>3. pc' # "start"
      BY <1>5 DEF ListRuns, LoopOK, InRun
    <2>4. runs' = runs /\ ks' = ks
      BY <1>5 DEF ListRuns, reaperVars
    <2>5. pc' = "create" => runs'[ks']["NOT_STARTED"] + runs'[ks']["RUNNING"] = 0
      <3>1. runs[ks]["NOT_STARTED"] \in Nat /\ runs[ks]["RUNNING"] \in Nat
        BY <2>1
      <3>2. pc' = "create" => ~(runs[ks]["NOT_STARTED"] + runs[ks]["RUNNING"] > 0)
        BY <2>2 DEF Active
      <3>3. runs'[ks'] = runs[ks]
        BY <2>4
      <3>. QED BY <3>1, <3>2, <3>3
    <2>6. OneActiveRun'
      BY <2>4 DEF OneActiveRun
    <2>. QED BY <2>3, <2>5, <2>6
  <1>6. CASE CreateRun
    <2>1. /\ runs' = [runs EXCEPT ![ks] = [runs[ks] EXCEPT !["NOT_STARTED"] = @ + 1]]
          /\ pc = "create" /\ pc' = "start" /\ ks' = ks
      BY <1>6 DEF CreateRun
    <2>2. runs[ks]["NOT_STARTED"] = 0 /\ runs[ks]["RUNNING"] = 0
      BY <1>0, <2>1
    <2>3. runs'[ks]["NOT_STARTED"] = 1 /\ runs'[ks]["RUNNING"] = 0
      BY <1>0, <2>1, <2>2
    <2>4. \A j \in Keyspaces \ {ks} : runs'[j] = runs[j]
      BY <2>1
    <2>. QED BY <2>1, <2>3, <2>4
  <1>7. CASE StartRun
    <2>1. /\ runs' = [runs EXCEPT ![ks] =
                        [runs[ks] EXCEPT !["NOT_STARTED"] = @ - 1, !["RUNNING"] = @ + 1]]
          /\ pc = "start" /\ pc' = ret /\ ks' = ks
      BY <1>7 DEF StartRun
    <2>2. runs[ks]["NOT_STARTED"] = 1 /\ runs[ks]["RUNNING"] = 0
      BY <1>0, <2>1
    <2>3. runs'[ks]["NOT_STARTED"] = 0 /\ runs'[ks]["RUNNING"] = 1
      BY <1>0, <2>1, <2>2
    <2>4. \A j \in Keyspaces \ {ks} : runs'[j] = runs[j]
      BY <2>1
    <2>5. pc' \notin {"create", "start"}
      BY <2>1 DEF LoopOK, InRun
    <2>. QED BY <2>1, <2>3, <2>4, <2>5
  <1>8. CASE DeleteSchedule
    BY <1>2, <1>8 DEF DeleteSchedule, LoopOK, InRemove
  <1>9. ASSUME Next, ~(\E k \in Keyspaces : RunEnds(k) \/ DeleteRun(k)),
               ~ListRuns, ~CreateRun, ~StartRun, ~DeleteSchedule
        PROVE  UNCHANGED <<runs, pc, ks>> \/ (UNCHANGED runs /\ pc' \notin {"create", "start"})
    BY <1>9
    DEF Next, PassStep, Begin, AlterAuth, RepairAuth, ReaperKeyspace, Deploy, Ping, CheckCluster,
        AddCluster, RepairAuthInit, DeleteCluster, ReAddCluster, RestartReaper, DeleteAnySchedule,
        ReportReady, ReaperFails, ListSchedules, PruneSchedule, PlanSchedule, PauseSchedule,
        CreateSchedule, SchedulesDone, AlterKeyspace, SkipKeyspace, PassDone, Abort, ReaperStuck,
        EditSpec, AddSchedule, ReaperStart, ReaperStop, Remove, reaperVars, passVars
  <1>10. CASE UNCHANGED vars
    BY <1>1, <1>10 DEF vars, reaperVars, passVars
  <1>. QED BY <1>1, <1>2, <1>3, <1>4, <1>5, <1>6, <1>7, <1>8, <1>9, <1>10

\* The invariant is inductive.
LEMMA InvStep == ASSUME Inv, [Next]_vars PROVE Inv'
  <1>1. RunOK'
    BY RunStep
  <1>2. TypeInv'
    <2>1. CASE UNCHANGED vars
      BY <2>1 DEF Inv, TypeInv, TypeOK, LoopOK, InRun, InRemove, vars, reaperVars, passVars
    <2>2. CASE Next
      BY <2>2, TypeEnvironment, TypeSetup, TypeLoops DEF Next, PassStep
    <2>. QED BY <2>1, <2>2
  <1>. QED BY <1>1, <1>2 DEF Inv

\* and holds at the start.
LEMMA InvInit == Init => Inv
  <1> SUFFICES ASSUME Init PROVE Inv
    OBVIOUS
  <1>1. \A k \in Keyspaces : runs[k]["NOT_STARTED"] = 0 /\ runs[k]["RUNNING"] = 0
    BY DEF Init, RunStates
  <1>2. RunOK
    BY <1>1 DEF Init, RunOK, OneActiveRun
  <1>. QED BY <1>2, TypeInit DEF Inv

LEMMA InvHolds == Spec => []Inv
  <1>1. Inv /\ [Next]_vars => Inv'
    BY InvStep
  <1>. QED BY <1>1, InvInit, PTL DEF Spec

\* Every variable of the repairs keeps its type, whatever keyspaces there are, whatever
\* specs the user writes and whatever fails.
THEOREM RepairsType == Spec => []TypeOK
  <1>1. Inv => TypeOK
    BY DEF Inv, TypeInv
  <1>. QED BY <1>1, InvHolds, PTL

\* RunRepair: at most one run of a keyspace waits or is under way.
THEOREM RunSafety == Spec => []OneActiveRun
  <1>1. Inv => OneActiveRun
    BY DEF Inv, RunOK
  <1>. QED BY <1>1, InvHolds, PTL

\* rescheduleTimestamp: a trigger time in the past becomes the first moment that is
\* not in the past, on the same weekday and at the same time of day.
THEOREM NextOccurrence ==
    ASSUME NEW now \in [day : Nat, time : Nat], NEW t \in [day : Nat, time : Nat],
           Earlier(t, now)
    PROVE  LET r == rescheduleTimestamp(now, t)
           IN  /\ ~Earlier(r, now) /\ Weekday(r) = Weekday(t) /\ r.time = t.time
               /\ \/ r.day < now.day + 7
                  \/ r.day = now.day + 7 /\ r.time < now.time
  <1> DEFINE n == now.day
             u == t.day
             nd == n % 7
             td == u % 7
             s == dateShift(now, t)
             r == rescheduleTimestamp(now, t)
  <1>1. n \in Nat /\ u \in Nat /\ now.time \in Nat /\ t.time \in Nat
    OBVIOUS
  <1>2. nd \in 0..6 /\ td \in 0..6
    BY <1>1
  <1>3. r = [day |-> n + s, time |-> t.time]
    BY DEF rescheduleTimestamp
  <1>4. s = LET d == checkSunday(nd) - checkSunday(td)
            IN  IF d > 0 THEN 7 - d ELSE IF d < 0 THEN -d
                ELSE IF t.time < now.time THEN 7 ELSE 0
    BY DEF dateShift, Weekday
  <1>5. /\ s \in 0..7
        /\ s = 0 => t.time >= now.time
        /\ s = 7 => t.time < now.time
        /\ nd + s = td \/ nd + s = td + 7 \/ nd + s = td + 14
    <2> HIDE DEF nd, td
    <2>1. checkSunday(nd) \in 1..7 /\ (checkSunday(nd) = nd \/ checkSunday(nd) = nd + 7)
      BY <1>2 DEF checkSunday
    <2>2. checkSunday(td) \in 1..7 /\ (checkSunday(td) = td \/ checkSunday(td) = td + 7)
      BY <1>2 DEF checkSunday
    <2> HIDE DEF s
    <2>3. CASE checkSunday(nd) - checkSunday(td) > 0
      BY <1>1, <1>2, <1>4, <2>1, <2>2, <2>3
    <2>4. CASE checkSunday(nd) - checkSunday(td) < 0
      BY <1>1, <1>2, <1>4, <2>1, <2>2, <2>4
    <2>5. CASE checkSunday(nd) - checkSunday(td) = 0
      BY <1>1, <1>2, <1>4, <2>1, <2>2, <2>5
    <2>. QED BY <2>1, <2>2, <2>3, <2>4, <2>5
  <1>6. (n + s) % 7 = td
    <2>1. (n + s) % 7 = (nd + s) % 7
      <3> HIDE DEF s
      <3>. QED BY <1>1, <1>5
    <2>2. (nd + s) % 7 = td
      <3> HIDE DEF s, nd, td
      <3>. QED BY <1>2, <1>5
    <2>. QED BY <2>1, <2>2
  <1>7. Weekday(r) = Weekday(t)
    <2> HIDE DEF s
    <2>. QED BY <1>3, <1>6 DEF Weekday
  <1>8. ~Earlier(r, now) /\ (r.day < n + 7 \/ (r.day = n + 7 /\ r.time < now.time))
    <2> HIDE DEF s, nd, td
    <2>1. r.day = n + s /\ r.time = t.time
      BY <1>3
    <2>. QED BY <1>1, <1>5, <2>1 DEF Earlier
  <1>. QED BY <1>3, <1>7, <1>8

\* The date of a schedule's first run, for the moments that TLC enumerates.
THEOREM FirstRunDate == Spec => []FirstFutureDate
  <1>1. FirstFutureDate
    <2> SUFFICES ASSUME NEW now \in [day : 7..13, time : Times], NEW t \in Moments, Earlier(t, now)
                 PROVE  LET r == rescheduleTimestamp(now, t)
                        IN  /\ ~Earlier(r, now) /\ Weekday(r) = Weekday(t) /\ r.time = t.time
                            /\ \/ r.day < now.day + 7
                               \/ r.day = now.day + 7 /\ r.time < now.time
      BY DEF FirstFutureDate
    <2>1. now \in [day : Nat, time : Nat] /\ t \in [day : Nat, time : Nat]
      BY DEF Moments, Times
    <2>. QED BY <2>1, NextOccurrence
  <1>. QED BY <1>1, PTL

-----------------------------------------------------------------------------
(* The schedules of other owners.                                          *)

\* What a pass has listed is the operator's.
ListedOwn == \A s \in listed : Own(s)

LEMMA ListedStep == ListedOwn /\ [Next]_vars => ListedOwn'
  <1> SUFFICES ASSUME ListedOwn, [Next]_vars PROVE ListedOwn'
    OBVIOUS
  <1>1. \/ listed' = {} \/ listed' \subseteq listed \/ listed' = filterOperatorRepairSchedules
    <2>1. CASE \/ Begin \/ AlterAuth \/ RepairAuth \/ ReaperKeyspace \/ Deploy \/ Ping \/ CheckCluster
               \/ AddCluster \/ RepairAuthInit \/ DeleteCluster \/ ReAddCluster \/ RestartReaper
               \/ \E k \in Keyspaces : DeleteRun(k)
               \/ \E s \in schedules : DeleteAnySchedule(s)
               \/ ReportReady \/ ReaperFails \/ ListRuns \/ CreateRun \/ StartRun
      BY <2>1 DEF Begin, AlterAuth, RepairAuth, ReaperKeyspace, Deploy, Ping, CheckCluster,
         AddCluster, RepairAuthInit, DeleteCluster, ReAddCluster, RestartReaper, DeleteRun,
         DeleteAnySchedule, ReportReady, ReaperFails, ListRuns, CreateRun, StartRun, Goto,
         EndPass, Repair
    <2>2. CASE \/ ListSchedules \/ PruneSchedule \/ PlanSchedule \/ PauseSchedule
               \/ DeleteSchedule \/ CreateSchedule \/ SchedulesDone \/ AlterKeyspace
               \/ SkipKeyspace \/ PassDone
      BY <2>2 DEF ListSchedules, PruneSchedule, PlanSchedule, PauseSchedule, DeleteSchedule,
         CreateSchedule, SchedulesDone, AlterKeyspace, SkipKeyspace, PassDone, Goto, EndPass, Remove
    <2>3. CASE ~PassStep
      BY <2>3 DEF Next, Abort, ReaperStuck, EditSpec, RunEnds, AddSchedule, ReaperStart,
         ReaperStop, EndPass, passVars, vars
    <2>. QED BY <2>1, <2>2, <2>3 DEF PassStep
  <1>. QED BY <1>1 DEF ListedOwn, filterOperatorRepairSchedules

\* A schedule that is gone was the operator's, or went with the cluster.
LEMMA RemovedOwn ==
  ASSUME Inv, ListedOwn, [Next]_vars, NEW s \in schedules, s \notin schedules', pc # "delete"
  PROVE  Own(s)
  <1>1. ASSUME s \in OwnOf(ks) PROVE Own(s)
    <2>1. PICK t \in listed : s = [t EXCEPT !.active = s.active]
      BY <1>1 DEF OwnOf
    <2>2. t \in Schedules
      BY DEF Inv, TypeInv, TypeOK
    <2>3. s.owner = t.owner
      BY <2>1, <2>2 DEF Schedules
    <2>. QED BY <2>3 DEF ListedOwn, Own
  <1>2. PauseSchedule \/ DeleteSchedule
    <2>1. CASE \/ Begin \/ AlterAuth \/ RepairAuth \/ ReaperKeyspace \/ Deploy \/ Ping \/ CheckCluster
               \/ AddCluster \/ RepairAuthInit \/ DeleteCluster \/ ReAddCluster \/ RestartReaper
               \/ \E k \in Keyspaces : DeleteRun(k)
               \/ \E q \in schedules : DeleteAnySchedule(q)
               \/ ReportReady \/ ReaperFails \/ ListRuns \/ CreateRun \/ StartRun
      BY <2>1 DEF Begin, AlterAuth, RepairAuth, ReaperKeyspace, Deploy, Ping, CheckCluster,
         AddCluster, RepairAuthInit, DeleteCluster, ReAddCluster, RestartReaper, DeleteRun,
         DeleteAnySchedule, ReportReady, ReaperFails, ListRuns, CreateRun, StartRun, reaperVars
    <2>2. CASE \/ ListSchedules \/ PruneSchedule \/ PlanSchedule \/ CreateSchedule
               \/ SchedulesDone \/ AlterKeyspace \/ SkipKeyspace \/ PassDone
      BY <2>2 DEF ListSchedules, PruneSchedule, PlanSchedule, CreateSchedule, SchedulesDone,
         AlterKeyspace, SkipKeyspace, PassDone, reaperVars
    <2>3. CASE ~PassStep
      BY <2>3 DEF Next, Abort, ReaperStuck, EditSpec, RunEnds, AddSchedule, ReaperStart,
         ReaperStop, reaperVars, vars
    <2>. QED BY <2>1, <2>2, <2>3 DEF PassStep
  <1>. QED BY <1>1, <1>2 DEF PauseSchedule, DeleteSchedule

\* reconcileRepairSchedules: whatever the spec asks for and whichever of its requests fail, a
\* schedule of another owner is never paused or removed, except with the whole cluster when
\* Reaper has to be set up anew (DeleteCluster).
THEOREM OthersKept == Spec => OthersSchedulesKept
  <1>1. Init => ListedOwn
    BY DEF Init, ListedOwn
  <1>2. Inv /\ ListedOwn /\ [Next]_vars =>
          [\A s \in schedules : s \in schedules' \/ Own(s) \/ pc = "delete"]_vars
    BY RemovedOwn
  <1>. QED BY <1>1, <1>2, ListedStep, InvHolds, PTL DEF Spec, OthersSchedulesKept
=============================================================================

------------------------------ MODULE PowerProofs ------------------------------
(***************************************************************************)
(* Whatever the number of services, replicas and release pipelines, and    *)
(* whatever fails: the database is stopped over no service that is up, and *)
(* no service is scaled up over a database that is down.  Both rest on     *)
(* KnowledgeHolds: an invocation alone writes desired counts and stops the *)
(* database, so what it read of either stays true while it works.          *)
(***************************************************************************)
EXTENDS PowerController, TLAPS

(* The record of an invocation. *)
LEMMA AsleepType == Asleep \in Invocation
  BY DEF Asleep, Invocation, Status

LEMMA ScaledType ==
  ASSUME NEW c \in Invocation
  PROVE  Scaled(c) \in Invocation
  BY AsleepType DEF Scaled, Invocation

LEMMA ReadType ==
  ASSUME TypeOK, NEW pc \in {"services", "start", "scale", "list", "stop"},
         NEW on \in BOOLEAN, NEW status \in Status
  PROVE  [Asleep EXCEPT !.pc = pc, !.on = on, !.status = status] \in Invocation
  BY AsleepType DEF Invocation

------------------------------------------------------------------------------
LEMMA ControllerType ==
  ASSUME TypeOK, Reconcile \/ InvocationFails
  PROVE  ctl' \in Invocation
<1> USE DEF TypeOK
<1>1. CASE ReadDatabase
  BY <1>1, ReadType DEF ReadDatabase
<1>2. CASE ReadServices
  <2> DEFINE read == [ctl EXCEPT
                        !.pc = "scale",
                        !.drained = \A s \in Services : active[s] = 0 /\ draining[s] = 0,
                        !.todo = {s \in Services : /\ Scalable(ctl.on, ctl.status)
                                                   /\ desired[s] # Wanted(ctl.on)}]
  <2>1. read \in Invocation
    BY DEF Invocation
  <2>2. [read EXCEPT !.pc = "start"] \in Invocation
    BY <2>1 DEF Invocation
  <2>3. ctl' = [read EXCEPT !.pc = "start"] \/ ctl' = Scaled(read)
    BY <1>2 DEF ReadServices
  <2> QED
    BY <2>1, <2>2, <2>3, ScaledType
<1>3. CASE StartDatabase
  <2>1. [ctl EXCEPT !.pc = "scale"] \in Invocation
    BY DEF Invocation
  <2> QED
    BY <1>3, <2>1, ScaledType DEF StartDatabase
<1>4. CASE ScaleService
  <2>1. ASSUME NEW s \in Services
        PROVE  [ctl EXCEPT !.todo = @ \ {s}] \in Invocation
    BY DEF Invocation
  <2>2. PICK s \in ctl.todo : ctl' = Scaled([ctl EXCEPT !.todo = @ \ {s}])
    BY <1>4 DEF ScaleService
  <2>3. s \in Services
    BY <2>2 DEF Invocation
  <2> QED
    BY <2>1, <2>2, <2>3, ScaledType
<1>5. CASE ListTasks
  <2>1. [ctl EXCEPT !.pc = "stop"] \in Invocation
    BY DEF Invocation
  <2> QED
    BY <1>5, <2>1, AsleepType DEF ListTasks
<1>6. CASE StopDatabase \/ InvocationFails
  BY <1>6, AsleepType DEF StopDatabase, InvocationFails
<1> QED
  BY <1>1, <1>2, <1>3, <1>4, <1>5, <1>6 DEF Reconcile

LEMMA FlagAndDatabaseType ==
  ASSUME TypeOK, [Next]_vars
  PROVE  flag' \in BOOLEAN /\ db' \in Status
  BY DEF TypeOK, Next, vars, awsVars, bounds, FlipFlag, Reconcile, ReadDatabase, ReadServices,
     StartDatabase, ScaleService, ListTasks, StopDatabase, InvocationFails, Deploy,
     RequirePower, RunMigration, MigrationStopped, MigrationTimesOut, RecheckPower,
     UpdateService, MigrationExits, DatabaseSettles, DatabaseRestarts, DatabaseMaintenance,
     Cluster, PlaceTask, StopTask, TaskExits, TaskDies, Status

LEMMA BoundsType ==
  ASSUME TypeOK, [Next]_vars
  PROVE  flips' \in 0..MaxFlips /\ mishaps' \in 0..MaxMishaps
<1>1. CASE FlipFlag
  BY <1>1, PowerAssumption DEF TypeOK, FlipFlag
<1>2. CASE InvocationFails \/ DatabaseMaintenance
  BY <1>2, PowerAssumption DEF TypeOK, InvocationFails, DatabaseMaintenance
<1>3. CASE UNCHANGED bounds
  BY <1>3 DEF TypeOK, bounds
<1> QED
  BY <1>1, <1>2, <1>3 DEF Next, vars, bounds, Reconcile, ReadDatabase, ReadServices,
     StartDatabase, ScaleService, ListTasks, StopDatabase, Deploy, RequirePower,
     RunMigration, MigrationStopped, MigrationTimesOut, RecheckPower, UpdateService,
     MigrationExits, DatabaseSettles, DatabaseRestarts, Cluster, PlaceTask, StopTask,
     TaskExits, TaskDies

LEMMA ServicesType ==
  ASSUME TypeOK, [Next]_vars
  PROVE  /\ desired' \in [Services -> {0, Replicas}]
         /\ active' \in [Services -> Nat]
         /\ draining' \in [Services -> Nat]
<1> USE DEF TypeOK
<1>1. CASE ScaleService
  <2>1. PICK s \in ctl.todo : desired' = [desired EXCEPT ![s] = Wanted(ctl.on)]
    BY <1>1 DEF ScaleService
  <2> QED
    BY <1>1, <2>1 DEF ScaleService, Wanted
<1>2. ASSUME NEW s \in Services, Cluster(s) \/ TaskDies(s)
      PROVE  /\ desired' \in [Services -> {0, Replicas}]
             /\ active' \in [Services -> Nat]
             /\ draining' \in [Services -> Nat]
  <2>1. desired[s] \in Nat /\ active[s] \in Nat /\ draining[s] \in Nat
    BY PowerAssumption
  <2>2. active[s] > desired[s] => active[s] > 0
    BY <2>1
  <2>3. /\ active[s] + 1 \in Nat
        /\ active[s] > 0 => active[s] - 1 \in Nat
        /\ draining[s] + 1 \in Nat
        /\ draining[s] > 0 => draining[s] - 1 \in Nat
    BY <2>1
  <2> QED
    BY <1>2, <2>2, <2>3 DEF Cluster, PlaceTask, StopTask, TaskExits, TaskDies
<1>3. CASE UNCHANGED <<desired, active, draining>>
  BY <1>3
<1> QED
  BY <1>1, <1>2, <1>3 DEF Next, vars, awsVars, FlipFlag, Reconcile, ReadDatabase, ReadServices,
     StartDatabase, ListTasks, StopDatabase, InvocationFails, Deploy, RequirePower,
     RunMigration, MigrationStopped, MigrationTimesOut, RecheckPower, UpdateService,
     MigrationExits, DatabaseSettles, DatabaseRestarts, DatabaseMaintenance

LEMMA ReleaseType ==
  ASSUME TypeOK, [Next]_vars
  PROVE  /\ migration' \in [Pipelines -> {"none", "active", "stopping"}]
         /\ rel' \in [Pipelines -> {"idle", "run", "wait", "recheck", "update"}]
<1> USE DEF TypeOK
<1>1. ASSUME NEW p \in Pipelines, Deploy(p) \/ MigrationExits(p)
      PROVE  /\ migration' \in [Pipelines -> {"none", "active", "stopping"}]
             /\ rel' \in [Pipelines -> {"idle", "run", "wait", "recheck", "update"}]
  BY <1>1 DEF Deploy, Move, RequirePower, RunMigration, MigrationStopped, MigrationTimesOut,
     RecheckPower, UpdateService, MigrationExits, awsVars
<1>2. CASE UNCHANGED <<migration, rel>>
  BY <1>2
<1> QED
  BY <1>1, <1>2 DEF Next, vars, awsVars, FlipFlag, Reconcile, ReadDatabase, ReadServices,
     StartDatabase, ScaleService, ListTasks, StopDatabase, InvocationFails, DatabaseSettles,
     DatabaseRestarts, DatabaseMaintenance, Cluster, PlaceTask, StopTask, TaskExits, TaskDies

LEMMA PowerTypeStep ==
  ASSUME TypeOK, [Next]_vars
  PROVE  TypeOK'
<1>1. ctl' \in Invocation
  <2>1. CASE UNCHANGED ctl
    BY <2>1 DEF TypeOK
  <2> QED
    BY <2>1, ControllerType DEF Next, vars, FlipFlag, Deploy, RequirePower, RunMigration,
       MigrationStopped, MigrationTimesOut, RecheckPower, UpdateService, MigrationExits,
       DatabaseSettles, DatabaseRestarts, DatabaseMaintenance, Cluster, PlaceTask, StopTask,
       TaskExits, TaskDies
<1> QED
  BY <1>1, FlagAndDatabaseType, BoundsType, ServicesType, ReleaseType DEF TypeOK

LEMMA PowerTypeInit == Init => TypeOK
<1> SUFFICES ASSUME Init
             PROVE  TypeOK
  OBVIOUS
<1>1. flips \in 0..MaxFlips /\ mishaps \in 0..MaxMishaps
  BY PowerAssumption DEF Init
<1>2. /\ desired \in [Services -> {0, Replicas}]
      /\ active \in [Services -> Nat]
      /\ draining \in [Services -> Nat]
  BY DEF Init
<1> QED
  BY <1>1, <1>2, AsleepType DEF Init, TypeOK, Status

------------------------------------------------------------------------------
(* What is known of an invocation after the loop over the services, or a   *)
(* part of it.                                                             *)
LEMMA ScaledKnows ==
  ASSUME NEW c \in Invocation, c.pc = "scale", Scalable(c.on, c.status),
         NEW counts \in [Services -> {0, Replicas}],
         \A s \in Services \ c.todo : counts[s] = Wanted(c.on)
  PROVE  /\ Scaled(c).pc \in {"scale", "list", "idle"}
         /\ Scaled(c).pc = "scale" => Scaled(c) = c
         /\ Scaled(c).pc = "list" => ~ Scaled(c).on /\ \A s \in Services : counts[s] = 0
<1>1. CASE c.todo # {}
  BY <1>1 DEF Scaled
<1>2. CASE c.todo = {} /\ ToStop(c.on, c.status)
  <2>1. Scaled(c) = [c EXCEPT !.pc = "list"]
    BY <1>2 DEF Scaled
  <2>2. Scaled(c).pc = "list" /\ Scaled(c).on = c.on
    BY <2>1 DEF Invocation
  <2>3. ~ c.on
    BY <1>2 DEF ToStop
  <2> QED
    BY <1>2, <2>2, <2>3 DEF Wanted
<1>3. CASE c.todo = {} /\ ~ ToStop(c.on, c.status)
  BY <1>3 DEF Scaled, Asleep
<1> QED
  BY <1>1, <1>2, <1>3

LEMMA KnowledgeInit == Init => KnowledgeHolds
  BY DEF Init, Asleep, KnowledgeHolds

(* A step that leaves the invocation, the desired counts and the status of *)
(* the database alone, and places no task of a service that wants none.    *)
LEMMA KnowledgeKept ==
  ASSUME KnowledgeHolds, ctl' = ctl, desired' = desired,
         db \in {"available", "maintenance"} => db' \in {"available", "maintenance"},
         \A s \in Services : desired[s] = 0 /\ active[s] = 0 => active'[s] = 0
  PROVE  KnowledgeHolds'
  BY DEF KnowledgeHolds

LEMMA ControllerKnows ==
  ASSUME TypeOK, KnowledgeHolds, Reconcile \/ InvocationFails
  PROVE  KnowledgeHolds'
<1>1. CASE ReadDatabase
  <2>1. ctl'.pc = "services" /\ ctl'.status = db /\ db' = db
    BY <1>1 DEF ReadDatabase, Asleep, awsVars
  <2> QED
    BY <2>1 DEF KnowledgeHolds
<1>2. CASE ReadServices
  <2> DEFINE read == [ctl EXCEPT
                        !.pc = "scale",
                        !.drained = \A s \in Services : active[s] = 0 /\ draining[s] = 0,
                        !.todo = {s \in Services : /\ Scalable(ctl.on, ctl.status)
                                                   /\ desired[s] # Wanted(ctl.on)}]
  <2>1. read \in Invocation
    BY DEF TypeOK, Invocation
  <2>2. /\ read.pc = "scale" /\ read.on = ctl.on /\ read.status = ctl.status
        /\ read.todo = {s \in Services : /\ Scalable(ctl.on, ctl.status)
                                         /\ desired[s] # Wanted(ctl.on)}
    BY DEF TypeOK, Invocation
  <2>3. UNCHANGED <<db, desired, active>>
    BY <1>2 DEF ReadServices, awsVars
  <2>4. ctl.on /\ ctl.status = "available" => db \in {"available", "maintenance"}
    BY <1>2 DEF ReadServices, KnowledgeHolds
  <2>5. CASE ToStart(ctl.on, ctl.status)
    <3>1. ctl' = [read EXCEPT !.pc = "start"]
      BY <1>2, <2>5 DEF ReadServices
    <3>2. ctl'.pc = "start" /\ ctl'.on = ctl.on /\ ctl'.todo = read.todo
      BY <2>1, <2>2, <3>1 DEF Invocation
    <3>3. ctl.on /\ read.todo = {}
      BY <2>2, <2>5 DEF ToStart, Scalable
    <3> QED
      BY <3>2, <3>3 DEF KnowledgeHolds
  <2>6. CASE ~ ToStart(ctl.on, ctl.status) /\ Scalable(ctl.on, ctl.status)
    <3>1. ctl' = Scaled(read)
      BY <1>2, <2>6 DEF ReadServices
    <3>2. \A s \in Services \ read.todo : desired[s] = Wanted(read.on)
      BY <2>2, <2>6
    <3>3. /\ ctl'.pc \in {"scale", "list", "idle"}
          /\ ctl'.pc = "scale" => ctl' = read
          /\ ctl'.pc = "list" => ~ ctl'.on /\ \A s \in Services : desired[s] = 0
      BY <2>1, <2>2, <2>6, <3>1, <3>2, ScaledKnows DEF TypeOK
    <3> QED
      BY <2>2, <2>3, <2>4, <2>6, <3>2, <3>3 DEF KnowledgeHolds
  <2>7. CASE ~ ToStart(ctl.on, ctl.status) /\ ~ Scalable(ctl.on, ctl.status)
    <3>1. ctl' = Scaled(read) /\ read.todo = {}
      BY <1>2, <2>2, <2>7 DEF ReadServices
    <3>2. ~ ToStop(read.on, read.status)
      BY <2>2, <2>7 DEF ToStop, Scalable
    <3>3. ctl' = Asleep
      BY <3>1, <3>2 DEF Scaled
    <3> QED
      BY <3>3 DEF Asleep, KnowledgeHolds
  <2> QED
    BY <2>5, <2>6, <2>7
<1>3. CASE StartDatabase
  <2>1. ctl.on /\ ctl.todo = {}
    BY <1>3 DEF StartDatabase, KnowledgeHolds
  <2>2. ctl' = Asleep
    BY <1>3, <2>1 DEF StartDatabase, Scaled, ToStop, TypeOK, Invocation
  <2> QED
    BY <2>2 DEF Asleep, KnowledgeHolds
<1>4. CASE ScaleService
  <2>1. PICK s \in ctl.todo :
          /\ desired' = [desired EXCEPT ![s] = Wanted(ctl.on)]
          /\ ctl' = Scaled([ctl EXCEPT !.todo = @ \ {s}])
    BY <1>4 DEF ScaleService
  <2> DEFINE rest == [ctl EXCEPT !.todo = @ \ {s}]
  <2>2. /\ rest \in Invocation /\ s \in Services
        /\ rest.pc = "scale" /\ rest.on = ctl.on /\ rest.status = ctl.status
        /\ rest.todo = ctl.todo \ {s}
    BY <1>4, <2>1 DEF ScaleService, TypeOK, Invocation
  <2>3. Scalable(rest.on, rest.status)
    BY <1>4, <2>2 DEF ScaleService, KnowledgeHolds
  <2>4. desired' \in [Services -> {0, Replicas}]
    BY <2>1 DEF TypeOK, Wanted
  <2>5. \A t \in Services \ rest.todo : desired'[t] = Wanted(rest.on)
    BY <1>4, <2>1, <2>2 DEF ScaleService, KnowledgeHolds, TypeOK
  <2>6. /\ ctl'.pc \in {"scale", "list", "idle"}
        /\ ctl'.pc = "scale" => ctl' = rest
        /\ ctl'.pc = "list" => ~ ctl'.on /\ \A t \in Services : desired'[t] = 0
    BY <2>1, <2>2, <2>3, <2>4, <2>5, ScaledKnows
  <2>7. ctl.on /\ ctl.status = "available" => db' \in {"available", "maintenance"}
    BY <1>4 DEF ScaleService, KnowledgeHolds
  <2> QED
    BY <2>2, <2>3, <2>5, <2>6, <2>7 DEF KnowledgeHolds
<1>5. CASE ListTasks
  <2>1. ~ ctl.on /\ UNCHANGED <<desired, active>> /\ \A s \in Services : desired[s] = 0
    BY <1>5 DEF ListTasks, KnowledgeHolds, awsVars
  <2>2. CASE NothingListed /\ ctl.drained
    <3>1. ctl'.pc = "stop" /\ ctl'.on = ctl.on
      BY <1>5, <2>2 DEF ListTasks, TypeOK, Invocation
    <3>2. \A s \in Services : active[s] = 0
      BY <2>2 DEF NothingListed
    <3> QED
      BY <2>1, <3>1, <3>2 DEF KnowledgeHolds
  <2>3. CASE ~ (NothingListed /\ ctl.drained)
    BY <1>5, <2>3 DEF ListTasks, Asleep, KnowledgeHolds
  <2> QED
    BY <2>2, <2>3
<1>6. CASE StopDatabase \/ InvocationFails
  BY <1>6 DEF StopDatabase, InvocationFails, Asleep, KnowledgeHolds
<1> QED
  BY <1>1, <1>2, <1>3, <1>4, <1>5, <1>6 DEF Reconcile

LEMMA KnowledgeStep ==
  ASSUME TypeOK, KnowledgeHolds, [Next]_vars
  PROVE  KnowledgeHolds'
<1>1. CASE Reconcile \/ InvocationFails
  BY <1>1, ControllerKnows
<1>2. ASSUME NEW s \in Services, Cluster(s) \/ TaskDies(s)
      PROVE  KnowledgeHolds'
  <2>1. /\ UNCHANGED <<ctl, desired, db>>
        /\ \A t \in Services \ {s} : active'[t] = active[t]
    BY <1>2 DEF Cluster, PlaceTask, StopTask, TaskExits, TaskDies, TypeOK
  <2>2. desired[s] = 0 /\ active[s] = 0 => active'[s] = 0
    <3>1. active[s] \in Nat
      BY DEF TypeOK
    <3>2. CASE desired[s] = 0 /\ active[s] = 0
      BY <1>2, <3>2 DEF Cluster, PlaceTask, StopTask, TaskExits, TaskDies
    <3> QED
      BY <3>2
  <2> QED
    BY <2>1, <2>2, KnowledgeKept
<1>3. CASE \/ FlipFlag \/ DatabaseSettles \/ DatabaseRestarts \/ DatabaseMaintenance
           \/ UNCHANGED vars
  <2>1. /\ UNCHANGED <<ctl, desired, active>>
        /\ db \in {"available", "maintenance"} => db' \in {"available", "maintenance"}
    BY <1>3 DEF FlipFlag, DatabaseSettles, DatabaseRestarts, DatabaseMaintenance, vars, awsVars
  <2> QED
    BY <2>1, KnowledgeKept
<1>4. ASSUME NEW p \in Pipelines, Deploy(p) \/ MigrationExits(p)
      PROVE  KnowledgeHolds'
  <2>1. UNCHANGED <<ctl, desired, active, db>>
    BY <1>4 DEF Deploy, RequirePower, RunMigration, MigrationStopped, MigrationTimesOut,
       RecheckPower, UpdateService, MigrationExits, awsVars
  <2> QED
    BY <2>1, KnowledgeKept
<1> QED
  BY <1>1, <1>2, <1>3, <1>4 DEF Next

------------------------------------------------------------------------------
(* Every reachable state is well typed, and what an invocation read is     *)
(* still good for what it is about to do.                                  *)
THEOREM PowerInvariance == Spec => [](TypeOK /\ KnowledgeHolds)
<1>1. Init => TypeOK /\ KnowledgeHolds
  BY PowerTypeInit, KnowledgeInit
<1>2. TypeOK /\ KnowledgeHolds /\ [Next]_vars => (TypeOK /\ KnowledgeHolds)'
  BY PowerTypeStep, KnowledgeStep
<1> QED
  BY <1>1, <1>2, PTL DEF Spec

(* Types alone: desired counts stay those the code writes, and an          *)
(* invocation, a release and the pools of tasks keep their places.         *)
THEOREM PowerTypes == Spec => []TypeOK
<1>1. TypeOK /\ KnowledgeHolds => TypeOK
  OBVIOUS
<1> QED
  BY <1>1, PowerInvariance, PTL

(* The knowledge alone, as the run checks it.                              *)
THEOREM KnowledgeAlways == Spec => []KnowledgeHolds
<1>1. TypeOK /\ KnowledgeHolds => KnowledgeHolds
  OBVIOUS
<1> QED
  BY <1>1, PowerInvariance, PTL

(* RDS is stopped over no service that wants a task or has one running.    *)
THEOREM StoppedOverNothing == Spec => StopFindsServicesDown
<1>1. ASSUME TypeOK, KnowledgeHolds, [Next]_vars, db # "stopping", db' = "stopping"
      PROVE  \A s \in Services : desired[s] = 0 /\ active[s] = 0
  <2>1. StopDatabase
    BY <1>1 DEF Next, vars, awsVars, FlipFlag, Reconcile, ReadDatabase, ReadServices,
       StartDatabase, ScaleService, ListTasks, InvocationFails, Deploy, RequirePower,
       RunMigration, MigrationStopped, MigrationTimesOut, RecheckPower, UpdateService,
       MigrationExits, DatabaseSettles, DatabaseRestarts, DatabaseMaintenance, Cluster,
       PlaceTask, StopTask, TaskExits, TaskDies
  <2> QED
    BY <1>1, <2>1 DEF StopDatabase, KnowledgeHolds
<1>2. TypeOK /\ KnowledgeHolds /\ [Next]_vars =>
        [db # "stopping" /\ db' = "stopping" =>
           \A s \in Services : desired[s] = 0 /\ active[s] = 0]_vars
  BY <1>1
<1> QED
  BY <1>2, PowerInvariance, PTL DEF Spec, StopFindsServicesDown

(* No service is scaled up over a database that is not up.                 *)
THEOREM RestoredOverUp == Spec => RestoredOverDatabase
<1>1. ASSUME TypeOK, KnowledgeHolds, [Next]_vars, NEW s \in Services, desired[s] < desired'[s]
      PROVE  db \in {"available", "maintenance"}
  <2>1. desired[s] \in Nat
    BY <1>1, PowerAssumption DEF TypeOK
  <2>2. CASE desired' = desired
    BY <1>1, <2>1, <2>2
  <2>3. CASE ScaleService
    <3>1. PICK t \in ctl.todo : desired' = [desired EXCEPT ![t] = Wanted(ctl.on)]
      BY <2>3 DEF ScaleService
    <3>2. CASE ~ ctl.on
      <4>1. desired'[s] \in {desired[s], 0}
        BY <1>1, <3>1, <3>2 DEF TypeOK, Wanted
      <4> QED
        BY <1>1, <2>1, <4>1
    <3>3. CASE ctl.on
      BY <1>1, <2>3, <3>3 DEF ScaleService, KnowledgeHolds, Scalable
    <3> QED
      BY <3>2, <3>3
  <2> QED
    BY <1>1, <2>2, <2>3 DEF Next, vars, awsVars, FlipFlag, Reconcile, ReadDatabase,
       ReadServices, StartDatabase, StopDatabase, ListTasks, InvocationFails, Deploy,
       RequirePower, RunMigration, MigrationStopped, MigrationTimesOut, RecheckPower,
       UpdateService, MigrationExits, DatabaseSettles, DatabaseRestarts,
       DatabaseMaintenance, Cluster, PlaceTask, StopTask, TaskExits, TaskDies
<1>2. TypeOK /\ KnowledgeHolds /\ [Next]_vars =>
        [\A s \in Services :
           desired[s] < desired'[s] => db \in {"available", "maintenance"}]_vars
  BY <1>1
<1> QED
  BY <1>2, PowerInvariance, PTL DEF Spec, RestoredOverDatabase

==============================================================================

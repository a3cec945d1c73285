---------------------------- MODULE PowerController ----------------------------
(***************************************************************************)
(* The power switch of a deployment: infra/lambda/operations.py, invoked   *)
(* every minute, brings RDS and the ECS services to what the flag          *)
(* APPLICATION_ENABLED asks for; infra/scripts/ecs_release.py runs         *)
(* migrations and rolls images out next to it; operators change the flag.  *)
(* RDS and ECS are external: what they do follows from the calls the two   *)
(* scripts make and the statuses they ask for.                             *)
(***************************************************************************)
EXTENDS Naturals

CONSTANTS
  Services,     \* the ECS services the controller scales
  Replicas,     \* the desired count of a service that is on
  Pipelines,    \* release pipelines that run migrations
  MaxFlips,     \* bound on changes of the flag
  MaxMishaps    \* bound on failed invocations and on RDS maintenance

ASSUME PowerAssumption ==
  /\ Replicas \in Nat \ {0}
  /\ MaxFlips \in Nat
  /\ MaxMishaps \in Nat

VARIABLES
  flag,       \* APPLICATION_ENABLED
  db,         \* DBInstanceStatus
  desired,    \* desiredCount of each service
  active,     \* tasks of each service with desired status RUNNING
  draining,   \* tasks told to stop that have not exited
  migration,  \* the standalone migration task of each pipeline
  ctl,        \* the controller's invocation in progress and what it has read
  rel,        \* where each release is
  flips, mishaps

awsVars == <<db, desired, active, draining, migration>>
bounds == <<flips, mishaps>>
vars == <<flag, awsVars, ctl, rel, bounds>>

Status == {"stopped", "starting", "available", "maintenance", "stopping"}

Invocation ==
  [pc : {"idle", "services", "start", "scale", "list", "stop"},
   on : BOOLEAN,             \* the flag the invocation was configured with
   status : Status,          \* DBInstanceStatus as it was read
   drained : BOOLEAN,        \* no service had a running or pending task
   todo : SUBSET Services]   \* services whose desired count is to change

Asleep ==
  [pc |-> "idle", on |-> FALSE, status |-> "stopped", drained |-> FALSE, todo |-> {}]

TypeOK ==
  /\ flag \in BOOLEAN
  /\ db \in Status
  /\ desired \in [Services -> {0, Replicas}]
  /\ active \in [Services -> Nat]
  /\ draining \in [Services -> Nat]
  /\ migration \in [Pipelines -> {"none", "active", "stopping"}]
  /\ ctl \in Invocation
  /\ rel \in [Pipelines -> {"idle", "run", "wait", "recheck", "update"}]
  /\ flips \in 0..MaxFlips
  /\ mishaps \in 0..MaxMishaps

(* A new installation: the flag is off and nothing runs (SRE.md:17).       *)
Init ==
  /\ flag = FALSE
  /\ db = "available"
  /\ desired = [s \in Services |-> 0]
  /\ active = [s \in Services |-> 0]
  /\ draining = [s \in Services |-> 0]
  /\ migration = [p \in Pipelines |-> "none"]
  /\ ctl = Asleep
  /\ rel = [p \in Pipelines |-> "idle"]
  /\ flips = 0 /\ mishaps = 0

------------------------------------------------------------------------------
(* The Application power workflow.  The revision id makes the change one   *)
(* compare-and-swap; an invocation in progress keeps the flag it had.      *)
FlipFlag ==
  /\ flips < MaxFlips
  /\ flag' = ~ flag
  /\ flips' = flips + 1
  /\ UNCHANGED <<awsVars, ctl, rel, mishaps>>

------------------------------------------------------------------------------
(* reconcile.  An invocation ends before the next one starts (SRE.md:37).  *)

ToStart(on, status) == on /\ status = "stopped"

(* Mutants of Scalable: the status is not asked; the flag has to be on;    *)
(* the services are only ever scaled down.                                 *)
ScalableAnyStatus(on, status) == TRUE
ScalableOnlyOn(on, status) == on /\ status = "available"
ScalableOnlyDown(on, status) == ~ on

(* While the database is starting, services are left alone.                *)
Scalable(on, status) == ~ on \/ status = "available"

ToStop(on, status) == ~ on /\ status = "available"

(* Mutant of Wanted: OFF takes one replica away. *)
WantedOneLess(on) == IF on THEN Replicas ELSE Replicas - 1

Wanted(on) == IF on THEN Replicas ELSE 0

(* After the loop over the services: the tasks are listed or all is done.  *)
Scaled(c) ==
  IF c.todo # {} THEN c
  ELSE IF ToStop(c.on, c.status) THEN [c EXCEPT !.pc = "list"] ELSE Asleep

ReadDatabase ==
  /\ ctl.pc = "idle"
  /\ ctl' = [Asleep EXCEPT !.pc = "services", !.on = flag, !.status = db]
  /\ UNCHANGED <<flag, awsVars, rel, bounds>>

ReadServices ==
  /\ ctl.pc = "services"
  /\ LET read == [ctl EXCEPT
                    !.pc = "scale",
                    !.drained = \A s \in Services : active[s] = 0 /\ draining[s] = 0,
                    !.todo = {s \in Services : /\ Scalable(ctl.on, ctl.status)
                                               /\ desired[s] # Wanted(ctl.on)}]
     IN  ctl' = IF ToStart(ctl.on, ctl.status) THEN [read EXCEPT !.pc = "start"]
                ELSE Scaled(read)
  /\ UNCHANGED <<flag, awsVars, rel, bounds>>

(* RDS refuses the call when it is not stopped any more. *)
StartDatabase ==
  /\ ctl.pc = "start"
  /\ db' = IF db = "stopped" THEN "starting" ELSE db
  /\ ctl' = Scaled([ctl EXCEPT !.pc = "scale"])
  /\ UNCHANGED <<flag, desired, active, draining, migration, rel, bounds>>

ScaleService ==
  /\ ctl.pc = "scale"
  /\ \E s \in ctl.todo :
       /\ desired' = [desired EXCEPT ![s] = Wanted(ctl.on)]
       /\ ctl' = Scaled([ctl EXCEPT !.todo = @ \ {s}])
  /\ UNCHANGED <<flag, db, active, draining, migration, rel, bounds>>

(* list_tasks, desired status RUNNING, over the whole cluster. *)
NothingListed ==
  /\ \A s \in Services : active[s] = 0
  /\ \A p \in Pipelines : migration[p] # "active"

(* Mutant of ListTasks: the counts of describe_services are enough. *)
ListTrustsCounts ==
  /\ ctl.pc = "list"
  /\ ctl' = IF ctl.drained THEN [ctl EXCEPT !.pc = "stop"] ELSE Asleep
  /\ UNCHANGED <<flag, awsVars, rel, bounds>>

ListTasks ==
  /\ ctl.pc = "list"
  /\ ctl' = IF NothingListed /\ ctl.drained THEN [ctl EXCEPT !.pc = "stop"] ELSE Asleep
  /\ UNCHANGED <<flag, awsVars, rel, bounds>>

(* RDS refuses the call when it is not available any more. *)
StopDatabase ==
  /\ ctl.pc = "stop"
  /\ db' = IF db = "available" THEN "stopping" ELSE db
  /\ ctl' = Asleep
  /\ UNCHANGED <<flag, desired, active, draining, migration, rel, bounds>>

Reconcile ==
  ReadDatabase \/ ReadServices \/ StartDatabase \/ ScaleService \/ ListTasks \/ StopDatabase

(* A call to AWS fails, or the 45 seconds are over. *)
InvocationFails ==
  /\ ctl.pc # "idle"
  /\ mishaps < MaxMishaps
  /\ mishaps' = mishaps + 1
  /\ ctl' = Asleep
  /\ UNCHANGED <<flag, awsVars, rel, flips>>

------------------------------------------------------------------------------
(* deploy.  It never writes a desired count.  The rollout of an image      *)
(* replaces one task by another, which is not told apart here.             *)

Move(p, pc) == rel' = [rel EXCEPT ![p] = pc]

RequirePower(p) ==
  /\ rel[p] = "idle"
  /\ flag
  /\ Move(p, "run")
  /\ UNCHANGED <<flag, awsVars, ctl, bounds>>

(* run-task.  Bound: one migration task of a pipeline at a time. *)
RunMigration(p) ==
  /\ rel[p] = "run"
  /\ migration[p] = "none"
  /\ migration' = [migration EXCEPT ![p] = "active"]
  /\ Move(p, "wait")
  /\ UNCHANGED <<flag, db, desired, active, draining, ctl, bounds>>

MigrationStopped(p) ==
  /\ rel[p] = "wait"
  /\ migration[p] = "none"
  /\ \E pc \in {"recheck", "idle"} : Move(p, pc)    \* exit code zero or not
  /\ UNCHANGED <<flag, awsVars, ctl, bounds>>

(* The waiter gives up: stop-task, and the release fails. *)
MigrationTimesOut(p) ==
  /\ rel[p] = "wait"
  /\ migration[p] = "active"
  /\ migration' = [migration EXCEPT ![p] = "stopping"]
  /\ Move(p, "idle")
  /\ UNCHANGED <<flag, db, desired, active, draining, ctl, bounds>>

RecheckPower(p) ==
  /\ rel[p] = "recheck"
  /\ Move(p, IF flag THEN "update" ELSE "idle")
  /\ UNCHANGED <<flag, awsVars, ctl, bounds>>

UpdateService(p) ==
  /\ rel[p] = "update"
  /\ Move(p, "idle")
  /\ UNCHANGED <<flag, awsVars, ctl, bounds>>

Deploy(p) ==
  \/ RequirePower(p) \/ RunMigration(p) \/ MigrationStopped(p) \/ MigrationTimesOut(p)
  \/ RecheckPower(p) \/ UpdateService(p)

------------------------------------------------------------------------------
(* RDS and ECS. *)

DatabaseSettles ==
  /\ \/ db \in {"starting", "maintenance"} /\ db' = "available"
     \/ db = "stopping" /\ db' = "stopped"
  /\ UNCHANGED <<flag, desired, active, draining, migration, ctl, rel, bounds>>

(* RDS starts an instance by itself that has been stopped for seven days. *)
DatabaseRestarts ==
  /\ db = "stopped"
  /\ db' = "starting"
  /\ UNCHANGED <<flag, desired, active, draining, migration, ctl, rel, bounds>>

DatabaseMaintenance ==
  /\ db = "available"
  /\ mishaps < MaxMishaps
  /\ mishaps' = mishaps + 1
  /\ db' = "maintenance"
  /\ UNCHANGED <<flag, desired, active, draining, migration, ctl, rel, flips>>

PlaceTask(s) ==
  /\ active[s] < desired[s]
  /\ active' = [active EXCEPT ![s] = @ + 1]
  /\ UNCHANGED <<flag, db, desired, draining, migration, ctl, rel, bounds>>

StopTask(s) ==
  /\ active[s] > desired[s]
  /\ active' = [active EXCEPT ![s] = @ - 1]
  /\ draining' = [draining EXCEPT ![s] = @ + 1]
  /\ UNCHANGED <<flag, db, desired, migration, ctl, rel, bounds>>

TaskExits(s) ==
  /\ draining[s] > 0
  /\ draining' = [draining EXCEPT ![s] = @ - 1]
  /\ UNCHANGED <<flag, db, desired, active, migration, ctl, rel, bounds>>

TaskDies(s) ==
  /\ active[s] > 0
  /\ active' = [active EXCEPT ![s] = @ - 1]
  /\ UNCHANGED <<flag, db, desired, draining, migration, ctl, rel, bounds>>

MigrationExits(p) ==
  /\ migration[p] # "none"
  /\ migration' = [migration EXCEPT ![p] = "none"]
  /\ UNCHANGED <<flag, db, desired, active, draining, ctl, rel, bounds>>

Cluster(s) == PlaceTask(s) \/ StopTask(s) \/ TaskExits(s)

------------------------------------------------------------------------------
Next ==
  \/ FlipFlag
  \/ Reconcile \/ InvocationFails
  \/ \E p \in Pipelines : Deploy(p) \/ MigrationExits(p)
  \/ DatabaseSettles \/ DatabaseRestarts \/ DatabaseMaintenance
  \/ \E s \in Services : Cluster(s) \/ TaskDies(s)

Spec == Init /\ [][Next]_vars

(* EventBridge invokes the controller every minute; RDS and ECS finish     *)
(* what they have begun; a migration ends or is stopped by its waiter.     *)
(* Nothing is asked of operators or of releases.                           *)
Fairness ==
  /\ WF_vars(Reconcile)
  /\ WF_vars(DatabaseSettles)
  /\ \A s \in Services : WF_vars(Cluster(s))
  /\ \A p \in Pipelines : WF_vars(MigrationExits(p))

FairSpec == Spec /\ Fairness

------------------------------------------------------------------------------
(* What an invocation still knows of the cluster while it works on what it *)
(* read: the reason the two properties after it hold.                      *)
KnowledgeHolds ==
  /\ ctl.pc = "start" => ctl.on /\ ctl.todo = {}
  /\ ctl.pc = "scale" => Scalable(ctl.on, ctl.status)
  /\ ctl.pc = "scale" => \A s \in Services \ ctl.todo : desired[s] = Wanted(ctl.on)
  /\ ctl.pc \in {"services", "scale"} /\ ctl.on /\ ctl.status = "available" =>
       db \in {"available", "maintenance"}
  /\ ctl.pc \in {"list", "stop"} => ~ ctl.on /\ \A s \in Services : desired[s] = 0
  /\ ctl.pc = "stop" => \A s \in Services : active[s] = 0

(* OFF scales both services to zero, then stops RDS (SRE.md:15): what the  *)
(* controller read of the services is out of date by the time it stops the *)
(* database, and ECS goes on placing tasks; yet no service wants a task,   *)
(* or has one that was not told to stop.                                   *)
StopFindsServicesDown ==
  [][db # "stopping" /\ db' = "stopping" =>
       \A s \in Services : desired[s] = 0 /\ active[s] = 0]_vars

(* ON starts RDS, waits for available, then restores replicas              *)
(* (SRE.md:14): no service is scaled up over a database that is stopped,   *)
(* stopping or still starting, though the status was read two calls ago.   *)
RestoredOverDatabase ==
  [][\A s \in Services :
       desired[s] < desired'[s] => db \in {"available", "maintenance"}]_vars

(* Never stop RDS while ECS tasks are still running (operations.py:1).     *)
NeverStopsUnderTasks ==
  [][db # "stopping" /\ db' = "stopping" =>
       /\ \A s \in Services : active[s] = 0 /\ draining[s] = 0
       /\ \A p \in Pipelines : migration[p] = "none"]_vars

(* Turned off for good, the system is down again and again, also after RDS *)
(* restarted by itself, calls failed or a release was under way.           *)
OffSettles ==
  <>[](~ flag) =>
    []<>(db = "stopped" /\ \A s \in Services : active[s] = 0 /\ draining[s] = 0)

(* Turned on for good, in whatever state, the database comes up and the    *)
(* services keep their replicas.                                           *)
OnSettles ==
  <>[]flag => <>[](db = "available" /\ \A s \in Services : desired[s] = Replicas)

==============================================================================

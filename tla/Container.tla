------------------------------- MODULE Container -------------------------------
(***************************************************************************)
(* The life of one container of the backend: scripts/container.mjs boots   *)
(* it (migrations, demo seed, pm2), pm2 runs the API of index.ts and       *)
(* restarts it, and a stop travels from the platform to the entry process, *)
(* to pm2 and to the API, each of which gives the next one a time limit.   *)
(***************************************************************************)
EXTENDS Naturals, Sequences

CONSTANTS
  Conns,           \* client connections
  TicksPerSecond,  \* resolution of the clock
  MaxLag,          \* ticks within which a process acts on a signal, an exit, a timer
  MaxFailures      \* bound on boots that fail and on crashes of the API

ASSUME ContainerAssumption ==
  /\ TicksPerSecond \in Nat /\ MaxLag \in Nat /\ MaxFailures \in Nat
  /\ 2 * MaxLag < TicksPerSecond

VARIABLES
  deployment,  \* platform, command and environment of the container
  entry,       \* where main of container.mjs is
  migrated,    \* the schema is that of the image
  rows,        \* rows of the demo seed that exist
  phase,       \* the awaited Promise.all of the seed script
  pending,     \* its upserts still to come
  api,         \* the process of index.ts
  conns,       \* what the API sees of each connection
  stop,        \* how far the stop of the container has come
  clock,       \* ticks since the platform's SIGTERM
  since,       \* when the stop came that far
  pm2At,       \* when pm2 started its kill timer
  killed,      \* history: a SIGKILL was needed
  failures     \* boots failed and crashes so far

boot == <<entry, migrated, rows, phase, pending>>
timing == <<stop, clock, since, pm2At, killed>>
vars == <<deployment, boot, api, conns, timing, failures>>

------------------------------------------------------------------------------
(* How the image is run: by Docker Compose, and on ECS as the service, as  *)
(* the migration task of a release and as the seed task of the exam.       *)
Deployments ==
  [platform : {"compose"}, mode : {"serve"}, production : BOOLEAN,
   RUN_MIGRATIONS : {TRUE}, SEED_DEMO_DATA : {TRUE}]
  \cup [platform : {"ecs"}, mode : {"serve", "migrate"}, production : BOOLEAN,
        RUN_MIGRATIONS : {FALSE}, SEED_DEMO_DATA : {FALSE}]
  \cup [platform : {"ecs"}, mode : {"seed"}, production : BOOLEAN,
        RUN_MIGRATIONS : {FALSE}, SEED_DEMO_DATA : {TRUE}]

(* ECS puts an init process before the entry process; under Compose the    *)
(* entry process is PID 1, which a signal without a handler does not end.  *)
HasInit == deployment.platform = "ecs"

Seconds(n) == n * TicksPerSecond

(* Mutant of ShutdownLimit: as long as pm2's. *)
ShutdownLimitOfPm2 == Seconds(26)

ShutdownLimit == Seconds(25)
KillTimeout == Seconds(26)
StopTimeout == IF deployment.platform = "ecs" THEN Seconds(30) ELSE Seconds(10)

Roles == {"SUPER_ADMIN", "CANTEEN_MANAGER", "CUSTOMER"}
Colleges == {"ALPHA001", "BETA001"}
SeededCanteens == {"Main Canteen", "Central Food Court"}
Users == {"owner", "manager.alpha", "manager.beta", "student.alpha", "student.beta"}
Assignments == {"alphaManager", "betaManager"}
MenuItems == {"Veg Sandwich", "Cold Coffee", "Masala Dosa"}

SeedPhases == <<Roles, Colleges, SeededCanteens, Users, Assignments, MenuItems>>
SeedRows == UNION {SeedPhases[p] : p \in 1..6}

TypeOK ==
  /\ deployment \in Deployments
  /\ entry \in {"down", "migrate", "seed", "serve", "done"}
  /\ migrated \in BOOLEAN
  /\ rows \subseteq SeedRows
  /\ phase \in 0..6 /\ pending \subseteq SeedRows
  /\ api \in {"down", "up", "closing", "disconnecting"}
  /\ conns \in [Conns -> {"none", "waiting", "idle", "orphan"}]
  /\ stop \in {"none", "entry", "lost", "pm2", "api", "apiExited", "pm2Exited", "done"}
  /\ clock \in 0..StopTimeout /\ since \in 0..clock /\ pm2At \in 0..clock
  /\ killed \in BOOLEAN
  /\ failures \in 0..MaxFailures
  /\ api # "down" => entry = "serve"
  /\ stop = "api" <=> api \in {"closing", "disconnecting"}
  /\ stop \in {"apiExited", "pm2Exited"} => api = "down"

Init ==
  /\ deployment \in Deployments
  /\ entry = "down" /\ api = "down"
  /\ migrated = (deployment.platform = "ecs" /\ deployment.mode # "migrate")
  /\ rows = {} /\ phase = 0 /\ pending = {}
  /\ conns = [c \in Conns |-> "none"]
  /\ stop = "none" /\ clock = 0 /\ since = 0 /\ pm2At = 0
  /\ killed = FALSE /\ failures = 0

------------------------------------------------------------------------------
(* main of container.mjs, until pm2 is started.  The two children are run  *)
(* with spawnSync: meanwhile the entry process handles no signal.          *)

Refused ==
  deployment.production /\
    (deployment.mode = "seed" \/ deployment.SEED_DEMO_DATA \/ deployment.RUN_MIGRATIONS)

Enter(place) == entry' = place

(* The platform starts the container, again if the last one has exited.    *)
Boot ==
  /\ entry = "down" /\ stop = "none"
  /\ ~ Refused
  /\ Enter(IF deployment.mode = "migrate" \/ deployment.RUN_MIGRATIONS THEN "migrate"
           ELSE IF deployment.SEED_DEMO_DATA THEN "seed" ELSE "serve")
  /\ phase' = 0 /\ pending' = {}
  /\ UNCHANGED <<deployment, migrated, rows, api, conns, timing, failures>>

Migrated ==
  /\ entry = "migrate"
  /\ migrated' = TRUE
  /\ Enter(IF deployment.mode = "migrate" THEN "done"
           ELSE IF deployment.SEED_DEMO_DATA THEN "seed" ELSE "serve")
  /\ UNCHANGED <<deployment, rows, phase, pending, api, conns, timing, failures>>

SeedPhaseStarts ==
  /\ entry = "seed" /\ pending = {} /\ phase < 6
  /\ phase' = phase + 1
  /\ pending' = SeedPhases[phase + 1]
  /\ UNCHANGED <<deployment, entry, migrated, rows, api, conns, timing, failures>>

(* Mutant of Upserted: create instead of upsert. *)
Created ==
  /\ entry = "seed"
  /\ \E r \in pending \ rows : rows' = rows \cup {r} /\ pending' = pending \ {r}
  /\ UNCHANGED <<deployment, entry, migrated, phase, api, conns, timing, failures>>

Upserted ==
  /\ entry = "seed"
  /\ \E r \in pending : rows' = rows \cup {r} /\ pending' = pending \ {r}
  /\ UNCHANGED <<deployment, entry, migrated, phase, api, conns, timing, failures>>

SeedCompletes ==
  /\ entry = "seed" /\ pending = {} /\ phase = 6
  /\ Enter(IF deployment.mode = "seed" THEN "done" ELSE "serve")
  /\ UNCHANGED <<deployment, migrated, rows, phase, pending, api, conns, timing, failures>>

Fails == failures < MaxFailures /\ failures' = failures + 1

(* Mutant of BootFails: the exit code of the seed script is not minded. *)
BootFailsUnnoticed ==
  /\ entry \in {"migrate", "seed"}
  /\ Fails
  /\ Enter(IF entry = "seed" /\ deployment.mode = "serve" THEN "serve" ELSE "down")
  /\ UNCHANGED <<deployment, migrated, rows, phase, pending, api, conns, timing>>

(* A child fails, or the container dies: main throws, whatever has been    *)
(* written stays, and the container exits.                                 *)
BootFails ==
  /\ entry \in {"migrate", "seed"}
  /\ Fails
  /\ Enter("down")
  /\ stop' = IF stop = "none" THEN stop ELSE "done"
  /\ UNCHANGED <<deployment, migrated, rows, phase, pending, api, conns, clock, since, pm2At, killed>>

------------------------------------------------------------------------------
(* The API under pm2, and its connections.  A connection is waiting while  *)
(* a handler works on its request, and an orphan once its client has left  *)
(* a handler at work.                                                      *)

Pm2Stops == stop \notin {"none", "entry", "lost"}

(* Mutant of ApiStarts: pm2 restarts the API also while it stops. *)
ApiStartsAnyway ==
  /\ entry = "serve" /\ api = "down"
  /\ api' = "up"
  /\ UNCHANGED <<deployment, boot, conns, timing, failures>>

(* First start, and the restart after a crash. *)
ApiStarts ==
  /\ entry = "serve" /\ api = "down" /\ ~ Pm2Stops
  /\ api' = "up"
  /\ UNCHANGED <<deployment, boot, conns, timing, failures>>

ConnBecomes(c, state) ==
  /\ conns' = [conns EXCEPT ![c] = state]
  /\ UNCHANGED <<deployment, boot, api, timing, failures>>

Connects(c) == api = "up" /\ conns[c] = "none" /\ ConnBecomes(c, "waiting")

(* Kept alive, a connection carries requests also while the server closes. *)
Requests(c) == api \in {"up", "closing"} /\ conns[c] = "idle" /\ ConnBecomes(c, "waiting")
Responded(c) == api \in {"up", "closing"} /\ conns[c] = "waiting" /\ ConnBecomes(c, "idle")

(* The client leaves, or the connection was idle for too long. *)
HangsUp(c) ==
  /\ api \in {"up", "closing"}
  /\ \/ conns[c] = "waiting" /\ ConnBecomes(c, "orphan")
     \/ conns[c] = "idle" /\ ConnBecomes(c, "none")

HandlerEnds(c) == conns[c] = "orphan" /\ ConnBecomes(c, "none")

AllCut == conns' = [c \in Conns |-> "none"]

ApiCrashes ==
  /\ api # "down"
  /\ Fails
  /\ api' = "down" /\ AllCut
  /\ IF stop = "api" THEN stop' = "apiExited" /\ since' = clock
                     ELSE UNCHANGED <<stop, since>>
  /\ UNCHANGED <<deployment, boot, clock, pm2At, killed>>

------------------------------------------------------------------------------
(* The stop of a container. *)

Reaches(place) == stop' = place /\ since' = clock

StopSent ==
  /\ stop = "none" /\ entry = "serve"
  /\ Reaches("entry")
  /\ UNCHANGED <<deployment, boot, api, conns, clock, pm2At, killed, failures>>

(* Before it has a handler the signal ends the entry process or is lost.   *)
StopSentDuringBoot ==
  /\ stop = "none" /\ entry \in {"migrate", "seed"}
  /\ IF HasInit THEN Enter("down") /\ Reaches("done")
                ELSE UNCHANGED entry /\ Reaches("lost")
  /\ UNCHANGED <<deployment, migrated, rows, phase, pending, api, conns,
                 clock, pm2At, killed, failures>>

Forwarded ==
  /\ stop = "entry"
  /\ Reaches("pm2") /\ pm2At' = clock
  /\ UNCHANGED <<deployment, boot, api, conns, clock, killed, failures>>

(* The handler of the signal: server.close() ends idle connections only.   *)
ApiCloses ==
  /\ stop = "pm2" /\ api = "up"
  /\ api' = "closing" /\ Reaches("api")
  /\ conns' = [c \in Conns |-> IF conns[c] = "idle" THEN "none" ELSE conns[c]]
  /\ UNCHANGED <<deployment, boot, clock, pm2At, killed, failures>>

NothingToStop ==
  /\ stop = "pm2" /\ api = "down"
  /\ Reaches("apiExited")
  /\ UNCHANGED <<deployment, boot, api, conns, clock, pm2At, killed, failures>>

(* Mutant of Drained: connections are not waited for. *)
DrainedAtOnce ==
  /\ api = "closing"
  /\ api' = "disconnecting" /\ AllCut
  /\ UNCHANGED <<deployment, boot, timing, failures>>

(* The callback of server.close(): a handler without client is not waited for. *)
Drained ==
  /\ api = "closing"
  /\ \A c \in Conns : conns[c] \in {"none", "orphan"}
  /\ api' = "disconnecting"
  /\ UNCHANGED <<deployment, boot, conns, timing, failures>>

ApiGone ==
  /\ api' = "down" /\ AllCut
  /\ Reaches("apiExited")
  /\ UNCHANGED <<deployment, boot, clock, pm2At>>

Disconnected == api = "disconnecting" /\ ApiGone /\ UNCHANGED <<killed, failures>>

LimitReached == stop = "api" /\ clock >= since + ShutdownLimit
TimesOut == LimitReached /\ ApiGone /\ UNCHANGED <<killed, failures>>

Pm2Exits ==
  /\ stop = "apiExited"
  /\ Reaches("pm2Exited")
  /\ UNCHANGED <<deployment, boot, api, conns, clock, pm2At, killed, failures>>

EntryExits ==
  /\ stop = "pm2Exited"
  /\ Enter("down") /\ Reaches("done")
  /\ UNCHANGED <<deployment, migrated, rows, phase, pending, api, conns,
                 clock, pm2At, killed, failures>>

Stopping == stop \notin {"none", "done"}

(* SIGKILL: pm2 kills the API, the platform the whole container. *)
Pm2Kills == stop \in {"pm2", "api"} /\ clock >= pm2At + KillTimeout
PlatformKills == Stopping /\ clock >= StopTimeout

Killed ==
  /\ Pm2Kills \/ PlatformKills
  /\ killed' = TRUE
  /\ api' = "down" /\ AllCut
  /\ Reaches(IF PlatformKills THEN "done" ELSE "apiExited")
  /\ Enter(IF PlatformKills THEN "down" ELSE entry)
  /\ UNCHANGED <<deployment, migrated, rows, phase, pending, clock, pm2At, failures>>

(* Nobody is later than MaxLag, and a SIGKILL comes on time. *)
NextDue ==
  CASE stop = "lost" -> StopTimeout
    [] stop = "api" -> since + ShutdownLimit + MaxLag
    [] OTHER -> since + MaxLag

Tick ==
  /\ Stopping
  /\ clock < NextDue /\ ~ Pm2Kills /\ ~ PlatformKills
  /\ clock' = clock + 1
  /\ UNCHANGED <<deployment, boot, api, conns, stop, since, pm2At, killed, failures>>

(* The service is deployed, or the stack brought up, again. *)
Redeployed ==
  /\ stop = "done" /\ entry = "down"
  /\ stop' = "none" /\ clock' = 0 /\ since' = 0 /\ pm2At' = 0
  /\ UNCHANGED <<deployment, boot, api, conns, killed, failures>>

------------------------------------------------------------------------------
main == Boot \/ Migrated \/ SeedPhaseStarts \/ Upserted \/ SeedCompletes

Next ==
  \/ main \/ BootFails
  \/ ApiStarts \/ ApiCrashes
  \/ \E c \in Conns : Connects(c) \/ Requests(c) \/ Responded(c) \/ HangsUp(c) \/ HandlerEnds(c)
  \/ StopSent \/ StopSentDuringBoot \/ Forwarded \/ ApiCloses \/ NothingToStop
  \/ Drained \/ Disconnected \/ TimesOut \/ Pm2Exits \/ EntryExits \/ Killed
  \/ Tick \/ Redeployed

(* A service is started again after it exits, a task is not. *)
Fairness == WF_vars(deployment.mode = "serve" /\ main) /\ WF_vars(ApiStarts)

Spec == Init /\ [][Next]_vars /\ Fairness

------------------------------------------------------------------------------
(* Who serves, or reports a seed task as successful (seed_exam.py:20), has *)
(* the whole demo seed and the schema it was started to make, however many *)
(* boots were cut short between two rows before.                           *)
PreparedBeforeServing ==
  entry = "done" \/ api # "down" =>
    /\ deployment.SEED_DEMO_DATA => rows = SeedRows
    /\ migrated

(* On ECS each limit leaves room for the one inside it: neither pm2's nor  *)
(* the platform's SIGKILL is needed, however long requests take and        *)
(* whenever the stop comes.                                                *)
NeverKilledOnEcs == deployment.platform = "ecs" => ~ killed

(* On ECS a stop cuts a request whose client waits for it only when the 25 *)
(* seconds have passed; everything else that ends it is a crash.           *)
CutOnlyAtLimit ==
  [][deployment.platform = "ecs" =>
       \A c \in Conns : conns[c] = "waiting" /\ conns'[c] = "none" =>
         LimitReached \/ failures' > failures]_vars

(* A boot that was cut short does not stand in the way of the next one:    *)
(* a service that is allowed to start comes up unless it is stopped.       *)
ServesUnlessStopped ==
  deployment.mode = "serve" /\ ~ Refused /\ entry = "down" /\ stop = "none"
    ~> api = "up" \/ stop # "none"

==============================================================================

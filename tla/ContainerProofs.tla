---------------------------- MODULE ContainerProofs ----------------------------
(***************************************************************************)
(* Proofs about Container, for any number of connections and failures, any *)
(* resolution of the clock and any lag that fits twice into the second by  *)
(* which pm2's limit is longer than the API's.                             *)
(***************************************************************************)
EXTENDS Container, TLAPS

(* The seed script has written what it has awaited. *)
WrittenBy(ph, left) == (UNION {SeedPhases[p] : p \in 1..ph}) \ left
Written == WrittenBy(phase, pending)

(* What each place of a boot may rely on. *)
Prepared ==
  /\ deployment.platform = "ecs" /\ deployment.mode # "migrate" => migrated
  /\ entry \in {"seed", "serve", "done"} => migrated
  /\ entry = "migrate" => phase = 0
  /\ entry = "seed" => Written \subseteq rows
  /\ entry \in {"serve", "done"} /\ deployment.SEED_DEMO_DATA => rows = SeedRows

(* How late it can be when the stop has come to a place. *)
Timely ==
  /\ stop # "lost"
  /\ stop = "none" => clock = 0
  /\ stop = "entry" => since = 0 /\ clock <= MaxLag
  /\ stop = "pm2" => since = pm2At /\ since <= MaxLag /\ clock <= since + MaxLag
  /\ stop = "api" => /\ since <= 2 * MaxLag /\ since <= pm2At + MaxLag
                     /\ clock <= since + ShutdownLimit + MaxLag
  /\ stop = "apiExited" => since <= ShutdownLimit + 3 * MaxLag /\ clock <= since + MaxLag
  /\ stop = "pm2Exited" => since <= ShutdownLimit + 4 * MaxLag /\ clock <= since + MaxLag

OnTime == deployment.platform = "ecs" => Timely

------------------------------------------------------------------------------
(* TypeOK without its Booleans, which the arithmetic of the others does    *)
(* not go with.                                                            *)
Flags == migrated \in BOOLEAN /\ killed \in BOOLEAN /\ deployment \in Deployments

Places ==
  /\ entry \in {"down", "migrate", "seed", "serve", "done"}
  /\ rows \subseteq SeedRows
  /\ phase \in 0..6 /\ pending \subseteq SeedRows
  /\ api \in {"down", "up", "closing", "disconnecting"}
  /\ conns \in [Conns -> {"none", "waiting", "idle", "orphan"}]
  /\ stop \in {"none", "entry", "lost", "pm2", "api", "apiExited", "pm2Exited", "done"}
  /\ failures \in 0..MaxFailures
  /\ api # "down" => entry = "serve"
  /\ stop = "api" <=> api \in {"closing", "disconnecting"}
  /\ stop \in {"apiExited", "pm2Exited"} => api = "down"

Clocks == clock \in 0..StopTimeout /\ since \in 0..clock /\ pm2At \in 0..clock

LEMMA TypeParts == TypeOK <=> Flags /\ Places /\ Clocks
<1> QED
  BY DEF TypeOK, Flags, Places, Clocks

LEMMA StopTimeoutNat == StopTimeout \in Nat /\ ShutdownLimit \in Nat /\ KillTimeout \in Nat
<1> QED
  BY ContainerAssumption DEF StopTimeout, ShutdownLimit, KillTimeout, Seconds

LEMMA SeedPhaseRows == \A p \in 1..6 : SeedPhases[p] \subseteq SeedRows
<1> QED
  BY Zenon DEF SeedRows

(* A container stays what it was started as. *)
LEMMA SameDeployment == [Next]_vars => deployment' = deployment
<1> QED
  BY DEF Next, main, vars, Boot, Migrated, SeedPhaseStarts, Upserted, SeedCompletes, BootFails,
     ApiStarts, ApiCrashes, Connects, Requests, Responded, HangsUp, HandlerEnds, ConnBecomes,
     StopSent, StopSentDuringBoot, Forwarded, ApiCloses, NothingToStop, Drained, Disconnected,
     TimesOut, ApiGone, Pm2Exits, EntryExits, Killed, Tick, Redeployed

LEMMA TypeInit == Init => TypeOK
<1> SUFFICES ASSUME Init PROVE TypeOK
  OBVIOUS
<1>1. Flags
  BY Zenon DEF Init, Flags
<1>2. Places
  BY ContainerAssumption DEF Init, Places
<1>3. Clocks
  BY StopTimeoutNat DEF Init, Clocks
<1> QED
  BY <1>1, <1>2, <1>3, TypeParts

LEMMA FlagsStep == Flags /\ [Next]_vars => Flags'
<1> SUFFICES ASSUME Flags, [Next]_vars PROVE Flags'
  OBVIOUS
<1>1. migrated' = migrated \/ migrated' = TRUE
  BY DEF Next, main, vars, boot, Boot, Migrated, SeedPhaseStarts, Upserted, SeedCompletes, BootFails,
     ApiStarts, ApiCrashes, Connects, Requests, Responded, HangsUp, HandlerEnds, ConnBecomes,
     StopSent, StopSentDuringBoot, Forwarded, ApiCloses, NothingToStop, Drained, Disconnected,
     TimesOut, ApiGone, Pm2Exits, EntryExits, Killed, Tick, Redeployed
<1>2. killed' = killed \/ killed' = TRUE
  BY DEF Next, main, vars, timing, Boot, Migrated, SeedPhaseStarts, Upserted, SeedCompletes, BootFails,
     ApiStarts, ApiCrashes, Connects, Requests, Responded, HangsUp, HandlerEnds, ConnBecomes,
     StopSent, StopSentDuringBoot, Forwarded, ApiCloses, NothingToStop, Drained, Disconnected,
     TimesOut, ApiGone, Pm2Exits, EntryExits, Killed, Tick, Redeployed
<1> QED
  BY <1>1, <1>2, SameDeployment, Zenon DEF Flags

LEMMA PlacesStep == Places /\ [Next]_vars => Places'
<1> SUFFICES ASSUME Places, [Next]_vars PROVE Places'
  OBVIOUS
<1>0. phase \in 0..6 /\ failures \in 0..MaxFailures
  BY Zenon DEF Places
<1>a. Fails => failures' \in 0..MaxFailures
  BY <1>0, ContainerAssumption DEF Fails
<1>b. phase < 6 => phase + 1 \in 1..6 /\ phase + 1 \in 0..6
  BY <1>0
<1> USE DEF Places
<1>1. CASE Boot
  BY <1>1 DEF Boot, Enter, timing
<1>2. CASE Migrated
  BY <1>2 DEF Migrated, Enter, timing
<1>3. CASE SeedPhaseStarts
  <2>1. phase + 1 \in 1..6 /\ phase' \in 0..6 /\ pending' = SeedPhases[phase + 1]
    BY <1>3, <1>b, Zenon DEF SeedPhaseStarts
  <2>2. pending' \subseteq SeedRows
    BY <2>1, SeedPhaseRows, Zenon
  <2> QED
    BY <1>3, <2>1, <2>2 DEF SeedPhaseStarts, timing
<1>4. CASE Upserted
  BY <1>4 DEF Upserted, timing
<1>5. CASE SeedCompletes
  BY <1>5 DEF SeedCompletes, Enter, timing
<1>6. CASE BootFails
  BY <1>6, <1>a DEF BootFails, Enter
<1>7. CASE ApiStarts
  BY <1>7 DEF ApiStarts, Pm2Stops, boot, timing
<1>8. CASE ApiCrashes
  BY <1>8, <1>a DEF ApiCrashes, AllCut, boot
<1>9. CASE \E c \in Conns : Connects(c) \/ Requests(c) \/ Responded(c) \/ HangsUp(c) \/ HandlerEnds(c)
  <2>1. PICK c \in Conns, state \in {"none", "waiting", "idle", "orphan"} : ConnBecomes(c, state)
    BY <1>9 DEF Connects, Requests, Responded, HangsUp, HandlerEnds
  <2> QED
    BY <2>1 DEF ConnBecomes, boot, timing
<1>10. CASE StopSent
  BY <1>10 DEF StopSent, Reaches, boot
<1>11. CASE StopSentDuringBoot
  BY <1>11 DEF StopSentDuringBoot, Reaches, Enter
<1>12. CASE Forwarded
  BY <1>12 DEF Forwarded, Reaches, boot
<1>13. CASE ApiCloses
  BY <1>13 DEF ApiCloses, Reaches, boot
<1>14. CASE NothingToStop
  BY <1>14 DEF NothingToStop, Reaches, boot
<1>15. CASE Drained
  BY <1>15 DEF Drained, boot, timing
<1>16. CASE Disconnected
  BY <1>16 DEF Disconnected, ApiGone, AllCut, Reaches, boot
<1>17. CASE TimesOut
  BY <1>17 DEF TimesOut, LimitReached, ApiGone, AllCut, Reaches, boot
<1>18. CASE Pm2Exits
  BY <1>18 DEF Pm2Exits, Reaches, boot
<1>19. CASE EntryExits
  BY <1>19 DEF EntryExits, Enter, Reaches
<1>20. CASE Killed
  BY <1>20 DEF Killed, Pm2Kills, PlatformKills, Stopping, AllCut, Enter, Reaches
<1>21. CASE Tick
  BY <1>21 DEF Tick, boot
<1>22. CASE Redeployed
  BY <1>22 DEF Redeployed, boot
<1>23. CASE UNCHANGED vars
  BY <1>23 DEF vars, boot, timing
<1> QED
  BY <1>1, <1>2, <1>3, <1>4, <1>5, <1>6, <1>7, <1>8, <1>9, <1>10, <1>11, <1>12,
     <1>13, <1>14, <1>15, <1>16, <1>17, <1>18, <1>19, <1>20, <1>21, <1>22, <1>23 DEF Next, main

LEMMA ClocksStep == Clocks /\ [Next]_vars => Clocks'
<1> SUFFICES ASSUME Clocks, [Next]_vars PROVE Clocks'
  OBVIOUS
<1>0. StopTimeout' = StopTimeout
  BY SameDeployment DEF StopTimeout
<1> USE StopTimeoutNat, <1>0 DEF Clocks
<1>1. CASE Tick
  BY <1>1 DEF Tick, PlatformKills
<1>2. CASE clock' = clock /\ since' \in {since, clock} /\ pm2At' \in {pm2At, clock}
  BY <1>2
<1>3. CASE Redeployed
  BY <1>3 DEF Redeployed
<1> QED
  BY <1>1, <1>2, <1>3 DEF Next, main, vars, timing, Boot, Migrated, SeedPhaseStarts, Upserted,
     SeedCompletes, BootFails, ApiStarts, ApiCrashes, Connects, Requests, Responded, HangsUp,
     HandlerEnds, ConnBecomes, StopSent, StopSentDuringBoot, Forwarded, ApiCloses, NothingToStop,
     Drained, Disconnected, TimesOut, ApiGone, Pm2Exits, EntryExits, Killed, Reaches

LEMMA TypeStep == TypeOK /\ [Next]_vars => TypeOK'
<1> QED
  BY TypeParts, FlagsStep, PlacesStep, ClocksStep DEF TypeOK, Flags, Places, Clocks

(* Rows, requests and clocks of a container keep their domains, and the    *)
(* API runs in a container that serves.                                    *)
THEOREM TypeCorrect == Spec => []TypeOK
<1> QED
  BY TypeInit, TypeStep, PTL DEF Spec

------------------------------------------------------------------------------
(* A step comes in time for the next one, on ECS.                          *)

LEMMA OnTimeInit == Init => OnTime
<1> QED
  BY DEF Init, OnTime, Timely

LEMMA Numbers ==
  TypeOK => /\ clock \in Nat /\ since \in Nat /\ since <= clock /\ pm2At \in Nat
            /\ MaxLag \in Nat /\ TicksPerSecond \in Nat /\ 2 * MaxLag < TicksPerSecond
            /\ ShutdownLimit = 25 * TicksPerSecond /\ KillTimeout = 26 * TicksPerSecond
            /\ ShutdownLimit \in Nat /\ ShutdownLimit' = ShutdownLimit
            /\ deployment.platform = "ecs" => StopTimeout = 30 * TicksPerSecond
<1>1. TypeOK => clock \in Nat /\ since \in Nat /\ since <= clock /\ pm2At \in Nat
  BY StopTimeoutNat, TypeParts DEF Clocks
<1> QED
  BY <1>1, StopTimeoutNat, ContainerAssumption DEF ShutdownLimit, KillTimeout, StopTimeout, Seconds

(* Neither SIGKILL comes to a stop that is on time.                        *)
LEMMA NoKill ==
  ASSUME TypeOK, OnTime, deployment.platform = "ecs"
  PROVE  ~ Pm2Kills /\ ~ PlatformKills
<1>0. /\ clock \in Nat /\ since \in Nat /\ since <= clock /\ pm2At \in Nat
      /\ MaxLag \in Nat /\ TicksPerSecond \in Nat /\ 2 * MaxLag < TicksPerSecond
      /\ ShutdownLimit = 25 * TicksPerSecond /\ KillTimeout = 26 * TicksPerSecond
      /\ StopTimeout = 30 * TicksPerSecond
  BY Numbers
<1> USE <1>0
<1>1. Timely
  BY DEF OnTime
<1>2. CASE stop = "pm2"
  BY <1>1, <1>2 DEF Timely, Pm2Kills, PlatformKills
<1>3. CASE stop = "api"
  BY <1>1, <1>3 DEF Timely, Pm2Kills, PlatformKills
<1>4. CASE stop \in {"entry", "apiExited", "pm2Exited"}
  BY <1>1, <1>4 DEF Timely, Pm2Kills, PlatformKills
<1>5. CASE stop \in {"none", "done"}
  BY <1>5 DEF Pm2Kills, PlatformKills, Stopping
<1> QED
  BY <1>1, <1>2, <1>3, <1>4, <1>5, Zenon DEF Timely, TypeOK

LEMMA OnTimeStep == TypeOK /\ OnTime /\ [Next]_vars => OnTime'
<1> SUFFICES ASSUME TypeOK, OnTime, [Next]_vars, deployment.platform = "ecs"
             PROVE  Timely'
  BY SameDeployment, Zenon DEF OnTime
<1>1. Timely
  BY DEF OnTime
<1>2. ~ Pm2Kills /\ ~ PlatformKills
  BY NoKill
<1>0. /\ clock \in Nat /\ since \in Nat /\ since <= clock /\ pm2At \in Nat
      /\ MaxLag \in Nat /\ TicksPerSecond \in Nat /\ ShutdownLimit \in Nat
      /\ ShutdownLimit' = ShutdownLimit
  BY Numbers
<1> USE <1>0
<1>3. CASE UNCHANGED timing
  BY <1>1, <1>3 DEF timing, Timely
<1>4. CASE ApiCrashes
  BY <1>1, <1>4 DEF ApiCrashes, Timely
<1>5. CASE StopSent
  BY <1>1, <1>5 DEF StopSent, Reaches, Timely
<1>6. CASE StopSentDuringBoot \/ EntryExits \/ BootFails
  BY <1>1, <1>6 DEF StopSentDuringBoot, EntryExits, BootFails, HasInit, Reaches, Timely
<1>7. CASE Forwarded
  BY <1>1, <1>7 DEF Forwarded, Reaches, Timely
<1>8. CASE ApiCloses
  BY <1>1, <1>8 DEF ApiCloses, Reaches, Timely
<1>9. CASE NothingToStop
  BY <1>1, <1>9 DEF NothingToStop, Reaches, Timely
<1>10. CASE Disconnected \/ TimesOut
  <2>1. stop = "api" /\ stop' = "apiExited" /\ since' = clock /\ clock' = clock
    BY <1>10 DEF Disconnected, TimesOut, LimitReached, ApiGone, Reaches, TypeOK
  <2> QED
    BY <1>1, <2>1 DEF Timely
<1>11. CASE Pm2Exits
  BY <1>1, <1>11 DEF Pm2Exits, Reaches, Timely
<1>12. CASE Killed
  BY <1>2, <1>12 DEF Killed
<1>13. CASE Tick
  <2>1. /\ stop = "api" => NextDue = since + ShutdownLimit + MaxLag
        /\ stop \notin {"api", "lost"} => NextDue = since + MaxLag
    BY Zenon DEF NextDue
  <2> QED
    BY <1>1, <1>13, <2>1 DEF Tick, Stopping, Timely
<1>14. CASE Redeployed
  BY <1>14 DEF Redeployed, Timely
<1> QED
  BY <1>3, <1>4, <1>5, <1>6, <1>7, <1>8, <1>9, <1>10, <1>11, <1>12, <1>13, <1>14
  DEF Next, main, vars, timing, Boot, Migrated, SeedPhaseStarts, Upserted, SeedCompletes,
      ApiStarts, Connects, Requests, Responded, HangsUp, HandlerEnds, ConnBecomes, Drained

LEMMA NoKillStep ==
  TypeOK /\ OnTime /\ NeverKilledOnEcs /\ [Next]_vars => NeverKilledOnEcs'
<1> SUFFICES ASSUME TypeOK, OnTime, NeverKilledOnEcs, [Next]_vars, deployment.platform = "ecs"
             PROVE  ~ killed'
  BY SameDeployment, Zenon DEF NeverKilledOnEcs
<1>1. ~ Killed
  BY NoKill, Zenon DEF Killed
<1>2. ~ killed
  BY Zenon DEF NeverKilledOnEcs
<1>3. killed' = killed
  BY <1>1 DEF Next, main, vars, timing, Boot, Migrated, SeedPhaseStarts, Upserted, SeedCompletes,
     BootFails, ApiStarts, ApiCrashes, Connects, Requests, Responded, HangsUp, HandlerEnds,
     ConnBecomes, StopSent, StopSentDuringBoot, Forwarded, ApiCloses, NothingToStop, Drained,
     Disconnected, TimesOut, ApiGone, Pm2Exits, EntryExits, Tick, Redeployed
<1> QED
  BY <1>2, <1>3, Zenon

(* On ECS no SIGKILL is needed: 25 seconds, the lags before and after them *)
(* and the exits of three processes fit into the limits of pm2 and of the  *)
(* task.                                                                   *)
THEOREM NeverKilled == Spec => []NeverKilledOnEcs
<1>1. Init => NeverKilledOnEcs
  BY Zenon DEF Init, NeverKilledOnEcs
<1> QED
  BY <1>1, TypeInit, TypeStep, OnTimeInit, OnTimeStep, NoKillStep, PTL DEF Spec

------------------------------------------------------------------------------
(* What a boot has prepared when it lets the API start.                    *)

LEMMA PreparedInit == Init => Prepared
<1> SUFFICES ASSUME Init PROVE Prepared
  OBVIOUS
<1>1. entry = "down" /\ (deployment.platform = "ecs" /\ deployment.mode # "migrate" => migrated)
  BY Zenon DEF Init
<1> QED
  BY <1>1 DEF Prepared

LEMMA DeploymentKinds ==
  ASSUME deployment \in Deployments
  PROVE  /\ ~ deployment.RUN_MIGRATIONS => deployment.platform = "ecs"
         /\ deployment.mode = "migrate" => ~ deployment.SEED_DEMO_DATA
<1> QED
  BY DEF Deployments

LEMMA NoPhases == 1..0 = {}
<1> QED
  OBVIOUS

LEMMA InWritten ==
  ASSUME NEW ph, NEW left
  PROVE  \A r : r \in WrittenBy(ph, left) <=> r \notin left /\ \E p \in 1..ph : r \in SeedPhases[p]
<1> QED
  BY Zenon DEF WrittenBy

(* Nothing is written before the first phase, everything after the last.   *)
LEMMA WrittenPhases ==
  /\ phase = 0 => Written = {}
  /\ phase = 6 /\ pending = {} => Written = SeedRows
<1> QED
  BY NoPhases, Zenon DEF Written, WrittenBy, SeedRows

LEMMA PreparedStep == TypeOK /\ Prepared /\ [Next]_vars => Prepared'
<1> SUFFICES ASSUME TypeOK, Prepared, [Next]_vars PROVE Prepared'
  OBVIOUS
<1>0. /\ deployment' = deployment /\ deployment \in Deployments
      /\ rows \subseteq SeedRows /\ phase \in 0..6
  BY SameDeployment DEF TypeOK
<1>1. CASE Boot
  <2>1. phase' = 0 /\ migrated' = migrated
    BY <1>1, Zenon DEF Boot
  <2>2. Written' = {}
    BY <2>1, NoPhases, InWritten, Zenon DEF Written
  <2>3. entry' # "migrate" => migrated
    BY <1>0, <1>1, DeploymentKinds, Zenon DEF Boot, Enter, Prepared
  <2>4. entry' # "done" /\ (entry' = "serve" => ~ deployment.SEED_DEMO_DATA)
    BY <1>0, <1>1, DeploymentKinds, Zenon DEF Boot, Enter
  <2> QED
    BY <1>0, <2>1, <2>2, <2>3, <2>4, Zenon DEF Prepared
<1>2. CASE Migrated
  <2>1. phase' = 0 /\ phase = 0 /\ migrated' = TRUE
    BY <1>2, Zenon DEF Migrated, Prepared
  <2>2. Written' = {}
    BY <2>1, NoPhases, InWritten, Zenon DEF Written
  <2>3. entry' # "migrate" /\ (entry' # "seed" => ~ deployment.SEED_DEMO_DATA)
    BY <1>0, <1>2, DeploymentKinds, Zenon DEF Migrated, Enter
  <2> QED
    BY <1>0, <2>1, <2>2, <2>3, Zenon DEF Prepared
<1>3. CASE SeedPhaseStarts
  <2>1. /\ entry = "seed" /\ entry' = "seed" /\ migrated' = migrated /\ rows' = rows
        /\ pending = {} /\ pending' = SeedPhases[phase + 1] /\ phase' = phase + 1
    BY <1>3, Zenon DEF SeedPhaseStarts
  <2>2. \A p \in 1..phase' : p \in 1..phase \/ p = phase + 1
    BY <1>0, <2>1
  <2>3. \A r : r \in Written' <=> r \notin pending' /\ \E p \in 1..phase' : r \in SeedPhases[p]
    BY InWritten, Zenon DEF Written
  <2>4. \A r : (\E p \in 1..phase : r \in SeedPhases[p]) => r \in Written
    BY <2>1, InWritten, Zenon DEF Written
  <2>5. Written' \subseteq Written
    BY <2>1, <2>2, <2>3, <2>4, Zenon
  <2> QED
    BY <1>0, <2>1, <2>5, Zenon DEF Prepared
<1>4. CASE Upserted
  <2>1. /\ entry = "seed" /\ entry' = "seed" /\ migrated' = migrated /\ phase' = phase
        /\ \E r \in pending : rows' = rows \cup {r} /\ pending' = pending \ {r}
    BY <1>4, Zenon DEF Upserted
  <2>2. Written \subseteq rows
    BY <2>1, Zenon DEF Prepared
  <2>3. PICK r \in pending : rows' = rows \cup {r} /\ pending' = pending \ {r}
    BY <2>1
  <2>4. Written' \subseteq Written \cup {r}
    BY <2>1, <2>3, InWritten, Zenon DEF Written
  <2>5. Written' \subseteq rows'
    BY <2>2, <2>3, <2>4, Zenon
  <2> QED
    BY <1>0, <2>1, <2>5, Zenon DEF Prepared
<1>5. CASE SeedCompletes
  <2>1. /\ entry = "seed" /\ entry' \in {"done", "serve"} /\ migrated' = migrated /\ rows' = rows
        /\ phase = 6 /\ pending = {}
    BY <1>5, Zenon DEF SeedCompletes, Enter
  <2>2. rows = SeedRows
    BY <1>0, <2>1, WrittenPhases, Zenon DEF Prepared
  <2> QED
    BY <1>0, <2>1, <2>2, Zenon DEF Prepared
<1>6. CASE /\ migrated' = migrated /\ rows' = rows /\ phase' = phase /\ pending' = pending
           /\ entry' = entry \/ entry' = "down"
  <2>1. Written' = Written
    BY <1>6 DEF Written
  <2> QED
    BY <1>0, <1>6, <2>1, Zenon DEF Prepared
<1> QED
  BY <1>1, <1>2, <1>3, <1>4, <1>5, <1>6
  DEF Next, main, vars, boot, BootFails, Enter, ApiStarts, ApiCrashes, Connects, Requests, Responded,
      HangsUp, HandlerEnds, ConnBecomes, StopSent, StopSentDuringBoot, Forwarded, ApiCloses,
      NothingToStop, Drained, Disconnected, TimesOut, ApiGone, Pm2Exits, EntryExits, Killed, Tick,
      Redeployed

(* No API serves, and no task reports success, over a seed or a schema     *)
(* that is not there, however boots were cut short and repeated.           *)
THEOREM PreparedFirst == Spec => []PreparedBeforeServing
<1>1. TypeOK /\ Prepared => PreparedBeforeServing
  BY Zenon DEF TypeOK, Prepared, PreparedBeforeServing
<1> QED
  BY <1>1, TypeInit, TypeStep, PreparedInit, PreparedStep, PTL DEF Spec

------------------------------------------------------------------------------
(* The API disconnects when no client waits for it any more.               *)
Quiet == api = "disconnecting" => \A c \in Conns : conns[c] \in {"none", "orphan"}

LEMMA QuietStep == TypeOK /\ Quiet /\ [Next]_vars => Quiet'
<1> SUFFICES ASSUME TypeOK, Quiet, [Next]_vars, api' = "disconnecting",
                    NEW c \in Conns
             PROVE  conns'[c] \in {"none", "orphan"}
  BY DEF Quiet
<1>1. CASE Drained
  BY <1>1 DEF Drained
<1>2. CASE \E d \in Conns : Connects(d) \/ Requests(d) \/ Responded(d) \/ HangsUp(d) \/ HandlerEnds(d)
  <2>1. PICK d \in Conns : HandlerEnds(d) /\ api = "disconnecting"
    BY <1>2 DEF Connects, Requests, Responded, HangsUp, HandlerEnds, ConnBecomes
  <2> QED
    BY <2>1 DEF HandlerEnds, ConnBecomes, Quiet, TypeOK
<1>3. CASE api' = api /\ conns' = conns
  BY <1>3 DEF Quiet
<1> QED
  BY <1>1, <1>2, <1>3
  DEF Next, main, vars, Boot, Migrated, SeedPhaseStarts, Upserted, SeedCompletes, BootFails,
      ApiStarts, ApiCrashes, StopSent, StopSentDuringBoot, Forwarded, ApiCloses, NothingToStop,
      Disconnected, TimesOut, ApiGone, Pm2Exits, EntryExits, Killed, Tick, Redeployed

(* On ECS the requests whose clients wait are not cut before the limit of  *)
(* the API, except by a crash.                                             *)
THEOREM NotCutBefore == Spec => CutOnlyAtLimit
<1>1. TypeOK /\ OnTime /\ Quiet /\ [Next]_vars =>
        (deployment.platform = "ecs" =>
          \A c \in Conns : conns[c] = "waiting" /\ conns'[c] = "none" =>
            LimitReached \/ failures' > failures)
  <2> SUFFICES ASSUME TypeOK, OnTime, Quiet, [Next]_vars, deployment.platform = "ecs",
                      NEW c \in Conns, conns[c] = "waiting", conns'[c] = "none"
               PROVE  LimitReached \/ failures' > failures
    OBVIOUS
  <2>0. conns \in [Conns -> {"none", "waiting", "idle", "orphan"}]
    BY DEF TypeOK
  <2>1. ~ Killed
    BY NoKill, Zenon DEF Killed
  <2>2. conns' # conns
    OBVIOUS
  <2>3. CASE ApiCrashes
    <3>1. failures \in Nat /\ failures' = failures + 1
      BY <2>3, ContainerAssumption DEF ApiCrashes, Fails, TypeOK
    <3> QED
      BY <3>1
  <2>4. CASE \E d \in Conns : Connects(d) \/ Requests(d) \/ Responded(d) \/ HangsUp(d) \/ HandlerEnds(d)
    <3>1. PICK d \in Conns : Connects(d) \/ Requests(d) \/ Responded(d) \/ HangsUp(d) \/ HandlerEnds(d)
      BY <2>4
    <3>2. d = c
      BY <2>0, <3>1 DEF Connects, Requests, Responded, HangsUp, HandlerEnds, ConnBecomes
    <3> QED
      BY <2>0, <3>1, <3>2 DEF Connects, Requests, Responded, HangsUp, HandlerEnds, ConnBecomes
  <2>5. CASE ApiCloses
    BY <2>0, <2>5 DEF ApiCloses
  <2>6. CASE Disconnected
    BY <2>6 DEF Disconnected, Quiet
  <2>7. CASE TimesOut
    BY <2>7 DEF TimesOut
  <2> QED
    BY <2>1, <2>2, <2>3, <2>4, <2>5, <2>6, <2>7
    DEF Next, main, vars, Boot, Migrated, SeedPhaseStarts, Upserted, SeedCompletes, BootFails,
        ApiStarts, StopSent, StopSentDuringBoot, Forwarded, NothingToStop, Drained, Pm2Exits,
        EntryExits, Tick, Redeployed
<1>2. Init => Quiet
  BY DEF Init, Quiet
<1> QED
  BY <1>1, <1>2, TypeInit, TypeStep, OnTimeInit, OnTimeStep, QuietStep, PTL DEF Spec, CutOnlyAtLimit

==============================================================================

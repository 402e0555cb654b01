------------------------------ MODULE SelfUpdate ------------------------------
(***************************************************************************)
(* deploy/self-update.sh and its timer: fetch the branch, build an image   *)
(* of its head, replace the container, wait for its health check, and go   *)
(* back to the image before if it fails. systemd runs one of them at a     *)
(* time; any may be killed, by a stop or a reboot.                         *)
(*                                                                         *)
(* An image is the commit it is built from, and a container is made of an  *)
(* image and of the docker-compose.yml of a commit: of the one last copied *)
(* to APP_DIR, so that the way back runs the old image with the new file.  *)
(* What a commit is worth is drawn at the start:                           *)
(*   "good"                                                                *)
(*   "sick"     its image builds, and is never healthy                     *)
(*   "broken"   its image does not build                                   *)
(*   "spoiled"  no server is healthy with its compose file (a health       *)
(*              check, a user or a volume that is wrong), its own or       *)
(*              another, though docker compose accepts it                  *)
(*   "refused"  docker compose rejects its file and touches no container   *)
(***************************************************************************)
EXTENDS Naturals

CONSTANTS Commits,
          Nothing,    \* no container, image or recorded commit
          MaxPushes,  \* bound: how often the branch moves
          MaxKills,   \* bound: how often a run is killed
          MaxFaults   \* bound: what else goes wrong, through no fault of a commit

ASSUME SelfUpdateAssumption ==
    /\ Nothing \notin Commits
    /\ MaxPushes \in Nat /\ MaxKills \in Nat /\ MaxFaults \in Nat

Worths == {"good", "sick", "broken", "spoiled", "refused"}

Container == [image : Commits, file : Commits, health : {"starting", "healthy", "unhealthy"}]

ASSUME NoContainer == Nothing \notin Container

\* The commands of the script, by what they do.
Places == {"compare", "inspect", "build", "tag", "up", "wait",
           "back", "upBack", "waitBack", "record", "recording"}

\* A run of the script with its variables, and two history fields: CONTAINER was healthy
\* when it was inspected; something else than the commit went wrong since the run began.
Idle == [at |-> "idle"]

Run == [at : Places, sha : Commits, old : Commits \cup {Nothing}, had : BOOLEAN, unlucky : BOOLEAN]

VARIABLES
    worth,      \* worth[c]
    head,       \* origin/BRANCH
    recorded,   \* STATE_FILE
    latest,     \* the image tagged IMAGE:latest
    container,  \* CONTAINER, or Nothing
    run,        \* the run in progress, or Idle
    pushes, kills, faults,
    seen,       \* history: the commits that were the head
    rewound     \* history: the head went back to one of them

branchVars == <<worth, head, pushes, seen, rewound>>
updateVars == <<branchVars, recorded, latest, container, run, kills, faults>>

Image == IF container = Nothing THEN Nothing ELSE container.image

Healthy == container # Nothing /\ container.health = "healthy"

\* A server that was installed by hand, or none.
UpdateInit ==
    /\ worth \in [Commits -> Worths]
    /\ head \in Commits /\ recorded = Nothing
    /\ \/ container = Nothing /\ latest = Nothing
       \/ \E c \in Commits : /\ worth[c] = "good" /\ latest = c
                             /\ container = [image |-> c, file |-> c, health |-> "healthy"]
    /\ run = Idle
    /\ pushes = 0 /\ kills = 0 /\ faults = 0
    /\ seen = {head} /\ rewound = FALSE

-------------------------------------------------------------------------------
(* The script. A command that fails ends it (set -e). *)

Onto(r, place) == IF place = "idle" THEN Idle ELSE [r EXCEPT !.at = place]

Go(from, to) ==
    /\ run.at = from
    /\ run' = Onto(run, to)
    /\ UNCHANGED faults

\* The same, though something outside the commit failed: the network, the disk, the host.
GoUnlucky(from, to) ==
    /\ run.at = from /\ faults < MaxFaults
    /\ run' = Onto([run EXCEPT !.unlucky = TRUE], to)
    /\ faults' = faults + 1

\* The timer fires every two minutes. A fetch that fails ends the run at once.
Fetch ==
    /\ run = Idle
    /\ run' = [at |-> "compare", sha |-> head, old |-> Nothing, had |-> FALSE, unlucky |-> FALSE]
    /\ UNCHANGED <<branchVars, recorded, latest, container, kills, faults>>

\* (a plausible bug) The health of the container is not looked at.
CompareCommitsOnly ==
    /\ run.at = "compare"
    /\ Go("compare", IF run.sha # recorded THEN "inspect" ELSE "idle")
    /\ UNCHANGED <<branchVars, recorded, latest, container, kills>>

\* Nothing to do: the head is recorded as deployed and CONTAINER is healthy.
Compare ==
    /\ run.at = "compare"
    /\ Go("compare", IF run.sha # recorded \/ ~Healthy THEN "inspect" ELSE "idle")
    /\ UNCHANGED <<branchVars, recorded, latest, container, kills>>

\* The head is checked out and copied to APP_DIR, and the image in use noted.
Inspect ==
    /\ run.at = "inspect"
    /\ run' = [run EXCEPT !.at = "build", !.old = Image, !.had = Healthy]
    /\ UNCHANGED <<branchVars, recorded, latest, container, kills, faults>>

Build ==
    /\ run.at = "build"
    /\ \/ worth[run.sha] # "broken" /\ Go("build", "tag")
       \/ worth[run.sha] = "broken" /\ Go("build", "idle")
       \/ GoUnlucky("build", "idle")
    /\ UNCHANGED <<branchVars, recorded, latest, container, kills>>

Tag ==
    /\ Go("tag", "up")
    /\ latest' = run.sha
    /\ UNCHANGED <<branchVars, recorded, container, kills>>

\* docker compose up --force-recreate: the container is replaced, by whatever is tagged
\* latest and with the compose file that is in APP_DIR, or compose stops before it has
\* touched anything.
Swap(from, done, failed) ==
    /\ run.at = from
    /\ \/ /\ worth[run.sha] # "refused" /\ Go(from, done)
          /\ container' = [image |-> latest, file |-> run.sha, health |-> "starting"]
       \/ /\ worth[run.sha] = "refused" /\ Go(from, failed)
          /\ UNCHANGED container
       \/ GoUnlucky(from, failed) /\ UNCHANGED container
    /\ UNCHANGED <<branchVars, recorded, latest, kills>>

\* --wait: until the container is healthy, or unhealthy, or 90 seconds have passed.
Wait(from, done, failed) ==
    /\ run.at = from
    /\ \/ Healthy /\ Go(from, done)
       \/ container.health = "unhealthy" /\ Go(from, failed)
       \/ container.health = "starting" /\ GoUnlucky(from, failed)
    /\ UNCHANGED <<branchVars, recorded, latest, container, kills>>

\* (a plausible bug) docker compose up is not told to wait.
UpDetached == Swap("up", "record", "back")

Up == Swap("up", "wait", "back")

Await == Wait("wait", "record", "back")

\* (a plausible bug) The container is replaced again, by what is tagged already.
RollBackUntagged ==
    /\ run.at = "back"
    /\ Go("back", IF run.old # Nothing THEN "upBack" ELSE "idle")
    /\ UNCHANGED <<branchVars, recorded, latest, container, kills>>

\* Without a container before, there is nothing to go back to.
RollBack ==
    /\ run.at = "back"
    /\ \/ run.old # Nothing /\ Go("back", "upBack") /\ latest' = run.old
       \/ run.old = Nothing /\ Go("back", "idle") /\ UNCHANGED latest
    /\ UNCHANGED <<branchVars, recorded, container, kills>>

UpBack == Swap("upBack", "waitBack", "idle")

AwaitBack == Wait("waitBack", "idle", "idle")

\* printf > STATE_FILE: the file is emptied, and then written.
Record ==
    /\ Go("record", "recording")
    /\ recorded' = Nothing
    /\ UNCHANGED <<branchVars, latest, container, kills>>

\* What follows removes images that are out of use.
RecordEnds ==
    /\ Go("recording", "idle")
    /\ recorded' = run.sha
    /\ UNCHANGED <<branchVars, latest, container, kills>>

Script == /\ run # Idle
          /\ \/ Compare \/ Inspect \/ Build \/ Tag \/ Up \/ Await
             \/ RollBack \/ UpBack \/ AwaitBack \/ Record \/ RecordEnds

-------------------------------------------------------------------------------
(* Around it. *)

\* A server becomes healthy if neither its image nor its compose file is in the way.
Sound(c) == worth[c.image] \in {"good", "spoiled"} /\ worth[c.file] # "spoiled"

\* docker's health check, after a start.
Probe ==
    /\ container # Nothing /\ container.health = "starting"
    /\ container' =
         [container EXCEPT !.health = IF Sound(container) THEN "healthy" ELSE "unhealthy"]
    /\ UNCHANGED <<branchVars, recorded, latest, run, kills, faults>>

\* A healthy server hangs, or dies and is started again (restart: unless-stopped).
Break ==
    /\ Healthy /\ faults < MaxFaults
    /\ faults' = faults + 1
    /\ container' \in {[container EXCEPT !.health = h] : h \in {"starting", "unhealthy"}}
    /\ run' = IF run = Idle THEN Idle ELSE [run EXCEPT !.unlucky = TRUE]
    /\ UNCHANGED <<branchVars, recorded, latest, kills>>

\* The run is stopped, or the host restarts and the container with it. If docker compose
\* was replacing the container, the old one may be gone and the new one not there yet.
Kill ==
    /\ run # Idle /\ kills < MaxKills
    /\ run' = Idle /\ kills' = kills + 1
    /\ \/ UNCHANGED container
       \/ container # Nothing /\ container' = [container EXCEPT !.health = "starting"]
       \/ run.at \in {"up", "upBack"} /\ container' = Nothing
    /\ UNCHANGED <<branchVars, recorded, latest, faults>>

Push(c) ==
    /\ c # head /\ pushes < MaxPushes
    /\ head' = c /\ pushes' = pushes + 1
    /\ seen' = seen \cup {c} /\ rewound' = (rewound \/ c \in seen)
    /\ UNCHANGED <<worth, recorded, latest, container, run, kills, faults>>

UpdateNext == Fetch \/ Script \/ Probe \/ Break \/ Kill \/ \E c \in Commits : Push(c)

\* The timer keeps firing, commands end (docker compose after 90 seconds), docker probes.
UpdateFairness == WF_updateVars(Fetch) /\ WF_updateVars(Script) /\ WF_updateVars(Probe)

UpdateSpec == UpdateInit /\ [][UpdateNext]_updateVars /\ UpdateFairness

-------------------------------------------------------------------------------

UpdateTypeOK ==
    /\ worth \in [Commits -> Worths] /\ head \in Commits /\ seen \subseteq Commits
    /\ recorded \in Commits \cup {Nothing} /\ latest \in Commits \cup {Nothing}
    /\ container \in Container \cup {Nothing}
    /\ run \in Run \cup {Idle}
    /\ pushes \in 0..MaxPushes /\ kills \in 0..MaxKills /\ faults \in 0..MaxFaults
    /\ rewound \in BOOLEAN

\* A run that found a healthy server leaves a healthy server: the new one, or the one
\* before (README.md:149, "roll back automatically otherwise"). The exceptions are a run
\* that is killed, one in which something else than its commit goes wrong, and one whose
\* commit spoils the compose file: the way back takes the old image, and not the old file.
KeepsServer ==
    [][ run # Idle /\ run' = Idle /\ kills' = kills /\ faults' = faults
        /\ run.at \notin {"compare", "inspect"} /\ run.had /\ ~run.unlucky
        /\ worth[run.sha] # "spoiled"
          => Healthy' ]_updateVars

\* Containers are swapped only when the health check passes (README.md:149, DEPLOY.md:106):
\* a healthy server gives way to no commit that never becomes healthy.
SwapsOnlyWhenHealthy ==
    [][ Healthy /\ container' # Nothing /\ container'.image # container.image
          => worth[container'.image] = "good" ]_updateVars

\* Only a commit whose container became healthy is recorded as deployed (DEPLOY.md:106),
\* so that any other is tried again: whatever was pushed, killed or failed in between.
RecordedWasHealthy == recorded # Nothing => worth[recorded] = "good"

\* If the branch stays at a good commit, that commit is deployed with its compose file and
\* recorded, and stays so, whatever was killed or failed before, and whatever the commits
\* before it were worth (self-update.sh:32, self-update.sh:35, self-update.sh:52). Only
\* after the branch went back to a commit it had before may the server be another's: that
\* commit may be recorded still, as a killed run has replaced the container and not the
\* record. A healthy server it is, even so.
Deployed(c) ==
    Healthy /\ (rewound \/ (container.image = c /\ container.file = c /\ recorded = c))

Converges ==
    \A c \in Commits : <>[](head = c /\ worth[c] = "good") => <>[]Deployed(c)

===============================================================================

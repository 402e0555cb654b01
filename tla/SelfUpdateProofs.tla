--------------------------- MODULE SelfUpdateProofs ---------------------------
(***************************************************************************)
(* What a run of the updater keeps, for any commits, pushes, kills and     *)
(* faults.                                                                 *)
(***************************************************************************)
EXTENDS MCHost, ExportsProofs, TLAPS

\* After docker tag there is an image for docker compose to start.
LatestKnown ==
    run.at \in {"up", "wait", "back", "upBack", "waitBack", "record", "recording"}
        => latest \in Commits

\* A healthy server has nothing in its image or its compose file against it.
HealthyIsSound == Healthy => Sound(container)

Images == {c \in Commits : worth[c] \in {"good", "spoiled"}}

\* How far the run has come, and what it has kept for the way back.
Kept ==
    run.at # "idle" /\ run.had = TRUE /\ run.unlucky = FALSE =>
        /\ run.at \in {"build", "tag", "up"} => Healthy /\ run.old = container.image
        /\ run.at \in {"wait", "back", "upBack", "waitBack"} =>
              run.old \in Images
        /\ run.at = "wait" => worth[run.sha] # "refused"
        /\ run.at \in {"back", "upBack"} /\ worth[run.sha] = "refused" => Healthy
        /\ run.at = "upBack" => latest = run.old
        /\ run.at = "waitBack" /\ worth[run.sha] # "spoiled" =>
              /\ container # Nothing /\ container.image = run.old /\ container.file = run.sha
              /\ container.health # "unhealthy"
        /\ run.at \in {"record", "recording"} => Healthy
        /\ run.at \notin {"compare", "inspect"}

UpdateInv == UpdateTypeOK /\ LatestKnown /\ HealthyIsSound /\ Kept

-------------------------------------------------------------------------------
(* Runs and containers. *)

LEMMA RunOrIdle ==
    ASSUME UpdateTypeOK
    PROVE  (run.at # "idle" => run \in Run) /\ (run = Idle <=> run.at = "idle")
BY DEF UpdateTypeOK, Run, Idle, Places

\* The new value of run when a step of the script is done.
LEMMA Moves ==
    ASSUME NEW r \in Run, NEW place \in Places \cup {"idle"}
    PROVE  /\ Onto(r, place) \in Run \cup {Idle} /\ Onto(r, place).at = place
           /\ place # "idle" =>
                 /\ Onto(r, place) \in Run
                 /\ Onto(r, place).sha = r.sha /\ Onto(r, place).old = r.old
                 /\ Onto(r, place).had = r.had /\ Onto(r, place).unlucky = r.unlucky
BY DEF Onto, Run, Idle, Places

LEMMA GetsUnlucky ==
    ASSUME NEW r \in Run
    PROVE  /\ [r EXCEPT !.unlucky = TRUE] \in Run
           /\ [r EXCEPT !.unlucky = TRUE].unlucky = TRUE
BY DEF Run

LEMMA Goes ==
    ASSUME UpdateTypeOK, NEW from \in Places, NEW to \in Places \cup {"idle"}, Go(from, to)
    PROVE  /\ run \in Run /\ run.at = from /\ faults' = faults
           /\ run' \in Run \cup {Idle} /\ run'.at = to
           /\ to # "idle" => /\ run' \in Run /\ run'.sha = run.sha /\ run'.old = run.old
                             /\ run'.had = run.had /\ run'.unlucky = run.unlucky
<1>1. run.at = from /\ from # "idle" /\ run' = Onto(run, to) /\ faults' = faults
  BY DEF Go, Places
<1>2. run \in Run
  BY <1>1, RunOrIdle
<1> QED
  BY <1>1, <1>2, Moves

LEMMA GoesUnlucky ==
    ASSUME UpdateTypeOK, NEW from \in Places, NEW to \in Places \cup {"idle"},
           GoUnlucky(from, to)
    PROVE  /\ run \in Run /\ run.at = from /\ faults' = faults + 1 /\ faults' \in 0..MaxFaults
           /\ run' \in Run \cup {Idle} /\ run'.at = to
           /\ to # "idle" => run' \in Run /\ run'.sha = run.sha /\ run'.unlucky = TRUE
<1>1. /\ run.at = from /\ from # "idle" /\ run' = Onto([run EXCEPT !.unlucky = TRUE], to)
      /\ faults' = faults + 1 /\ faults < MaxFaults
  BY DEF GoUnlucky, Places
<1>2. run \in Run
  BY <1>1, RunOrIdle
<1>3. [run EXCEPT !.unlucky = TRUE] \in Run /\ [run EXCEPT !.unlucky = TRUE].unlucky = TRUE
      /\ [run EXCEPT !.unlucky = TRUE].sha = run.sha
  BY <1>2, GetsUnlucky DEF Run
<1>4. faults' \in 0..MaxFaults
  BY <1>1, SelfUpdateAssumption DEF UpdateTypeOK
<1> QED
  BY <1>1, <1>2, <1>3, <1>4, Moves

-------------------------------------------------------------------------------
(* Every step keeps the invariant. *)

LEMMA InitInv == ASSUME UpdateInit PROVE UpdateInv
<1>1. run = Idle /\ run.at = "idle"
  BY DEF UpdateInit, Idle
<1>2. UpdateTypeOK
  <2>1. container \in Container \cup {Nothing} /\ latest \in Commits \cup {Nothing}
    BY DEF UpdateInit, Container
  <2>2. pushes \in 0..MaxPushes /\ kills \in 0..MaxKills /\ faults \in 0..MaxFaults
    BY SelfUpdateAssumption DEF UpdateInit
  <2> QED
    BY <1>1, <2>1, <2>2 DEF UpdateInit, UpdateTypeOK
<1>3. HealthyIsSound
  BY DEF UpdateInit, HealthyIsSound, Healthy, Sound, Images
<1> QED
  BY <1>1, <1>2, <1>3 DEF UpdateInv, LatestKnown, Kept

LEMMA FetchInv == ASSUME UpdateInv, Fetch PROVE UpdateInv'
<1>1. run' \in Run /\ run'.at = "compare" /\ run'.had = FALSE
  BY DEF Fetch, UpdateInv, UpdateTypeOK, Run, Places
<1> QED
  BY <1>1 DEF Fetch, UpdateInv, UpdateTypeOK, LatestKnown, HealthyIsSound, Kept, Healthy, Sound, Images, branchVars

LEMMA CompareInv == ASSUME UpdateInv, Compare PROVE UpdateInv'
<1>1. CASE Go("compare", "inspect")
  <2>1. run' \in Run /\ run'.at = "inspect" /\ run'.had = run.had /\ run.at = "compare"
        /\ run'.unlucky = run.unlucky /\ faults' = faults
    BY <1>1, Goes DEF UpdateInv, Places
  <2> QED
    BY <2>1 DEF Compare, UpdateInv, UpdateTypeOK, LatestKnown, HealthyIsSound, Kept, Healthy, Sound, Images, branchVars
<1>2. CASE Go("compare", "idle")
  <2>1. run' \in Run \cup {Idle} /\ run'.at = "idle" /\ faults' = faults
    BY <1>2, Goes DEF UpdateInv, Places
  <2> QED
    BY <2>1 DEF Compare, UpdateInv, UpdateTypeOK, LatestKnown, HealthyIsSound, Kept, Healthy, Sound, Images, branchVars
<1> QED
  BY <1>1, <1>2 DEF Compare

LEMMA InspectInv == ASSUME UpdateInv, Inspect PROVE UpdateInv'
<1>1. run \in Run /\ run.at = "inspect"
  BY RunOrIdle DEF Inspect, UpdateInv
<1>2. Image \in Commits \cup {Nothing} /\ (Healthy => Image = container.image)
      /\ Healthy \in BOOLEAN
  BY DEF Image, Healthy, UpdateInv, UpdateTypeOK, Container
<1>3. run' \in Run /\ run'.at = "build" /\ run'.old = Image /\ run'.had = Healthy
  BY <1>1, <1>2 DEF Inspect, Run, Places
<1> QED
  BY <1>2, <1>3 DEF Inspect, UpdateInv, UpdateTypeOK, LatestKnown, HealthyIsSound, Kept, Healthy, Sound, Images, branchVars

LEMMA BuildInv == ASSUME UpdateInv, Build PROVE UpdateInv'
<1>1. CASE Go("build", "tag")
  <2>1. run \in Run /\ run.at = "build" /\ faults' = faults
        /\ run' \in Run /\ run'.at = "tag" /\ run'.sha = run.sha /\ run'.old = run.old
        /\ run'.had = run.had /\ run'.unlucky = run.unlucky
    BY <1>1, Goes DEF UpdateInv, Places
  <2> QED
    BY <2>1 DEF Build, UpdateInv, UpdateTypeOK, LatestKnown, HealthyIsSound, Kept, Healthy, Sound, Images, branchVars
<1>2. CASE Go("build", "idle")
  <2>1. run \in Run /\ run.at = "build" /\ faults' = faults
        /\ run' \in Run \cup {Idle} /\ run'.at = "idle"
    BY <1>2, Goes DEF UpdateInv, Places
  <2> QED
    BY <2>1 DEF Build, UpdateInv, UpdateTypeOK, LatestKnown, HealthyIsSound, Kept, Healthy, Sound, Images, branchVars
<1>3. CASE GoUnlucky("build", "idle")
  <2>1. run.at = "build" /\ faults' \in 0..MaxFaults
        /\ run' \in Run \cup {Idle} /\ run'.at = "idle"
    <3>1. UpdateTypeOK /\ "build" \in Places /\ "idle" \in Places \cup {"idle"}
      BY DEF UpdateInv, Places
    <3> QED
      BY <1>3, <3>1, GoesUnlucky
  <2> QED
    BY <2>1 DEF Build, UpdateInv, UpdateTypeOK, LatestKnown, HealthyIsSound, Kept, Healthy, Sound, Images, branchVars
<1> QED
  BY <1>1, <1>2, <1>3 DEF Build

LEMMA TagInv == ASSUME UpdateInv, Tag PROVE UpdateInv'
<1>1. Go("tag", "up")
  BY DEF Tag
<1> QED
  <2>1. run \in Run /\ run.at = "tag" /\ faults' = faults
        /\ run' \in Run /\ run'.at = "up" /\ run'.sha = run.sha /\ run'.old = run.old
        /\ run'.had = run.had /\ run'.unlucky = run.unlucky
    BY <1>1, Goes DEF UpdateInv, Places
  <2> QED
    BY <2>1 DEF Tag, Run, UpdateInv, UpdateTypeOK, LatestKnown, HealthyIsSound, Kept, Healthy, Sound, Images, branchVars

LEMMA UpInv == ASSUME UpdateInv, Up PROVE UpdateInv'
<1>1. CASE /\ worth[run.sha] # "refused" /\ Go("up", "wait")
           /\ container' = [image |-> latest, file |-> run.sha, health |-> "starting"]
  <2>1. run \in Run /\ run.at = "up" /\ faults' = faults
        /\ run' \in Run /\ run'.at = "wait" /\ run'.sha = run.sha /\ run'.old = run.old
        /\ run'.had = run.had /\ run'.unlucky = run.unlucky
    BY <1>1, Goes DEF UpdateInv, Places
  <2>2. container' \in Container /\ container' # Nothing
    BY <1>1, <2>1, NoContainer DEF UpdateInv, LatestKnown, Container, Run
  <2>3. container'.image = latest /\ container'.file = run.sha
        /\ container'.health = "starting"
    BY <1>1
  <2>4. UpdateTypeOK'
    BY <2>1, <2>2 DEF Up, Swap, UpdateInv, UpdateTypeOK, branchVars
  <2>5. LatestKnown' /\ HealthyIsSound'
    BY <2>1, <2>3 DEF Up, Swap, UpdateInv, LatestKnown, HealthyIsSound, Healthy
  <2>6. Kept'
    BY <1>1, <2>1, <2>2, <2>3
       DEF Up, Swap, UpdateInv, UpdateTypeOK, Container, Kept, HealthyIsSound, Healthy, branchVars, Sound, Images
  <2> QED
    BY <2>4, <2>5, <2>6 DEF UpdateInv
<1>2. CASE worth[run.sha] = "refused" /\ Go("up", "back") /\ UNCHANGED container
  <2>1. run \in Run /\ run.at = "up" /\ faults' = faults
        /\ run' \in Run /\ run'.at = "back" /\ run'.sha = run.sha /\ run'.old = run.old
        /\ run'.had = run.had /\ run'.unlucky = run.unlucky
    BY <1>2, Goes DEF UpdateInv, Places
  <2>2. UpdateTypeOK' /\ LatestKnown' /\ HealthyIsSound'
    BY <1>2, <2>1 DEF Up, Swap, UpdateInv, UpdateTypeOK, LatestKnown, HealthyIsSound, Healthy, branchVars, Sound, Images
  <2>3. Kept'
    BY <1>2, <2>1 DEF Up, Swap, UpdateInv, UpdateTypeOK, Kept, HealthyIsSound, Healthy, Container, branchVars, Sound, Images
  <2> QED
    BY <2>2, <2>3 DEF UpdateInv
<1>3. CASE GoUnlucky("up", "back") /\ UNCHANGED container
  <2>1. run.at = "up" /\ faults' \in 0..MaxFaults
        /\ run' \in Run /\ run'.at = "back" /\ run'.unlucky = TRUE
    <3>1. UpdateTypeOK /\ "up" \in Places /\ "back" \in Places \cup {"idle"}
      BY DEF UpdateInv, Places
    <3> QED
      BY <1>3, <3>1, GoesUnlucky
  <2> QED
    BY <1>3, <2>1 DEF Up, Swap, UpdateInv, UpdateTypeOK, LatestKnown, HealthyIsSound, Kept, Healthy, Sound, Images, branchVars
<1> QED
  BY <1>1, <1>2, <1>3 DEF Up, Swap

LEMMA AwaitInv == ASSUME UpdateInv, Await PROVE UpdateInv'
<1>1. CASE Healthy /\ Go("wait", "record")
  <2>1. run \in Run /\ run.at = "wait" /\ faults' = faults
        /\ run' \in Run /\ run'.at = "record" /\ run'.sha = run.sha /\ run'.old = run.old
        /\ run'.had = run.had /\ run'.unlucky = run.unlucky
    BY <1>1, Goes DEF UpdateInv, Places
  <2> QED
    BY <1>1, <2>1 DEF Await, Wait, UpdateInv, UpdateTypeOK, LatestKnown, HealthyIsSound, Kept, Healthy, Sound, Images, branchVars
<1>2. CASE container.health = "unhealthy" /\ Go("wait", "back")
  <2>1. run \in Run /\ run.at = "wait" /\ faults' = faults
        /\ run' \in Run /\ run'.at = "back" /\ run'.sha = run.sha /\ run'.old = run.old
        /\ run'.had = run.had /\ run'.unlucky = run.unlucky
    BY <1>2, Goes DEF UpdateInv, Places
  <2> QED
    BY <1>2, <2>1 DEF Await, Wait, UpdateInv, UpdateTypeOK, LatestKnown, HealthyIsSound, Kept, Healthy, Sound, Images, branchVars
<1>3. CASE GoUnlucky("wait", "back")
  <2>1. run.at = "wait" /\ faults' \in 0..MaxFaults
        /\ run' \in Run /\ run'.at = "back" /\ run'.unlucky = TRUE
    <3>1. UpdateTypeOK /\ "wait" \in Places /\ "back" \in Places \cup {"idle"}
      BY DEF UpdateInv, Places
    <3> QED
      BY <1>3, <3>1, GoesUnlucky
  <2> QED
    BY <1>3, <2>1 DEF Await, Wait, UpdateInv, UpdateTypeOK, LatestKnown, HealthyIsSound, Kept, Healthy, Sound, Images, branchVars
<1> QED
  BY <1>1, <1>2, <1>3 DEF Await, Wait

LEMMA RollBackInv == ASSUME UpdateInv, RollBack PROVE UpdateInv'
<1>1. CASE run.old # Nothing /\ Go("back", "upBack") /\ latest' = run.old
  <2>1. run \in Run /\ run.at = "back" /\ faults' = faults
        /\ run' \in Run /\ run'.at = "upBack" /\ run'.sha = run.sha /\ run'.old = run.old
        /\ run'.had = run.had /\ run'.unlucky = run.unlucky
    BY <1>1, Goes DEF UpdateInv, Places
  <2>2. run.old \in Commits
    BY <1>1, <2>1 DEF Run
  <2> QED
    BY <1>1, <2>1, <2>2 DEF RollBack, UpdateInv, UpdateTypeOK, LatestKnown, HealthyIsSound, Kept, Healthy, Sound, Images, branchVars
<1>2. CASE Go("back", "idle") /\ UNCHANGED latest
  <2>1. run \in Run /\ run.at = "back" /\ faults' = faults
        /\ run' \in Run \cup {Idle} /\ run'.at = "idle"
    BY <1>2, Goes DEF UpdateInv, Places
  <2> QED
    BY <1>2, <2>1 DEF RollBack, UpdateInv, UpdateTypeOK, LatestKnown, HealthyIsSound, Kept, Healthy, Sound, Images, branchVars
<1> QED
  BY <1>1, <1>2 DEF RollBack

LEMMA UpBackInv == ASSUME UpdateInv, UpBack PROVE UpdateInv'
<1>1. CASE /\ worth[run.sha] # "refused" /\ Go("upBack", "waitBack")
           /\ container' = [image |-> latest, file |-> run.sha, health |-> "starting"]
  <2>1. run \in Run /\ run.at = "upBack" /\ faults' = faults
        /\ run' \in Run /\ run'.at = "waitBack" /\ run'.sha = run.sha /\ run'.old = run.old
        /\ run'.had = run.had /\ run'.unlucky = run.unlucky
    BY <1>1, Goes DEF UpdateInv, Places
  <2>2. container' \in Container /\ container' # Nothing
    BY <1>1, <2>1, NoContainer DEF UpdateInv, LatestKnown, Container, Run
  <2>3. container'.image = latest /\ container'.file = run.sha
        /\ container'.health = "starting"
    BY <1>1
  <2>4. UpdateTypeOK'
    BY <2>1, <2>2 DEF UpBack, Swap, UpdateInv, UpdateTypeOK, branchVars
  <2>5. LatestKnown' /\ HealthyIsSound'
    BY <2>1, <2>3 DEF UpBack, Swap, UpdateInv, LatestKnown, HealthyIsSound, Healthy
  <2>6. Kept'
    BY <1>1, <2>1, <2>2, <2>3
       DEF UpBack, Swap, UpdateInv, UpdateTypeOK, Container, Kept, HealthyIsSound, Healthy, branchVars, Sound, Images
  <2> QED
    BY <2>4, <2>5, <2>6 DEF UpdateInv
<1>2. CASE worth[run.sha] = "refused" /\ Go("upBack", "idle") /\ UNCHANGED container
  <2>1. run \in Run /\ run.at = "upBack" /\ faults' = faults
        /\ run' \in Run \cup {Idle} /\ run'.at = "idle"
    BY <1>2, Goes DEF UpdateInv, Places
  <2>2. UpdateTypeOK' /\ LatestKnown' /\ HealthyIsSound'
    BY <1>2, <2>1 DEF UpBack, Swap, UpdateInv, UpdateTypeOK, LatestKnown, HealthyIsSound, Healthy, branchVars, Sound, Images
  <2>3. Kept'
    BY <1>2, <2>1 DEF UpBack, Swap, UpdateInv, UpdateTypeOK, Kept, HealthyIsSound, Healthy, Container, branchVars
  <2> QED
    BY <2>2, <2>3 DEF UpdateInv
<1>3. CASE GoUnlucky("upBack", "idle") /\ UNCHANGED container
  <2>1. run.at = "upBack" /\ faults' \in 0..MaxFaults
        /\ run' \in Run \cup {Idle} /\ run'.at = "idle"
    <3>1. UpdateTypeOK /\ "upBack" \in Places /\ "idle" \in Places \cup {"idle"}
      BY DEF UpdateInv, Places
    <3> QED
      BY <1>3, <3>1, GoesUnlucky
  <2> QED
    BY <1>3, <2>1 DEF UpBack, Swap, UpdateInv, UpdateTypeOK, LatestKnown, HealthyIsSound, Kept, Healthy, Sound, Images, branchVars
<1> QED
  BY <1>1, <1>2, <1>3 DEF UpBack, Swap

LEMMA AwaitBackInv == ASSUME UpdateInv, AwaitBack PROVE UpdateInv'
<1>1. CASE Healthy /\ Go("waitBack", "idle")
  <2>1. run \in Run /\ run.at = "waitBack" /\ faults' = faults
        /\ run' \in Run \cup {Idle} /\ run'.at = "idle"
    BY <1>1, Goes DEF UpdateInv, Places
  <2> QED
    BY <1>1, <2>1 DEF AwaitBack, Wait, UpdateInv, UpdateTypeOK, LatestKnown, HealthyIsSound, Kept, Healthy, Sound, Images, branchVars
<1>2. CASE container.health = "unhealthy" /\ Go("waitBack", "idle")
  <2>1. run \in Run /\ run.at = "waitBack" /\ faults' = faults
        /\ run' \in Run \cup {Idle} /\ run'.at = "idle"
    BY <1>2, Goes DEF UpdateInv, Places
  <2> QED
    BY <1>2, <2>1 DEF AwaitBack, Wait, UpdateInv, UpdateTypeOK, LatestKnown, HealthyIsSound, Kept, Healthy, Sound, Images, branchVars
<1>3. CASE GoUnlucky("waitBack", "idle")
  <2>1. run.at = "waitBack" /\ faults' \in 0..MaxFaults
        /\ run' \in Run \cup {Idle} /\ run'.at = "idle"
    <3>1. UpdateTypeOK /\ "waitBack" \in Places /\ "idle" \in Places \cup {"idle"}
      BY DEF UpdateInv, Places
    <3> QED
      BY <1>3, <3>1, GoesUnlucky
  <2> QED
    BY <1>3, <2>1 DEF AwaitBack, Wait, UpdateInv, UpdateTypeOK, LatestKnown, HealthyIsSound, Kept, Healthy, Sound, Images, branchVars
<1> QED
  BY <1>1, <1>2, <1>3 DEF AwaitBack, Wait

LEMMA RecordInv == ASSUME UpdateInv, Record PROVE UpdateInv'
<1>1. Go("record", "recording")
  BY DEF Record
<1> QED
  <2>1. run \in Run /\ run.at = "record" /\ faults' = faults
        /\ run' \in Run /\ run'.at = "recording" /\ run'.sha = run.sha /\ run'.old = run.old
        /\ run'.had = run.had /\ run'.unlucky = run.unlucky
    BY <1>1, Goes DEF UpdateInv, Places
  <2> QED
    BY <2>1 DEF Record, UpdateInv, UpdateTypeOK, LatestKnown, HealthyIsSound, Kept, Healthy, Sound, Images, branchVars

LEMMA RecordEndsInv == ASSUME UpdateInv, RecordEnds PROVE UpdateInv'
<1>1. Go("recording", "idle")
  BY DEF RecordEnds
<1> QED
  <2>1. run \in Run /\ run.at = "recording" /\ faults' = faults
        /\ run' \in Run \cup {Idle} /\ run'.at = "idle"
    BY <1>1, Goes DEF UpdateInv, Places
  <2>2. recorded' \in Commits
    BY <2>1 DEF RecordEnds, Run
  <2> QED
    BY <2>1, <2>2 DEF RecordEnds, UpdateInv, UpdateTypeOK, LatestKnown, HealthyIsSound, Kept, Healthy, Sound, Images, branchVars

LEMMA ProbeInv == ASSUME UpdateInv, Probe PROVE UpdateInv'
<1>1. /\ container \in Container /\ container.health = "starting"
      /\ container' \in Container
      /\ container'.image = container.image /\ container'.file = container.file
      /\ container'.health = IF Sound(container) THEN "healthy" ELSE "unhealthy"
  BY DEF Probe, UpdateInv, UpdateTypeOK, Container
<1>2. container' # Nothing
  BY <1>1, NoContainer
<1>3. UpdateTypeOK'
  BY <1>1 DEF Probe, UpdateInv, UpdateTypeOK, branchVars
<1>4. LatestKnown' /\ HealthyIsSound'
  BY <1>1 DEF Probe, UpdateInv, LatestKnown, HealthyIsSound, Healthy, branchVars, Sound, Images
<1>5. Kept'
  BY <1>1, <1>2 DEF Probe, UpdateInv, Kept, Healthy, branchVars, Sound, Images
<1> QED
  BY <1>3, <1>4, <1>5 DEF UpdateInv

LEMMA BreakInv == ASSUME UpdateInv, Break PROVE UpdateInv'
<1>1. PICK h \in {"starting", "unhealthy"} : container' = [container EXCEPT !.health = h]
  BY DEF Break
<1>2. container \in Container /\ container' \in Container /\ container'.health = h
  BY <1>1 DEF Break, Healthy, UpdateInv, UpdateTypeOK, Container
<1>3. faults' \in 0..MaxFaults
  BY SelfUpdateAssumption DEF Break, UpdateInv, UpdateTypeOK
<1>4. run' \in Run \cup {Idle} /\ run'.at = run.at
      /\ (run'.at # "idle" => run'.unlucky = TRUE)
  <2>1. CASE run = Idle
    BY <2>1 DEF Break, Idle
  <2>2. CASE run # Idle
    <3>1. run \in Run /\ run' = [run EXCEPT !.unlucky = TRUE]
      BY <2>2, RunOrIdle DEF Break, UpdateInv
    <3> QED
      BY <3>1 DEF Run
  <2> QED
    BY <2>1, <2>2
<1>5. UpdateTypeOK'
  BY <1>2, <1>3, <1>4 DEF Break, UpdateInv, UpdateTypeOK, branchVars
<1>6. LatestKnown' /\ HealthyIsSound' /\ Kept'
  BY <1>2, <1>4 DEF Break, UpdateInv, LatestKnown, HealthyIsSound, Healthy, Kept
<1> QED
  BY <1>5, <1>6 DEF UpdateInv

LEMMA KillInv == ASSUME UpdateInv, Kill PROVE UpdateInv'
<1>1. run' \in Run \cup {Idle} /\ run'.at = "idle"
  BY DEF Kill, Idle
<1>2. kills' \in 0..MaxKills
  BY SelfUpdateAssumption DEF Kill, UpdateInv, UpdateTypeOK
<1>3. container' \in Container \cup {Nothing} /\ (Healthy' => UNCHANGED container)
  <2>1. CASE UNCHANGED container
    BY <2>1 DEF UpdateInv, UpdateTypeOK
  <2>2. CASE container # Nothing /\ container' = [container EXCEPT !.health = "starting"]
    BY <2>2 DEF UpdateInv, UpdateTypeOK, Container, Healthy
  <2>3. CASE container' = Nothing
    BY <2>3 DEF Healthy
  <2> QED
    BY <2>1, <2>2, <2>3 DEF Kill
<1>4. UpdateTypeOK'
  BY <1>1, <1>2, <1>3 DEF Kill, UpdateInv, UpdateTypeOK, branchVars
<1>5. LatestKnown' /\ HealthyIsSound' /\ Kept'
  BY <1>1, <1>3 DEF Kill, UpdateInv, LatestKnown, HealthyIsSound, Healthy, Kept, branchVars, Sound, Images
<1> QED
  BY <1>4, <1>5 DEF UpdateInv

LEMMA PushInv == ASSUME UpdateInv, NEW c \in Commits, Push(c) PROVE UpdateInv'
<1>1. pushes' \in 0..MaxPushes
  BY SelfUpdateAssumption DEF Push, UpdateInv, UpdateTypeOK
<1>2. UpdateTypeOK'
  BY <1>1 DEF Push, UpdateInv, UpdateTypeOK
<1> QED
  BY <1>2 DEF Push, UpdateInv, LatestKnown, HealthyIsSound, Kept, Healthy, Sound, Images

LEMMA StutterInv == ASSUME UpdateInv, UNCHANGED updateVars PROVE UpdateInv'
BY DEF updateVars, UpdateInv, UpdateTypeOK, LatestKnown, HealthyIsSound, Kept, Healthy, Sound, Images, branchVars

LEMMA Safety == UpdateInit /\ [][UpdateNext]_updateVars => []UpdateInv
<1>1. UpdateInit => UpdateInv
  BY InitInv
<1>2. UpdateInv /\ [UpdateNext]_updateVars => UpdateInv'
  BY FetchInv, CompareInv, InspectInv, BuildInv, TagInv, UpInv, AwaitInv, RollBackInv,
     UpBackInv, AwaitBackInv, RecordInv, RecordEndsInv, ProbeInv, BreakInv, KillInv,
     PushInv, StutterInv DEF UpdateNext, Script
<1> QED
  BY <1>1, <1>2, PTL

LEMMA Invariant == UpdateSpec => []UpdateInv
  BY Safety, PTL DEF UpdateSpec

-------------------------------------------------------------------------------

\* Every variable keeps its type, for any commits and bounds.
THEOREM UpdateTypeCorrect == UpdateSpec => []UpdateTypeOK
<1>1. UpdateInv => UpdateTypeOK
  BY DEF UpdateInv
<1> QED
  BY <1>1, Invariant, PTL

\* What ends a run that found a healthy server, and was neither killed nor unlucky.
Ends ==
    /\ run # Idle /\ run' = Idle /\ kills' = kills /\ faults' = faults
    /\ run.at \notin {"compare", "inspect"} /\ run.had /\ ~run.unlucky
    /\ worth[run.sha] # "spoiled"

LEMMA ScriptEnds == ASSUME UpdateInv, Script, Ends PROVE Healthy'
<1>1. /\ run \in Run /\ run.had = TRUE /\ run.unlucky = FALSE /\ run.at # "idle"
      /\ run'.at = "idle" /\ faults' = faults /\ faults \in Nat
      /\ worth[run.sha] # "spoiled"
  BY RunOrIdle DEF Ends, UpdateInv, UpdateTypeOK, Idle
<1>2. \A from, to : ~GoUnlucky(from, to)
  BY <1>1 DEF GoUnlucky
<1>3. \A from, to : Go(from, to) => run.at = from /\ run' = Onto(run, to)
  BY DEF Go
<1>4. \A to \in Places : Onto(run, to).at = to
  BY <1>1, Moves
<1>5. \A from, to : Go(from, to) /\ to \in Places => FALSE
  BY <1>1, <1>3, <1>4 DEF Places
<1>6. CASE Build
  BY <1>1, <1>2, <1>5, <1>6 DEF Build, UpdateInv, Kept, Healthy
<1>7. CASE UpBack
  <2>1. worth[run.sha] = "refused" /\ run.at = "upBack" /\ UNCHANGED container
    BY <1>2, <1>3, <1>5, <1>7 DEF UpBack, Swap, Places
  <2> QED
    BY <1>1, <2>1 DEF UpdateInv, Kept, Healthy
<1>8. CASE AwaitBack
  <2>1. run.at = "waitBack" /\ UNCHANGED container
        /\ (Healthy \/ container.health = "unhealthy")
    BY <1>2, <1>8 DEF AwaitBack, Wait
  <2> QED
    BY <1>1, <2>1 DEF UpdateInv, Kept, Healthy
<1>9. CASE RecordEnds
  BY <1>1, <1>3, <1>9 DEF RecordEnds, UpdateInv, Kept, Healthy
<1>10. CASE RollBack
  <2>1. run.old = Nothing /\ run.at = "back"
    BY <1>3, <1>5, <1>10 DEF RollBack, Places
  <2> QED
    BY <1>1, <2>1, SelfUpdateAssumption DEF UpdateInv, Kept, Sound, Images
<1>11. CASE Compare \/ Inspect
  BY <1>11 DEF Compare, Inspect, Ends
<1>12. CASE Tag \/ Up \/ Await \/ Record
  BY <1>2, <1>5, <1>12 DEF Tag, Up, Await, Record, Swap, Wait, Places
<1> QED
  BY <1>6, <1>7, <1>8, <1>9, <1>10, <1>11, <1>12 DEF Script

\* A run that found a healthy server leaves one, unless it is killed or unlucky or its
\* compose file spoils any server: what it keeps on the way (Kept) is the old image, which
\* was healthy, and a container that is healthy wherever it was not replaced.
THEOREM AlwaysKeepsServer == UpdateSpec => KeepsServer
<1>1. UpdateInv /\ [UpdateNext]_updateVars => (Ends => Healthy')
  <2> SUFFICES ASSUME UpdateInv, [UpdateNext]_updateVars, Ends PROVE Healthy'
    OBVIOUS
  <2>1. CASE Script
    BY <2>1, ScriptEnds
  <2>2. CASE Fetch \/ Break
    BY <2>2 DEF Ends, Fetch, Break, UpdateInv, UpdateTypeOK
  <2>3. CASE Kill
    BY <2>3 DEF Ends, Kill, UpdateInv, UpdateTypeOK
  <2>4. CASE Probe \/ UNCHANGED updateVars \/ \E c \in Commits : Push(c)
    BY <2>4 DEF Ends, Probe, updateVars, Push
  <2> QED
    BY <2>1, <2>2, <2>3, <2>4 DEF UpdateNext
<1>2. UpdateInv /\ [UpdateNext]_updateVars => [Ends => Healthy']_updateVars
  BY <1>1
<1> QED
  BY <1>2, Invariant, PTL DEF UpdateSpec, KeepsServer, Ends

-------------------------------------------------------------------------------
(* What is recorded. *)

\* From the tag to the record, a run deals with its own commit.
Chain ==
    /\ run.at = "up" => latest = run.sha
    /\ run.at = "wait" /\ container # Nothing =>
          container.image = run.sha /\ container.file = run.sha
    /\ run.at \in {"record", "recording"} => worth[run.sha] = "good"
    /\ RecordedWasHealthy

\* A step to elsewhere that records nothing.
LEMMA ChainElsewhere ==
    ASSUME Chain, UNCHANGED <<worth, recorded>>,
           run'.at \notin {"up", "wait", "record", "recording"}
    PROVE  Chain'
BY DEF Chain, RecordedWasHealthy

LEMMA GoesElsewhere ==
    ASSUME UpdateInv, Chain, NEW from \in Places, NEW to \in (Places \cup {"idle"}) \ {"up", "wait", "record", "recording"},
           Go(from, to) \/ GoUnlucky(from, to), UNCHANGED <<worth, recorded>>
    PROVE  Chain'
<1>1. run'.at = to
  BY Goes, GoesUnlucky DEF UpdateInv
<1> QED
  BY <1>1, ChainElsewhere

LEMMA ScriptChain == ASSUME UpdateInv, Chain, Script PROVE Chain'
<1> USE DEF Places
<1>1. CASE Compare
  BY <1>1, GoesElsewhere DEF Compare, branchVars
<1>2. CASE Inspect
  <2>1. run'.at = "build"
    BY <1>2, RunOrIdle DEF Inspect, UpdateInv, Run
  <2> QED
    BY <1>2, <2>1, ChainElsewhere DEF Inspect, branchVars
<1>3. CASE Build
  <2>1. UNCHANGED <<worth, recorded>>
    BY <1>3 DEF Build, branchVars
  <2>2. Go("build", "tag") \/ Go("build", "idle") \/ GoUnlucky("build", "idle")
    BY <1>3 DEF Build
  <2> QED
    BY <2>1, <2>2, GoesElsewhere
<1>4. CASE Tag
  <2>1. run'.at = "up" /\ run'.sha = run.sha
    BY <1>4, Goes DEF Tag, UpdateInv
  <2> QED
    BY <1>4, <2>1 DEF Tag, Chain, RecordedWasHealthy, branchVars
<1>5. CASE Up
  <2>1. UNCHANGED <<worth, recorded, latest>> /\ run.at = "up"
    BY <1>5 DEF Up, Swap, branchVars
  <2>2. CASE Go("up", "back") \/ GoUnlucky("up", "back")
    BY <2>1, <2>2, GoesElsewhere
  <2>3. CASE Go("up", "wait") /\ container' = [image |-> latest, file |-> run.sha, health |-> "starting"]
    <3>1. run'.at = "wait" /\ run'.sha = run.sha
      BY <2>3, Goes DEF UpdateInv
    <3> QED
      BY <2>1, <2>3, <3>1 DEF Chain, RecordedWasHealthy
  <2> QED
    BY <1>5, <2>2, <2>3 DEF Up, Swap
<1>6. CASE Await
  <2>1. UNCHANGED <<worth, recorded>> /\ run.at = "wait"
    BY <1>6 DEF Await, Wait, branchVars
  <2>2. CASE Go("wait", "back") \/ GoUnlucky("wait", "back")
    BY <2>1, <2>2, GoesElsewhere
  <2>3. CASE Healthy /\ Go("wait", "record")
    <3>1. run'.at = "record" /\ run'.sha = run.sha
      BY <2>3, Goes DEF UpdateInv
    <3>2. worth[run.sha] = "good"
      BY <2>1, <2>3 DEF Chain, UpdateInv, HealthyIsSound, Healthy, Sound
    <3> QED
      BY <2>1, <3>1, <3>2 DEF Chain, RecordedWasHealthy
  <2> QED
    BY <1>6, <2>2, <2>3 DEF Await, Wait
<1>7. CASE RollBack
  <2>1. UNCHANGED <<worth, recorded>>
    BY <1>7 DEF RollBack, branchVars
  <2>2. Go("back", "upBack") \/ Go("back", "idle")
    BY <1>7 DEF RollBack
  <2> QED
    BY <2>1, <2>2, GoesElsewhere
<1>8. CASE UpBack
  <2>1. UNCHANGED <<worth, recorded>>
    BY <1>8 DEF UpBack, Swap, branchVars
  <2>2. Go("upBack", "waitBack") \/ Go("upBack", "idle") \/ GoUnlucky("upBack", "idle")
    BY <1>8 DEF UpBack, Swap
  <2> QED
    BY <2>1, <2>2, GoesElsewhere
<1>9. CASE AwaitBack
  <2>1. UNCHANGED <<worth, recorded>>
    BY <1>9 DEF AwaitBack, Wait, branchVars
  <2>2. Go("waitBack", "idle") \/ GoUnlucky("waitBack", "idle")
    BY <1>9 DEF AwaitBack, Wait
  <2> QED
    BY <2>1, <2>2, GoesElsewhere
<1>10. CASE Record
  <2>1. run.at = "record" /\ run'.at = "recording" /\ run'.sha = run.sha
    BY <1>10, Goes DEF Record, UpdateInv
  <2> QED
    BY <1>10, <2>1 DEF Record, Chain, RecordedWasHealthy, branchVars
<1>11. CASE RecordEnds
  <2>1. run.at = "recording" /\ run'.at = "idle"
    BY <1>11, Goes DEF RecordEnds, UpdateInv
  <2> QED
    BY <1>11, <2>1 DEF RecordEnds, Chain, RecordedWasHealthy, branchVars
<1> QED
  BY <1>1, <1>2, <1>3, <1>4, <1>5, <1>6, <1>7, <1>8, <1>9, <1>10, <1>11 DEF Script

\* What happens around the script leaves it where it is, or ends it; a container keeps its
\* image, or goes.
LEMMA OutsideChain ==
    ASSUME UpdateInv, Chain,
           Fetch \/ Probe \/ Break \/ Kill \/ (\E c \in Commits : Push(c)) \/ UNCHANGED updateVars
    PROVE  Chain'
<1>1. CASE Fetch
  BY <1>1, ChainElsewhere DEF Fetch, branchVars
<1>2. CASE Kill
  BY <1>2, ChainElsewhere DEF Kill, Idle, branchVars
<1>3. CASE Probe \/ Break
  <2>1. UNCHANGED <<worth, recorded, latest>> /\ container # Nothing
    BY <1>3 DEF Probe, Break, Healthy, branchVars
  <2>2. container'.image = container.image /\ container'.file = container.file
    <3>1. container \in Container
      BY <2>1 DEF UpdateInv, UpdateTypeOK
    <3> QED
      BY <1>3, <3>1 DEF Probe, Break, Container
  <2>3. run'.at = run.at /\ (run.at # "idle" => run'.sha = run.sha)
    BY <1>3, RunOrIdle DEF Probe, Break, UpdateInv, Idle, Run
  <2> QED
    BY <2>1, <2>2, <2>3 DEF Chain, RecordedWasHealthy
<1>4. CASE (\E c \in Commits : Push(c)) \/ UNCHANGED updateVars
  BY <1>4 DEF Push, updateVars, branchVars, Chain, RecordedWasHealthy
<1> QED
  BY <1>1, <1>2, <1>3, <1>4

\* What is recorded as deployed was healthy, for any commits, kills and faults.
THEOREM AlwaysRecordedHealthy == UpdateSpec => []RecordedWasHealthy
<1>1. UpdateInit => Chain
  BY DEF UpdateInit, Chain, RecordedWasHealthy, Idle
<1>2. UpdateInv /\ Chain /\ [UpdateNext]_updateVars => Chain'
  BY ScriptChain, OutsideChain DEF UpdateNext
<1>3. Chain => RecordedWasHealthy
  BY DEF Chain
<1> QED
  BY <1>1, <1>2, <1>3, Invariant, PTL DEF UpdateSpec


-------------------------------------------------------------------------------
(* The exports and the updater on one host. *)

\* A behaviour of the host is one of the exports, and of the updater but for its fairness.
LEMMA HostParts == HostSpec => Spec /\ UpdateInit /\ [][UpdateNext]_updateVars
<1>1. HostInit => Init /\ UpdateInit
  BY DEF HostInit
<1>2. [HostNext]_<<vars, updateVars, part>> => [Next]_vars /\ [UpdateNext]_updateVars
  BY DEF HostNext
<1> QED
  BY <1>1, <1>2, PTL DEF HostSpec, Spec

\* HostTypesOK: whichever of the two a behaviour moves, both keep their types: the
\* requests with the exports, the storage and the slots; the run with the image it keeps.
THEOREM HostTypeCorrect == HostSpec => []HostTypesOK
<1>1. TypeOK /\ UpdateInv => HostTypesOK
  BY DEF HostTypesOK, UpdateInv
<1> QED
  BY <1>1, HostParts, TypeCorrect, Safety, PTL
===============================================================================

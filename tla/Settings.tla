------------------------------- MODULE Settings -------------------------------
(***************************************************************************)
(* internal/config: the settings in memory and in their file. A start      *)
(* merges the file, the plaintext tokens of an older version in it, and    *)
(* the tokens of the environment, and saves the result; an update changes  *)
(* memory, saves, and takes the change back if that fails. The file is     *)
(* replaced by a rename, so that it is always whole (securefile).          *)
(*                                                                         *)
(* Of the settings, the API tokens and the rate limit are modelled. The    *)
(* latter is replaced as a whole (server.go:763), so that its max stands   *)
(* for its windowMs too; what the two do is in Limiter. A token is its     *)
(* secret; its record differs in nothing a property speaks of.             *)
(***************************************************************************)
EXTENDS Naturals, FiniteSets

CONSTANTS Tokens,
          EnvTokens,     \* those that API_TOKENS may hold
          LegacyTokens,  \* those of apiTokens in the file of an older version
          Limits,        \* the values of rateLimit, by their max
          DefaultLimit,
          MaxUpdates,    \* bound: on all updates
          MaxCrashes,    \* bound: how often the process dies
          NoFile

Values == [tokens : SUBSET Tokens, max : Limits]

\* The file holds the tokens of an older version until the first save.
File == [tokens : SUBSET Tokens, legacy : SUBSET LegacyTokens, max : Limits]

ASSUME SettingsAssumption ==
    /\ EnvTokens \subseteq Tokens /\ LegacyTokens \subseteq Tokens
    /\ Limits \subseteq Nat \ {0} /\ DefaultLimit \in Limits /\ NoFile \notin File
    /\ MaxUpdates \in Nat /\ MaxCrashes \in Nat

Changes == [kind : {"create", "revoke"}, token : Tokens] \cup [kind : {"limit"}, max : Limits]

VARIABLES
    file,     \* or NoFile
    mem,      \* Settings.v
    phase,    \* "down", "opening" (loaded, not saved yet) or "up"
    update,   \* the change that holds Settings.mu, with its stage and what it replaces
    updates, crashes,
    out,      \* history: the tokens said to be revoked, or not to have been created
    in,       \* history: the tokens said to have been created, and not revoked since
    limits    \* history: what rateLimit.max may be, by what was answered

settingsVars == <<file, mem, phase, update, updates, crashes, out, in, limits>>

NoUpdate == [stage |-> "none"]

Updates == {NoUpdate} \cup
           [stage : {"unsaved", "saved"}, change : Changes, previous : Values]

SettingsInit ==
    /\ file \in File \cup {NoFile}
    /\ mem = [tokens |-> {}, max |-> DefaultLimit]
    /\ phase = "down" /\ update = NoUpdate /\ updates = 0 /\ crashes = 0
    /\ out = {} /\ in = IF file = NoFile THEN {} ELSE file.tokens \cup file.legacy
    /\ limits = IF file = NoFile THEN {DefaultLimit} ELSE {file.max}

-----------------------------------------------------------------------------
(* Start *)

\* What Open makes of the file and the environment.
Merged(env) ==
    IF file = NoFile THEN [tokens |-> env, max |-> DefaultLimit]
    ELSE [tokens |-> file.tokens \cup file.legacy \cup env, max |-> file.max]

\* API_TOKENS may have been edited. A token in it counts again (README.md:131).
Open(env) ==
    /\ phase = "down"
    /\ mem' = Merged(env) /\ phase' = "opening"
    /\ out' = out \ env
    /\ UNCHANGED <<file, update, updates, crashes, in, limits>>

\* (a plausible bug) The tokens of the older version stay in the file.
SavedKeepingLegacy(values) ==
    [tokens |-> values.tokens, max |-> values.max,
     legacy |-> IF file = NoFile THEN {} ELSE file.legacy]

\* What saveLocked writes.
Saved(values) == [tokens |-> values.tokens, max |-> values.max, legacy |-> {}]

\* The first save. main opens the other stores after it, and then serves.
OpenSaves ==
    /\ phase = "opening"
    /\ file' = Saved(mem) /\ phase' = "up"
    /\ UNCHANGED <<mem, update, updates, crashes, out, in, limits>>

OpenFails ==
    /\ phase = "opening"
    /\ phase' = "down"
    /\ UNCHANGED <<file, mem, update, updates, crashes, out, in, limits>>

-----------------------------------------------------------------------------
(* Update *)

Applied(values, change) ==
    CASE change.kind = "create" -> [values EXCEPT !.tokens = @ \cup {change.token}]
      [] change.kind = "revoke" -> [values EXCEPT !.tokens = @ \ {change.token}]
      [] OTHER -> [values EXCEPT !.max = change.max]

\* A new token is a new random secret: not one there is or was. The lock is taken.
Update(change) ==
    /\ phase = "up" /\ update = NoUpdate /\ updates < MaxUpdates
    /\ updates' = updates + 1
    /\ change.kind = "create" =>
          change.token \notin mem.tokens \cup out \cup EnvTokens \cup LegacyTokens
    /\ change.kind = "revoke" => change.token \in mem.tokens
    /\ mem' = Applied(mem, change)
    /\ update' = [stage |-> "unsaved", change |-> change, previous |-> mem]
    /\ UNCHANGED <<file, phase, crashes, out, in, limits>>

Save ==
    /\ update.stage = "unsaved"
    /\ file' = Saved(mem) /\ update' = [update EXCEPT !.stage = "saved"]
    /\ UNCHANGED <<mem, phase, updates, crashes, out, in, limits>>

\* The change is taken back, and an error answered.
SaveFails ==
    /\ update.stage = "unsaved"
    /\ mem' = update.previous /\ update' = NoUpdate
    /\ out' = IF update.change.kind = "create" THEN out \cup {update.change.token} ELSE out
    /\ UNCHANGED <<file, phase, updates, crashes, in, limits>>

\* The lock is released, and the change answered.
Answer ==
    /\ update.stage = "saved"
    /\ update' = NoUpdate
    /\ LET change == update.change
       IN \/ /\ change.kind = "create"
             /\ in' = in \cup {change.token} /\ UNCHANGED <<out, limits>>
          \/ /\ change.kind = "revoke"
             /\ in' = in \ {change.token} /\ out' = out \cup {change.token}
             /\ UNCHANGED limits
          \/ /\ change.kind = "limit"
             /\ limits' = {change.max} /\ UNCHANGED <<in, out>>
    /\ UNCHANGED <<file, mem, phase, updates, crashes>>

\* Who waits for an answer may find the change made, or not.
Crash ==
    /\ phase # "down" /\ crashes < MaxCrashes
    /\ phase' = "down" /\ crashes' = crashes + 1 /\ update' = NoUpdate
    /\ in' = IF update # NoUpdate /\ update.change.kind = "revoke"
             THEN in \ {update.change.token} ELSE in
    /\ limits' = IF update # NoUpdate /\ update.change.kind = "limit"
                 THEN limits \cup {update.change.max} ELSE limits
    /\ UNCHANGED <<file, mem, updates, out>>

Start == (\E env \in SUBSET EnvTokens : Open(env)) \/ OpenSaves \/ OpenFails

SettingsNext == Start \/ (\E change \in Changes : Update(change)) \/ Save \/ SaveFails
                \/ Answer \/ Crash

SettingsSpec == SettingsInit /\ [][SettingsNext]_settingsVars

-----------------------------------------------------------------------------
(* What the administrator was told *)

SettingsTypeOK ==
    /\ file \in File \cup {NoFile} /\ mem \in Values /\ phase \in {"down", "opening", "up"}
    /\ update \in Updates /\ updates \in 0..MaxUpdates /\ crashes \in 0..MaxCrashes
    /\ out \subseteq Tokens /\ in \subseteq Tokens /\ limits \subseteq Limits

\* Who can read the settings: not while an update holds the lock.
Readable == phase = "up" /\ update = NoUpdate

\* The settings in force are what was answered, over failures, deaths and starts. A token
\* that was revoked, or whose creation failed, does not come back, unless a start finds
\* it in API_TOKENS: not from the plaintext tokens of an older file, from a change taken
\* back, or from a save that never happened (config.go:206, config.go:276). A token
\* handed out works until it is revoked, whatever the environment holds (config.go:231).
\* The limit is the last one set.
AsAnswered ==
    Readable => mem.tokens \cap out = {} /\ in \subseteq mem.tokens /\ mem.max \in limits

=============================================================================

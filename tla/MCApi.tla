-------------------------------- MODULE MCApi --------------------------------
(***************************************************************************)
(* A request to the API, for TLC: the tokens and limits in the settings    *)
(* and the limiter, by which it is let in (Settings, Limiter), and what it *)
(* then fetches from Discord (DiscordClient). None of them changes         *)
(* another, so one of them moves in a behaviour, and their states are not  *)
(* multiplied.                                                             *)
(***************************************************************************)
EXTENDS MCDiscordClient, Settings, Limiter

\* The limit and the window are changed alone and together.
MCRates == {[max |-> 1, window |-> 3], [max |-> 2, window |-> 3], [max |-> 2, window |-> 1]}

VARIABLE part

ApiTypesOK == TypeOK /\ SettingsTypeOK /\ LimiterTypeOK

ApiInit ==
    /\ Init /\ SettingsInit /\ LimiterInit
    /\ part \in {"settings", "limiter", "fetch"}
    /\ part # "settings" => file = NoFile
    /\ part # "fetch" => posted = 0

ApiNext ==
    /\ UNCHANGED part
    /\ \/ part = "settings" /\ SettingsNext /\ UNCHANGED <<vars, limiterVars>>
       \/ part = "limiter" /\ LimiterNext /\ UNCHANGED <<vars, settingsVars>>
       \/ part = "fetch" /\ Next /\ UNCHANGED <<settingsVars, limiterVars>>

\* A behaviour in which another part moves is not fair to the client, so that Termination
\* is about the others, and the invariants about all.
ApiSpec == ApiInit /\ [][ApiNext]_<<vars, settingsVars, limiterVars, part>> /\ Fairness
=============================================================================

------------------------------- MODULE MCAccess -------------------------------
(***************************************************************************)
(* Who is let in, for TLC: to the dashboard (Auth), to a transcript        *)
(* (AccessControl). Neither changes the other, so one of them moves in a   *)
(* behaviour, and their states are not multiplied.                         *)
(***************************************************************************)
EXTENDS MCAuth, AccessControl

VARIABLE part

AccessTypesOK == TypeOK /\ AccessTypeOK

AllInit ==
    /\ Init /\ AccessInit /\ part \in {"dashboard", "visits"}
    /\ part = "dashboard" => record = [public |-> TRUE, key |-> 0, expires |-> 0]
    /\ part = "visits" => rp = CHOOSE party \in RelyingParties : TRUE

AllNext ==
    /\ UNCHANGED part
    /\ \/ part = "dashboard" /\ Next /\ UNCHANGED accessVars
       \/ part = "visits" /\ AccessNext /\ UNCHANGED vars

AllSpec == AllInit /\ [][AllNext]_<<vars, accessVars, part>>
===============================================================================

-------------------------------- MODULE MCHost --------------------------------
(***************************************************************************)
(* The service on its host, for TLC: the exports with their storage and    *)
(* restarts (Exports), and the updater that replaces the server's image    *)
(* (SelfUpdate). One of them moves in a behaviour: what a new image does   *)
(* to the exports is a crash, and a start with a newer renderer.           *)
(***************************************************************************)
EXTENDS MCExports, SelfUpdate

VARIABLE part

HostTypesOK == TypeOK /\ UpdateTypeOK

HostInit ==
    /\ Init /\ UpdateInit /\ part \in {"exports", "updates"}
    /\ part = "exports" =>
         /\ worth = [c \in Commits |-> "broken"] /\ head = CHOOSE c \in Commits : TRUE

HostNext ==
    /\ UNCHANGED part
    /\ \/ part = "exports" /\ Next /\ UNCHANGED updateVars
       \/ part = "updates" /\ UpdateNext /\ UNCHANGED vars

\* FairSpec asks for nothing while no request is in progress. The updater's fairness is
\* UpdateFairness, where it moves.
HostSpec ==
    /\ HostInit /\ [][HostNext]_<<vars, updateVars, part>>
    /\ \A r \in Requests : WF_vars(CreateTranscript(r)) /\ WF_vars(CacheReturns(r))
    /\ WF_vars(Boot)
    /\ WF_updateVars(part = "updates" /\ Fetch)
    /\ WF_updateVars(part = "updates" /\ Script)
    /\ WF_updateVars(part = "updates" /\ Probe)
===============================================================================

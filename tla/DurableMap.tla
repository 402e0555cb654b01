------------------------------ MODULE DurableMap ------------------------------
(***************************************************************************)
(* What the transcript registry promises its callers, with no log file in  *)
(* it: a map from transcript IDs to records in which an acknowledged write *)
(* takes effect at once and outlives every crash, a write that returned an *)
(* error (or whose caller died with the process) may or may not be seen    *)
(* after a restart, and nothing else is ever seen.                         *)
(***************************************************************************)
CONSTANTS Ids,      \* the transcript IDs
          Values,   \* what a transcript can be: a record, or None
          None      \* the transcript has no record

VARIABLES open,     \* the index is loaded
          live,     \* live[id]: what readers see of id (None while it is not)
          may       \* may[id]: the values a restart is allowed to show for id

vars == <<open, live, may>>

Empty == [id \in Ids |-> None]

Init == /\ open = FALSE
        /\ live = Empty
        /\ may = [id \in Ids |-> {None}]

\* A write is under way: from now on a restart may show its value.
Request(id, value) ==
    /\ open
    /\ may' = [may EXCEPT ![id] = @ \cup {value}]
    /\ UNCHANGED <<open, live>>

\* The write is acknowledged: readers see it, and nothing older may come back.
Acknowledge(id, value) ==
    /\ open
    /\ value \in may[id]
    /\ live' = [live EXCEPT ![id] = value]
    /\ may' = [may EXCEPT ![id] = {value}]
    /\ UNCHANGED open

\* The map is rewritten from what readers see: failed writes are forgotten.
Settle ==
    /\ open
    /\ may' = [id \in Ids |-> {live[id]}]
    /\ UNCHANGED <<open, live>>

Crash ==
    /\ open
    /\ open' = FALSE
    /\ live' = Empty
    /\ UNCHANGED may

\* A restart shows, for every transcript, one of the values allowed for it.
Reopen ==
    /\ ~open
    /\ open' = TRUE
    /\ live' \in {map \in [Ids -> Values] : \A id \in Ids : map[id] \in may[id]}
    /\ UNCHANGED may

Next ==
    \/ Crash
    \/ Reopen
    \/ Settle
    \/ \E id \in Ids, value \in Values : Request(id, value) \/ Acknowledge(id, value)

Spec == Init /\ [][Next]_vars
===============================================================================

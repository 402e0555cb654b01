---------------------------- MODULE RegistryHistory ----------------------------
(* Registry with two history variables, for what depends on what went before. *)
EXTENDS MCRegistry

VARIABLES
    refused,   \* whether an append has failed after its line was written: Sync or Close
               \* returned an error, the caller was told no, and the line is in the file
               \* (store.go:146)
    unsettled  \* the transcripts whose bundle was given up or may be lost: its deletion
               \* has begun, its addition was refused, or it was drawn before a power failure

\* What gives a bundle up in this state.
GivenUp ==
    {id \in Ids : \/ op.kind = "remove" /\ op.id = id
                  \/ export.at = "undo" /\ export.id = id}

HistoryInit == Init /\ refused = FALSE /\ unsettled = {}

HistoryNext ==
    /\ \/ Step /\ unsettled' = unsettled \cup GivenUp'
       \/ PowerFailure /\ unsettled' = unsettled \cup used
    /\ refused' = IF SyncFails \/ CloseFails THEN TRUE ELSE refused

HistorySpec == HistoryInit /\ [][HistoryNext]_<<vars, refused, unsettled>>

\* RecordsHaveBundles: a record that the index shows, or that any file a restart may read
\* would show, has its whole bundle under its final name (addBundle publishes the directory
\* first and adds the record last, server.go:538), wherever the process dies between the two
\* and whatever fails: unless its own deletion has begun, its own addition was refused
\* after the line was written, or the power failed since it was drawn.
RecordsHaveBundles ==
    \A id \in Ids \ unsettled : dirs[id] # "final" =>
        /\ records[id] = None
        /\ \A file \in Survivors : Replay(file, id) = None

\* ListedInOrder: as long as no append has failed after its line was written, every page of
\* List shows each transcript once, and nothing else, on the row that its creation gives
\* it, newest first (admin.html:648): whatever was added, deleted, replayed or compacted
\* in which order (store.go:265, store.go:366), and wherever the process died.
ListedInOrder == ~refused => PagesInOrder
===============================================================================

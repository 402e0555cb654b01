------------------------------- MODULE Registry -------------------------------
(***************************************************************************)
(* internal/store: the transcript registry. The truth is an append-only    *)
(* JSONL file; Open replays it into an in-memory index, and every write    *)
(* appends a line, syncs and closes the file, and only then touches the    *)
(* index. Compact replaces the file with one line per live record.         *)
(*                                                                         *)
(* Around it, the one export that may run (server.addBundle) and Remove    *)
(* move the bundle directories that the records name.                      *)
(*                                                                         *)
(* The file is a sequence of chunks, one per Write call. A chunk is a      *)
(* whole "line", a "bare" JSON document whose newline was not written, or  *)
(* a "part" of one. What follows a chunk without a newline is glued to it. *)
(***************************************************************************)
EXTENDS Naturals, Sequences, FiniteSets

CONSTANTS Ids,        \* the transcript IDs exports may draw (RandomHex: never twice)
          None,       \* no record
          Faults,     \* what may fail, see AllFaults
          MaxWrites   \* bound: lines written, or attempted, to the file

AllFaults == { "open",    \* the file cannot be opened, or not a byte is written
               "short",   \* a Write that stops early, in an error or in a crash
               "sync",    \* Sync fails after a complete Write
               "close",   \* Close fails after Sync
               "files",   \* moving or removing a bundle directory fails
               "rewrite", \* Compact's WriteAtomic, or its directory Sync, fails
               "power" }  \* the power fails, and what was not synced may be lost or back

ASSUME RegistryAssumption ==
    /\ IsFiniteSet(Ids)
    /\ Faults \subseteq AllFaults
    /\ MaxWrites \in Nat

\* CreatedAt, AccessKey (0: a public record has none) and RenewedAt, as the
\* number of the write that drew them. The code compares the two times as RFC3339Nano
\* strings of the wall clock; assumed: they sort like the writes, that is, the clock is
\* not set back between two exports, and no two creation times fall in one second with
\* fractions of different lengths (trailing zeros are dropped).
Record == [created : 0..MaxWrites, key : 0..MaxWrites, renewed : 0..MaxWrites]

ASSUME NoneAssumption == None \notin Record /\ None \notin Ids

Values == Record \cup {None}

Chunk == [id : Ids, val : Values, form : {"line", "bare", "part"}]

\* Under its temporary name, whole under its final name, or neither: nothing, or a part.
BundleStates == {"none", "temp", "final"}

Kinds  == {"free", "add", "update", "remove", "compact"}
Stages == {"-", "bundle", "write", "sync", "close", "rewrite", "dirsync"}

VARIABLES
    log,      \* the file as a process reads it
    synced,   \* how many of its chunks a power failure cannot take
    earlier,  \* the files a power failure may bring back instead
    records,  \* Registry.records
    order,    \* Registry.order
    phase,    \* "down", "opening" (replaying), "starting", "serving"
    pos,      \* chunks replayed while opening
    op,       \* the call that holds Registry.mu
    export,   \* the export in progress: its transcript and how far it is
    dirs,     \* dirs[id]: the bundle directory
    used,     \* IDs drawn so far
    clock,    \* writes attempted so far
    may       \* may[id]: what a restart may show for id (DurableMap)

vars == <<log, synced, earlier, records, order, phase, pos, op, export, dirs,
          used, clock, may>>

fileVars   == <<log, synced, earlier>>
memoryVars == <<records, order>>
bootVars   == <<phase, pos>>
exportVars == <<export, used>>

Free == [kind |-> "free", id |-> None, val |-> None, at |-> "-"]
NoExport == [id |-> None, at |-> "-"]

TypeOK ==
    /\ log \in Seq(Chunk)
    /\ synced \in 0..Len(log)
    /\ earlier \subseteq Seq(Chunk)
    /\ records \in [Ids -> Values]
    /\ order \in Seq(Ids)
    /\ phase \in {"down", "opening", "starting", "serving"}
    /\ pos \in 0..Len(log)
    /\ op \in [kind : Kinds, id : Ids \cup {None}, val : Values, at : Stages]
    /\ op.at \in {"bundle", "write", "sync", "close"} => op.id \in Ids
    /\ export \in [id : Ids \cup {None}, at : {"-", "temp", "final", "adding", "undo"}]
    /\ export # NoExport => export.id \in Ids
    /\ dirs \in [Ids -> BundleStates]
    /\ used \subseteq Ids
    /\ clock \in 0..MaxWrites
    /\ may \in [Ids -> SUBSET Values]

Init ==
    /\ log = <<>> /\ synced = 0 /\ earlier = {}
    /\ records = [id \in Ids |-> None] /\ order = <<>>
    /\ phase = "down" /\ pos = 0
    /\ op = Free /\ export = NoExport
    /\ dirs = [id \in Ids |-> "none"]
    /\ used = {} /\ clock = 0
    /\ may = [id \in Ids |-> {None}]

-------------------------------------------------------------------------------
(* Reading the file back. *)

\* Mutant of Intact: Open gives up at the first malformed line.
IntactPrefix(file, i) ==
    /\ \A j \in 1..(i - 1) : file[j].form = "line"
    /\ file[i].form # "part"

\* Chunk i is a line of its own: nothing is glued before it or after it. Any
\* other chunk is part of a malformed line, which Open skips.
Intact(file, i) ==
    /\ i = 1 \/ file[i - 1].form = "line"
    /\ \/ file[i].form = "line"
       \/ file[i].form = "bare" /\ i = Len(file)

Versions(file, id, upto) == {i \in 1..upto : Intact(file, i) /\ file[i].id = id}

LastOf(S) == CHOOSE i \in S : \A j \in S : j <= i

\* What the first n chunks of the file say of id: the last intact line wins.
ReplayTo(file, n, id) ==
    LET V == Versions(file, id, n) IN IF V = {} THEN None ELSE file[LastOf(V)].val

Replay(file, id) == ReplayTo(file, Len(file), id)

\* The files a power failure may leave: any prefix that holds what was synced,
\* its last chunk torn if writes can be short, or a file renamed away by a
\* compaction whose directory was not synced.
Survivors ==
    earlier \cup {SubSeq(log, 1, n) : n \in synced..Len(log)}
            \cup IF "short" \in Faults
                 THEN {Append(SubSeq(log, 1, n), [log[n + 1] EXCEPT !.form = "part"]) :
                         n \in synced..(Len(log) - 1)}
                 ELSE {}

-------------------------------------------------------------------------------
(* Open and CleanupInterrupted, run by main before the server listens. *)

Open ==
    /\ phase = "down"
    /\ phase' = "opening" /\ pos' = 0
    /\ UNCHANGED <<fileVars, memoryVars, op, exportVars, dirs, clock, may>>

\* Mutant of ReplayLine: a new ID in the file takes no place in order.
ReplayUnordered ==
    /\ phase = "opening" /\ pos < Len(log)
    /\ pos' = pos + 1
    /\ IF Intact(log, pos + 1)
       THEN records' = [records EXCEPT ![log[pos + 1].id] = log[pos + 1].val]
       ELSE UNCHANGED records
    /\ UNCHANGED <<fileVars, order, phase, op, exportVars, dirs, clock, may>>

ReplayLine ==
    /\ phase = "opening" /\ pos < Len(log)
    /\ pos' = pos + 1
    /\ LET line == log[pos + 1] IN
       IF Intact(log, pos + 1)
       THEN /\ records' = [records EXCEPT ![line.id] = line.val]
            /\ order' = IF line.val # None /\ records[line.id] = None
                        THEN Append(order, line.id) ELSE order
       ELSE UNCHANGED memoryVars
    /\ UNCHANGED <<fileVars, phase, op, exportVars, dirs, clock, may>>

OpenDone ==
    /\ phase = "opening" /\ pos = Len(log)
    /\ phase' = "starting" /\ pos' = 0
    /\ UNCHANGED <<fileVars, memoryVars, op, exportVars, dirs, clock, may>>

\* Removes the temporary directories; main logs a failure and goes on.
CleanupInterrupted ==
    /\ phase = "starting" /\ op = Free
    /\ phase' = "serving"
    /\ \E swept \in SUBSET {id \in Ids : dirs[id] = "temp"} :
          /\ "files" \notin Faults => swept = {id \in Ids : dirs[id] = "temp"}
          /\ dirs' = [id \in Ids |-> IF id \in swept THEN "none" ELSE dirs[id]]
    /\ UNCHANGED <<fileVars, memoryVars, pos, op, exportVars, clock, may>>

-------------------------------------------------------------------------------
(* appendLocked, under Registry.mu. *)

\* The call takes the lock with the record (or tombstone) it is to append.
Begin(kind, id, val) ==
    /\ op = Free
    /\ clock < MaxWrites
    /\ clock' = clock + 1
    /\ op' = [kind |-> kind, id |-> id, val |-> val, at |-> "write"]
    /\ may' = [may EXCEPT ![id] = @ \cup {val}]

\* The call returns an error: the index is left alone, and a failed Add sends
\* addBundle to remove the directory it had published.
ReturnError ==
    /\ op' = Free
    /\ export' = IF op.kind = "add" THEN [export EXCEPT !.at = "undo"] ELSE export
    /\ UNCHANGED <<memoryVars, bootVars, used, dirs, clock, may>>

Line(form) == [id |-> op.id, val |-> op.val, form |-> form]

\* Mutant of Write: the index takes the record before it is durable.
WriteThenIndex ==
    /\ op.at = "write"
    /\ log' = Append(log, Line("line"))
    /\ records' = [records EXCEPT ![op.id] = op.val]
    /\ op' = [op EXCEPT !.at = "sync"]
    /\ UNCHANGED <<synced, earlier, order, bootVars, exportVars, dirs, clock, may>>

Write ==
    /\ op.at = "write"
    /\ log' = Append(log, Line("line"))
    /\ op' = [op EXCEPT !.at = "sync"]
    /\ UNCHANGED <<synced, earlier, memoryVars, bootVars, exportVars, dirs, clock, may>>

WriteFails ==
    /\ op.at = "write"
    /\ \/ "open" \in Faults /\ log' = log
       \/ /\ "short" \in Faults
          /\ \E form \in {"bare", "part"} : log' = Append(log, Line(form))
    /\ ReturnError
    /\ UNCHANGED <<synced, earlier>>

\* Mutant of Sync: the call is missing.
SyncSkipped ==
    /\ op.at = "sync"
    /\ op' = [op EXCEPT !.at = "close"]
    /\ UNCHANGED <<fileVars, memoryVars, bootVars, exportVars, dirs, clock, may>>

\* Syncing the file makes all of it durable, and its directory entry with it.
Sync ==
    /\ op.at = "sync"
    /\ synced' = Len(log) /\ earlier' = {}
    /\ op' = [op EXCEPT !.at = "close"]
    /\ UNCHANGED <<log, memoryVars, bootVars, exportVars, dirs, clock, may>>

SyncFails ==
    /\ op.at = "sync" /\ "sync" \in Faults
    /\ ReturnError
    /\ UNCHANGED fileVars

\* Close succeeds: the index takes the record and the caller is answered.
Close ==
    /\ op.at = "close"
    /\ records' = [records EXCEPT ![op.id] = op.val]
    /\ order' = IF op.val # None /\ records[op.id] = None
                THEN Append(order, op.id) ELSE order
    /\ may' = [may EXCEPT ![op.id] = {op.val}]
    /\ op' = Free
    /\ export' = IF op.kind = "add" THEN NoExport ELSE export
    /\ UNCHANGED <<fileVars, bootVars, used, dirs, clock>>

CloseFails ==
    /\ op.at = "close" /\ "close" \in Faults
    /\ ReturnError
    /\ UNCHANGED fileVars

appendLocked == Write \/ WriteFails \/ Sync \/ SyncFails \/ Close \/ CloseFails

-------------------------------------------------------------------------------
(* The calls: an export (server.addBundle), the admin's changes, compaction. *)

StartExport(id) ==
    /\ phase = "serving" /\ export = NoExport /\ id \notin used
    /\ export' = [id |-> id, at |-> "temp"]
    /\ used' = used \cup {id}
    /\ dirs' = [dirs EXCEPT ![id] = "temp"]
    /\ UNCHANGED <<fileVars, memoryVars, bootVars, op, clock, may>>

\* Caching, rendering, an export over budget or the rename fails: the deferred
\* RemoveAll takes the temporary directory (and its own error is dropped).
ExportFails ==
    /\ export.at = "temp"
    /\ export' = NoExport
    /\ dirs' \in {[dirs EXCEPT ![export.id] = "none"]}
                 \cup IF "files" \in Faults THEN {dirs} ELSE {}
    /\ UNCHANGED <<fileVars, memoryVars, bootVars, op, used, clock, may>>

PublishBundle ==
    /\ export.at = "temp"
    /\ export' = [export EXCEPT !.at = "final"]
    /\ dirs' = [dirs EXCEPT ![export.id] = "final"]
    /\ UNCHANGED <<fileVars, memoryVars, bootVars, op, used, clock, may>>

\* Mutant of Add: the record is added before the directory is renamed.
AddBeforeRename ==
    /\ export.at = "temp"
    /\ Begin("add", export.id, [created |-> clock + 1, key |-> 0, renewed |-> 0])
    /\ export' = [export EXCEPT !.at = "adding"]
    /\ UNCHANGED <<fileVars, memoryVars, bootVars, used, dirs>>

Add ==
    /\ export.at = "final"
    /\ Begin("add", export.id, [created |-> clock + 1, key |-> 0, renewed |-> 0])
    /\ export' = [export EXCEPT !.at = "adding"]
    /\ UNCHANGED <<fileVars, memoryVars, bootVars, used, dirs>>

\* RemoveAll of a published directory. It does not touch one that still has its temporary
\* name.
RemoveAll(id) == IF dirs[id] = "final" THEN [dirs EXCEPT ![id] = "none"] ELSE dirs

\* os.RemoveAll(final) after a failed Add; its error is dropped.
UndoBundle ==
    /\ export.at = "undo"
    /\ export' = NoExport
    /\ \/ dirs' = RemoveAll(export.id)
       \/ "files" \in Faults /\ dirs' = dirs
    /\ UNCHANGED <<fileVars, memoryVars, bootVars, op, used, clock, may>>

\* Update reads the current record under the lock it appends with.
Update(id, val) ==
    /\ phase = "serving" /\ records[id] # None
    /\ Begin("update", id, val)
    /\ UNCHANGED <<fileVars, memoryVars, bootVars, exportVars, dirs>>

Renew(id) == Update(id, [records[id] EXCEPT !.renewed = clock + 1])

\* Going private draws a new key every time; going public drops it.
SetVisibility(id, public) ==
    Update(id, [records[id] EXCEPT !.key = IF public THEN 0 ELSE clock + 1])

Remove(id) ==
    /\ phase = "serving" /\ records[id] # None /\ op = Free
    /\ clock < MaxWrites
    /\ op' = [kind |-> "remove", id |-> id, val |-> None, at |-> "bundle"]
    /\ UNCHANGED <<fileVars, memoryVars, bootVars, exportVars, dirs, clock, may>>

\* Mutant of RemoveBundle: the tombstone has no UUID.
RemoveBundleNameless ==
    /\ op.at = "bundle"
    /\ dirs' = RemoveAll(op.id)
    /\ op' = [op EXCEPT !.id = None, !.at = "write"]
    /\ clock' = clock + 1
    /\ may' = [may EXCEPT ![op.id] = @ \cup {None}]
    /\ UNCHANGED <<fileVars, memoryVars, bootVars, exportVars>>

RemoveBundle ==
    /\ op.at = "bundle"
    /\ dirs' = RemoveAll(op.id)
    /\ op' = [op EXCEPT !.at = "write"]
    /\ clock' = clock + 1
    /\ may' = [may EXCEPT ![op.id] = @ \cup {None}]
    /\ UNCHANGED <<fileVars, memoryVars, bootVars, exportVars>>

RemoveBundleFails ==
    /\ op.at = "bundle" /\ "files" \in Faults
    /\ dirs' \in {dirs, RemoveAll(op.id)}
    /\ op' = Free
    /\ UNCHANGED <<fileVars, memoryVars, bootVars, exportVars, clock, may>>

\* main compacts a file over 5 MiB every hour, and before it serves the first
\* request, which is a compaction that nothing precedes.
Compact ==
    /\ phase = "serving" /\ op = Free
    /\ op' = [Free EXCEPT !.kind = "compact", !.at = "rewrite"]
    /\ UNCHANGED <<fileVars, memoryVars, bootVars, exportVars, dirs, clock, may>>

\* One line per entry of order that still has a record: sort.SliceStable by
\* CreatedAt, so equal entries (order may hold an ID twice) keep their places.
Listed == {i \in DOMAIN order : records[order[i]] # None}

\* The transcripts as List goes through them, from the end of order. (Its filters by
\* channel and participant are left out.)
Filtered ==
    LET of[n \in 0..Len(order)] ==
            IF n = 0 THEN <<>>
            ELSE LET id == order[Len(order) + 1 - n]
                 IN  IF records[id] # None THEN Append(of[n - 1], id) ELSE of[n - 1]
    IN  of[Len(order)]

Within(n, bound) == IF n < bound THEN n ELSE bound

\* The transcripts on a page. A page or a limit out of range is replaced.
List(page, limit) ==
    LET rows  == IF limit < 1 THEN 50 ELSE Within(limit, 100)
        start == Within((IF page < 1 THEN 0 ELSE page - 1) * rows, Len(Filtered))
    IN  SubSeq(Filtered, start + 1, Within(start + rows, Len(Filtered)))

\* Mutant of Sorted: by the time of the last renewal.
SortedByRenewal(p) ==
    \A k, l \in DOMAIN p : k < l =>
        LET first == records[order[p[k]]].renewed
            second == records[order[p[l]]].renewed
        IN  first < second \/ (first = second /\ p[k] < p[l])

\* By creation, and by place where that is equal (see Record for the order of times).
Sorted(p) ==
    \A k, l \in DOMAIN p : k < l =>
        LET first == records[order[p[k]]].created
            second == records[order[p[l]]].created
        IN  first < second \/ (first = second /\ p[k] < p[l])

Rewrites ==
    {[k \in DOMAIN p |-> [id |-> order[p[k]], val |-> records[order[p[k]]], form |-> "line"]] :
        p \in {q \in UNION {[1..n -> Listed] : n \in 0..Len(order)} :
                  Sorted(q) /\ Listed \subseteq {q[k] : k \in DOMAIN q}}}

\* WriteAtomic: the new file is complete and synced before it takes the name. From now
\* on a restart may show what the index does, right or wrong.
Rewrite ==
    /\ op.at = "rewrite"
    /\ log' \in Rewrites
    /\ synced' = Len(log')
    /\ earlier' = Survivors
    /\ op' = [op EXCEPT !.at = "dirsync"]
    /\ may' = [id \in Ids |-> may[id] \cup {records[id]}]
    /\ UNCHANGED <<memoryVars, bootVars, exportVars, dirs, clock>>

SyncDirectory ==
    /\ op.at = "dirsync"
    /\ earlier' = {}
    /\ op' = Free
    /\ may' = [id \in Ids |-> {records[id]}]
    /\ UNCHANGED <<log, synced, memoryVars, bootVars, exportVars, dirs, clock>>

CompactFails ==
    /\ op.at \in {"rewrite", "dirsync"} /\ "rewrite" \in Faults
    /\ ReturnError
    /\ UNCHANGED fileVars

-------------------------------------------------------------------------------
(* The process dies: the index, the lock and the export go with it. *)

Stop ==
    /\ phase # "down"
    /\ phase' = "down" /\ pos' = 0
    /\ records' = [id \in Ids |-> None] /\ order' = <<>>
    /\ op' = Free /\ export' = NoExport
    /\ UNCHANGED <<used, clock, may>>

\* A process alone: what it wrote is there. A RemoveAll that was under way leaves a part of
\* the directory, a Write a part of its line.
Crash ==
    /\ Stop
    /\ \/ dirs' = dirs
       \/ op.at = "bundle" /\ dirs' = RemoveAll(op.id)
       \/ export.at = "undo" /\ dirs' = RemoveAll(export.id)
    /\ \/ UNCHANGED fileVars
       \/ /\ "short" \in Faults /\ op.at = "write"
          /\ \E form \in {"bare", "part"} : log' = Append(log, Line(form))
          /\ UNCHANGED <<synced, earlier>>

\* What is left of a bundle after a power failure: none of its files and neither its renaming
\* nor its removal were ever synced. (That a removed directory is back is left out: no record
\* is the worse for it.)
Left(id) ==
    CASE dirs[id] = "none"  -> {"none"}
      [] dirs[id] = "temp"  -> {"none", "temp"}
      [] dirs[id] = "final" -> BundleStates

\* The machine goes down: of the file the lines that were synced are left.
PowerFailure ==
    /\ "power" \in Faults
    /\ Stop
    /\ dirs' \in {d \in [Ids -> BundleStates] : \A id \in Ids : d[id] \in Left(id)}
    /\ log' \in Survivors
    /\ synced' = Len(log') /\ earlier' = {}

\* What a process does, its death included.
Step ==
    \/ Open \/ ReplayLine \/ OpenDone \/ CleanupInterrupted
    \/ appendLocked
    \/ \E id \in Ids : StartExport(id)
    \/ ExportFails \/ PublishBundle \/ Add \/ UndoBundle
    \/ \E id \in Ids, public \in BOOLEAN : SetVisibility(id, public)
    \/ \E id \in Ids : Renew(id) \/ Remove(id)
    \/ RemoveBundle \/ RemoveBundleFails
    \/ Compact \/ Rewrite \/ SyncDirectory \/ CompactFails
    \/ Crash

Next == Step \/ PowerFailure

Spec == Init /\ [][Next]_vars

-------------------------------------------------------------------------------
(* Properties. *)

Loaded == phase \in {"starting", "serving"}

\* Recoverable: whatever file a process or power failure leaves, the next Open
\* shows, for every transcript, its last acknowledged state or a write that was
\* requested since and never acknowledged (appendLocked, Compact, Open).
Recoverable ==
    \A file \in Survivors, id \in Ids : Replay(file, id) \in may[id]

\* IndexRecoverable: what the loaded index shows is never older than the last
\* acknowledged write, however many calls failed or restarts came in between.
IndexRecoverable == Loaded => \A id \in Ids : records[id] \in may[id]

\* ListsEveryRecord: every record of the index is in order, which is all that
\* Records, List and Compact iterate over: one that is not would be dropped
\* from the file by the next compaction.
ListsEveryRecord ==
    \A id \in Ids : records[id] # None => \E i \in DOMAIN order : order[i] = id

NotOlder(id) ==
    {other \in Ids : records[other] # None /\ records[other].created >= records[id].created}

\* The pages of List show each transcript once, and nothing else, on the row that its
\* creation gives it, newest first.
PagesInOrder ==
    \A page \in 1..Cardinality(Ids), limit \in 1..Within(Cardinality(Ids), 100) :
        LET shown == List(page, limit)
        IN  \A row \in 1..limit, id \in Ids :
                (row \in DOMAIN shown /\ shown[row] = id)
                <=> /\ records[id] # None
                    /\ (page - 1) * limit + row = Cardinality(NotOlder(id))

\* DamageIsLocal: a file that a process or power failure leaves may hide an acknowledged
\* state from the next Open only where that state's line is glued to a torn write: one
\* torn write costs at most the one write that follows it, however the writes, failures,
\* restarts and compactions before it went (Open skips the line, store.go:103).
DamageIsLocal ==
    \A file \in Survivors, id \in Ids : Replay(file, id) \notin may[id] =>
        \E i \in 2..Len(file) :
            /\ file[i].id = id /\ file[i].form = "line" /\ file[i].val \in may[id]
            /\ file[i - 1].form # "line"

\* The registry, seen through its index, keeps the promise of DurableMap.
Map == INSTANCE DurableMap WITH
          open <- Loaded,
          live <- IF Loaded THEN records ELSE [id \in Ids |-> None]

MapSpec == Map!Spec
===============================================================================

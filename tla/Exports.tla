-------------------------------- MODULE Exports --------------------------------
(***************************************************************************)
(* Where the bytes of the transcripts directory come from. A request takes *)
(* the only export slot, checks the global storage limit and reserves what *)
(* one export may need at most (internal/server, createTranscript); builds *)
(* a bundle under a temporary name within that reservation and publishes   *)
(* it by a rename (addBundle); deletions run beside it. A start removes    *)
(* interrupted bundles and renders those of an older renderer anew         *)
(* (refresh.go). The media of a bundle keep to AssetBudget, which          *)
(* MediaCache implements; the registry is reduced to what it acknowledged. *)
(***************************************************************************)
EXTENDS Integers, FiniteSets, Functions

CONSTANTS Requests,      \* export requests in flight
          IDs,           \* transcript IDs; one is free again when nothing bears it
          StorageLimit,  \* TRANSCRIPT_STORAGE_LIMIT_BYTES
          Reservation,   \* storageReservation
          HtmlLimit,     \* maxRenderedHTML
          TotalLimit,    \* media.DefaultTotalLimit
          Peak,          \* what the assets may take while they are downloaded
          None,
          MaxUpgrades,   \* bound: starts with a newer RendererVersion
          MaxCrashes     \* bound: starts

\* The reservation covers a full assets directory and HTML; it is 634 MiB, the
\* peak of four workers 350 MiB.
ASSUME ExportsAssumption ==
    /\ StorageLimit \in Nat /\ Reservation \in Nat /\ HtmlLimit \in Nat \ {0}
    /\ TotalLimit \in Nat /\ Peak \in Nat /\ TotalLimit <= Peak
    /\ Peak <= Reservation /\ TotalLimit + HtmlLimit <= Reservation
    /\ MaxUpgrades \in Nat /\ MaxCrashes \in Nat
    /\ None \notin IDs
    /\ IsFiniteSet(IDs) /\ IsFiniteSet(Requests)

Renderers == 0..MaxUpgrades

\* A directory: the media, index.html and the renderer it is from, the other
\* export files, and the copy of index.html a refresh is writing.
Directory == [at : {"none", "temp", "final"}, assets : 0..Peak, html : 0..HtmlLimit,
              docs : 0..Reservation, copy : 0..HtmlLimit, by : Renderers]

NoDirectory == [at |-> "none", assets |-> 0, html |-> 0, docs |-> 0, copy |-> 0, by |-> 0]

Stages == {"idle", "acquired", "fetching", "caching", "rendering", "documents", "publishing",
           "adding", "undo", "cleanup", "release", "leave"}

Request == [at : Stages, id : IDs \cup {None}]

VARIABLES
    phase,            \* "down", "cleanup", "refresh" or "up"
    renderer,         \* RendererVersion of the build that runs
    exportSlots,      \* how many are taken
    storageReserved,
    req,              \* the requests
    cache,            \* the asset budget of each request's media.Cache
    dir,              \* the transcripts directory
    rendered,         \* the registry: the renderer version of each ID's record, or None
    todo,             \* outdated records the start has not refreshed
    current,          \* the one it is refreshing, or None
    step,             \* and how far: "-", "copied" or "renamed"
    crashes

vars == <<phase, renderer, exportSlots, storageReserved, req, cache, dir, rendered, todo, current,
          step, crashes>>

boot == <<phase, renderer, todo, current, step, crashes>>
slots == <<exportSlots, storageReserved>>

Assets(r) == INSTANCE AssetBudget WITH budget <- cache[r]

NoCache == [running |-> FALSE, onDisk |-> 0, booked |-> 0]
NoRequest == [at |-> "idle", id |-> None]

-----------------------------------------------------------------------------
(* Helpers *)

SizeOf(d) == d.assets + d.html + d.docs + d.copy

\* Registry.StorageBytes: a walk of the directory, temporary bundles included. A
\* deletion during the walk only makes the sum too large.
StorageBytes == SumFunction([i \in IDs |-> SizeOf(dir[i])])

\* (a plausible bug) Every export file gets what is left after the media.
RemainingPerFile(r) == Reservation - cache[r].booked

\* budgetWriter.remaining of a request's export files.
Remaining(r) == Reservation - cache[r].booked - dir[req[r].id].html - dir[req[r].id].docs

Goto(r, stage) == req' = [req EXCEPT ![r].at = stage]

At(r, stage) == phase = "up" /\ req[r].at = stage

Init ==
    /\ phase = "up" /\ renderer = 0 /\ crashes = 0
    /\ exportSlots = 0 /\ storageReserved = 0
    /\ req = [r \in Requests |-> NoRequest] /\ cache = [r \in Requests |-> NoCache]
    /\ dir = [i \in IDs |-> NoDirectory]
    /\ rendered = [i \in IDs |-> None]
    /\ todo = {} /\ current = None /\ step = "-"

-----------------------------------------------------------------------------
(* createTranscript: the slot and the reservation *)

\* (a plausible bug) The slot is counted and not waited for.
AcquireUnchecked(r) ==
    /\ At(r, "idle")
    /\ exportSlots' = exportSlots + 1
    /\ Goto(r, "acquired")
    /\ UNCHANGED <<boot, storageReserved, cache, dir, rendered>>

\* acquireExport. With the slot taken the answer is 429 and nothing changes.
Acquire(r) ==
    /\ At(r, "idle") /\ exportSlots < 1
    /\ exportSlots' = exportSlots + 1
    /\ Goto(r, "acquired")
    /\ UNCHANGED <<boot, storageReserved, cache, dir, rendered>>

HasRoom == StorageBytes + storageReserved + Reservation <= StorageLimit

ReserveStorage(r) ==
    /\ At(r, "acquired") /\ HasRoom
    /\ storageReserved' = storageReserved + Reservation
    /\ Goto(r, "fetching")
    /\ UNCHANGED <<boot, exportSlots, cache, dir, rendered>>

\* (a plausible bug) The refusal returns before releaseExport is deferred.
RefuseKeepsSlot(r) ==
    /\ At(r, "acquired") /\ ~HasRoom
    /\ Goto(r, "idle")
    /\ UNCHANGED <<boot, slots, cache, dir, rendered>>

\* 507: the deferred releaseExport, and nothing to give back.
RefuseStorage(r) ==
    /\ At(r, "acquired") /\ ~HasRoom
    /\ Goto(r, "leave")
    /\ UNCHANGED <<boot, slots, cache, dir, rendered>>

\* (a plausible bug) A failed export does not return its reservation.
FetchFailsKeepsReservation(r) ==
    /\ At(r, "fetching")
    /\ Goto(r, "leave")
    /\ UNCHANGED <<boot, slots, cache, dir, rendered>>

\* Discord refuses, fails, or five minutes have passed.
FetchFails(r) ==
    /\ At(r, "fetching")
    /\ Goto(r, "release")
    /\ UNCHANGED <<boot, slots, cache, dir, rendered>>

\* The deferred release(), then the deferred releaseExport().
Release(r) ==
    /\ At(r, "release")
    /\ storageReserved' = storageReserved - Reservation
    /\ Goto(r, "leave")
    /\ UNCHANGED <<boot, exportSlots, cache, dir, rendered>>

ReleaseExport(r) ==
    /\ At(r, "leave")
    /\ exportSlots' = exportSlots - 1
    /\ req' = [req EXCEPT ![r] = NoRequest]
    /\ UNCHANGED <<boot, storageReserved, cache, dir, rendered>>

-----------------------------------------------------------------------------
(* addBundle *)

\* MkdirAll under a random UUID; media.Cache starts.
MakeDirectory(r) ==
    /\ At(r, "fetching")
    /\ \E i \in IDs :
         /\ dir[i].at = "none" /\ rendered[i] = None /\ \A q \in Requests : req[q].id # i
         /\ dir' = [dir EXCEPT ![i] = [NoDirectory EXCEPT !.at = "temp"]]
         /\ req' = [req EXCEPT ![r] = [at |-> "caching", id |-> i]]
    /\ \E b \in Assets(r)!Fresh : b.running /\ cache' = [cache EXCEPT ![r] = b]
    /\ UNCHANGED <<boot, slots, rendered>>

CacheTo(r, b) ==
    /\ cache' = [cache EXCEPT ![r] = b]
    /\ dir' = [dir EXCEPT ![req[r].id].assets = b.onDisk]

Caching(r) ==
    /\ At(r, "caching")
    /\ \E b \in Assets(r)!Downloads(cache[r]) : CacheTo(r, b)
    /\ UNCHANGED <<boot, slots, req, rendered>>

CacheReturns(r) ==
    /\ At(r, "caching")
    /\ \E b \in Assets(r)!Returns(cache[r]) : CacheTo(r, b)
    /\ Goto(r, "rendering")
    /\ UNCHANGED <<boot, slots, rendered>>

\* The assets directory cannot be made or the messages not be copied.
CacheFails(r) ==
    /\ At(r, "caching") /\ cache[r] \in Assets(r)!Fresh
    /\ Goto(r, "cleanup")
    /\ UNCHANGED <<boot, slots, cache, dir, rendered>>

\* index.html, rendered in memory within maxRenderedHTML, through budgetWriter.
WriteHtml(r) ==
    /\ At(r, "rendering")
    /\ \E n \in 1..HtmlLimit :
         /\ n <= Remaining(r)
         /\ dir' = [dir EXCEPT ![req[r].id].html = n, ![req[r].id].by = renderer]
    /\ Goto(r, "documents")
    /\ UNCHANGED <<boot, slots, cache, rendered>>

\* transcript.json, transcript.txt and assets-manifest.json: what the three add.
WriteDocuments(r) ==
    /\ At(r, "documents")
    /\ \E n \in 0..Remaining(r) : dir' = [dir EXCEPT ![req[r].id].docs = n]
    /\ Goto(r, "publishing")
    /\ UNCHANGED <<boot, slots, cache, rendered>>

\* A file that cannot be written, or that budgetWriter cuts short: what was
\* written so far is in the directory.
WriteFails(r) ==
    /\ phase = "up" /\ req[r].at \in {"rendering", "documents"}
    /\ \E n \in 0..Remaining(r) : dir' = [dir EXCEPT ![req[r].id].docs = n]
    /\ Goto(r, "cleanup")
    /\ UNCHANGED <<boot, slots, cache, rendered>>

Publish(r) ==
    /\ At(r, "publishing")
    /\ dir' = [dir EXCEPT ![req[r].id].at = "final"]
    /\ Goto(r, "adding")
    /\ UNCHANGED <<boot, slots, cache, rendered>>

PublishFails(r) ==
    /\ At(r, "publishing")
    /\ Goto(r, "cleanup")
    /\ UNCHANGED <<boot, slots, cache, dir, rendered>>

Add(r) ==
    /\ At(r, "adding")
    /\ rendered' = [rendered EXCEPT ![req[r].id] = renderer]
    /\ req' = [req EXCEPT ![r] = [at |-> "release", id |-> None]]
    /\ cache' = [cache EXCEPT ![r] = NoCache]
    /\ UNCHANGED <<boot, slots, dir>>

AddFails(r) ==
    /\ At(r, "adding")
    /\ Goto(r, "undo")
    /\ UNCHANGED <<boot, slots, cache, dir, rendered>>

\* os.RemoveAll of the temporary or, after a failed Add, of the final directory.
\* It may fail, and is not tried again.
Cleanup(r) ==
    /\ phase = "up" /\ req[r].at \in {"cleanup", "undo"}
    /\ \/ dir' = [dir EXCEPT ![req[r].id] = NoDirectory]
       \/ UNCHANGED dir
    /\ req' = [req EXCEPT ![r] = [at |-> "release", id |-> None]]
    /\ cache' = [cache EXCEPT ![r] = NoCache]
    /\ UNCHANGED <<boot, slots, rendered>>

\* deleteTranscript: Registry.Remove, the bundle and then the tombstone, which may
\* fail. A RemoveAll that fails is taken to have removed nothing.
Delete(i) ==
    /\ phase = "up" /\ rendered[i] # None
    /\ dir' = [dir EXCEPT ![i] = NoDirectory]
    /\ \/ rendered' = [rendered EXCEPT ![i] = None]
       \/ UNCHANGED rendered
    /\ UNCHANGED <<boot, slots, req, cache>>

-----------------------------------------------------------------------------
(* Restarts *)

Crash ==
    /\ phase # "down" /\ crashes < MaxCrashes
    /\ phase' = "down" /\ crashes' = crashes + 1
    /\ exportSlots' = 0 /\ storageReserved' = 0
    /\ req' = [r \in Requests |-> NoRequest] /\ cache' = [r \in Requests |-> NoCache]
    /\ todo' = {} /\ current' = None /\ step' = "-"
    /\ UNCHANGED <<renderer, dir, rendered>>

\* The same build, or one with a newer renderer.
Start ==
    /\ phase = "down" /\ phase' = "cleanup"
    /\ renderer' \in {renderer, renderer + 1} \cap Renderers
    /\ UNCHANGED <<slots, req, cache, dir, rendered, todo, current, step, crashes>>

\* Registry.CleanupInterrupted, which stops at the first directory it cannot
\* remove, and the records RefreshStoredHTML goes through.
CleanupInterrupted ==
    /\ phase = "cleanup" /\ phase' = "refresh"
    /\ \E removed \in SUBSET {i \in IDs : dir[i].at = "temp"} :
         dir' = [i \in IDs |-> IF i \in removed THEN NoDirectory ELSE dir[i]]
    /\ todo' = {i \in IDs : rendered[i] \notin {None, renderer}}
    /\ UNCHANGED <<renderer, slots, req, cache, rendered, current, step, crashes>>

Refreshing == phase = "refresh" /\ current = None

\* The bundle cannot be read or rendered, or the copy not be written; what was
\* written of it stays.
RefreshSkip(i) ==
    /\ Refreshing /\ i \in todo
    /\ todo' = todo \ {i}
    /\ \/ UNCHANGED dir
       \/ /\ dir[i].at = "final"
          /\ \E n \in 0..HtmlLimit : dir' = [dir EXCEPT ![i].copy = n]
    /\ UNCHANGED <<phase, renderer, slots, req, cache, rendered, current, step, crashes>>

\* (a plausible bug) The new version is recorded before the HTML is replaced.
RefreshRecordsFirst(i) ==
    /\ Refreshing /\ i \in todo /\ dir[i].at = "final"
    /\ todo' = todo \ {i} /\ current' = i /\ step' = "copied"
    /\ \E n \in 1..HtmlLimit : dir' = [dir EXCEPT ![i].copy = n]
    /\ rendered' = [rendered EXCEPT ![i] = renderer]
    /\ UNCHANGED <<phase, renderer, slots, req, cache, crashes>>

RefreshCopy(i) ==
    /\ Refreshing /\ i \in todo /\ dir[i].at = "final"
    /\ todo' = todo \ {i} /\ current' = i /\ step' = "copied"
    /\ \E n \in 1..HtmlLimit : dir' = [dir EXCEPT ![i].copy = n]
    /\ UNCHANGED <<phase, renderer, slots, req, cache, rendered, crashes>>

RefreshRename ==
    /\ step = "copied" /\ step' = "renamed"
    /\ dir' = [dir EXCEPT ![current].html = dir[current].copy, ![current].copy = 0,
                          ![current].by = renderer]
    /\ UNCHANGED <<phase, renderer, slots, req, cache, rendered, todo, current, crashes>>

RefreshRenameFails ==
    /\ step = "copied" /\ step' = "-" /\ current' = None
    /\ dir' = [dir EXCEPT ![current].copy = 0]
    /\ UNCHANGED <<phase, renderer, slots, req, cache, rendered, todo, crashes>>

\* registry.Update, which may fail.
RefreshRecord ==
    /\ step = "renamed" /\ step' = "-" /\ current' = None
    /\ \/ rendered' = [rendered EXCEPT ![current] = renderer]
       \/ UNCHANGED rendered
    /\ UNCHANGED <<phase, renderer, slots, req, cache, dir, todo, crashes>>

ListenAndServe ==
    /\ Refreshing /\ todo = {} /\ phase' = "up"
    /\ UNCHANGED <<renderer, slots, req, cache, dir, rendered, todo, current, step, crashes>>

Boot ==
    \/ Start \/ CleanupInterrupted \/ ListenAndServe
    \/ \E i \in IDs : RefreshSkip(i) \/ RefreshCopy(i)
    \/ RefreshRename \/ RefreshRenameFails \/ RefreshRecord

CreateTranscript(r) ==
    \/ ReserveStorage(r) \/ RefuseStorage(r) \/ FetchFails(r)
    \/ MakeDirectory(r) \/ Caching(r) \/ CacheReturns(r) \/ CacheFails(r)
    \/ WriteHtml(r) \/ WriteDocuments(r) \/ WriteFails(r)
    \/ Publish(r) \/ PublishFails(r) \/ Add(r) \/ AddFails(r) \/ Cleanup(r)
    \/ Release(r) \/ ReleaseExport(r)

Next ==
    \/ Boot \/ Crash
    \/ \E r \in Requests : Acquire(r) \/ CreateTranscript(r)
    \/ \E i \in IDs : Delete(i)

Spec == Init /\ [][Next]_vars

\* A handler that holds the slot goes on: its requests to Discord end with the
\* five minutes of its context, media.Cache returns (Termination of MediaCache),
\* the rest is local. A start runs to its end.
FairSpec ==
    /\ Spec
    /\ \A r \in Requests : WF_vars(CreateTranscript(r)) /\ WF_vars(CacheReturns(r))
    /\ WF_vars(Boot)

-----------------------------------------------------------------------------
(* Properties *)

TypeOK ==
    /\ phase \in {"down", "cleanup", "refresh", "up"}
    /\ renderer \in Renderers /\ crashes \in 0..MaxCrashes
    /\ exportSlots \in 0..1 /\ storageReserved \in Int
    /\ req \in [Requests -> Request]
    /\ \A r \in Requests : cache[r] \in Assets(r)!Budget
    /\ dir \in [IDs -> Directory]
    /\ rendered \in [IDs -> Renderers \cup {None}]
    /\ todo \subseteq IDs /\ current \in IDs \cup {None} /\ step \in {"-", "copied", "renamed"}

\* The transcripts directory never passes the global limit.
StorageCeiling == StorageBytes <= StorageLimit

\* It never does for want of a check in an export: whatever exports, failed
\* exports, deletions and restarts follow each other, what is checked once
\* covers the media at their peak, the export files and everything left behind.
\* Only the refresh that a newer renderer starts is not checked.
CeilingHolds == renderer = 0 => StorageCeiling

Holding == {r \in Requests : req[r].at \notin {"idle", "acquired", "leave"}}

\* Reservations are returned on every path, and with the slot: while no export
\* is past its check, nothing is reserved.
ReservationsReturned ==
    /\ storageReserved = Reservation * Cardinality(Holding)
    /\ exportSlots = Cardinality({r \in Requests : req[r].at # "idle"})

\* Whoever opens a published bundle reads a whole index.html, in a refresh too; and it
\* is as new as its record says, so that a start that dies in a refresh leaves a bundle
\* that the next start refreshes again.
HtmlAsRecorded ==
    \A i \in IDs : dir[i].at = "final" =>
        dir[i].html > 0 /\ (rendered[i] # None => rendered[i] <= dir[i].by)

\* The slot is always given back.
SlotFreed == exportSlots = 1 ~> exportSlots = 0
===============================================================================

------------------------------ MODULE MediaCache ------------------------------
(***************************************************************************)
(* internal/media, Cache and download: the assets of one transcript are    *)
(* handed to a few workers over an unbuffered channel. A worker decides    *)
(* under the mutex whether an asset may still be fetched, reserving the    *)
(* bytes it may take; downloads it to a temporary file, without the mutex; *)
(* renames the file; and books the outcome under the mutex.                *)
(*                                                                         *)
(* Temporary and final names are a hash of the URL fetched, so two assets  *)
(* fetched from one URL (a proxy URL posted next to the attachment it      *)
(* belongs to) share both. A file is an inode: a rename moves the name,    *)
(* and whoever holds the inode open goes on writing to it.                 *)
(***************************************************************************)
EXTENDS Integers, FiniteSets, Sequences, FiniteSetsExt, Functions

CONSTANTS Assets,      \* Cache's unique: one asset per URL
          Sources,     \* the URLs the assets are fetched from
          Allowed,     \* those AllowedURL accepts
          Workers,     \* the goroutines, min(4, len(unique)) of them
          Collections, \* what Collect may return: functions from Assets to Asset
          FileLimit, TotalLimit,
          SmallLimit,  \* what an avatar or emoji of unknown size reserves (5 MiB)
          None

\* Declared sizes come from Discord; 0 is none. small: an avatar or an emoji.
Asset == [source : Sources, declared : Nat, small : BOOLEAN]

ASSUME MediaAssumption ==
    /\ FileLimit \in Nat \ {0} /\ TotalLimit \in Nat \ {0} /\ SmallLimit \in Nat \ {0}
    /\ Allowed \subseteq Sources
    /\ Collections \subseteq [Assets -> Asset]
    /\ None \notin Assets /\ None \notin Nat
    /\ IsFiniteSet(Assets) /\ IsFiniteSet(Sources) /\ IsFiniteSet(Workers)
    /\ Cardinality(Workers) <= Cardinality(Assets)
    /\ Workers = {} => Assets = {}

\* io.LimitReader lets one byte more than FileLimit through.
Bytes == 0..(FileLimit + 1)

Stages == {"idle", "judging", "fetching", "copying", "copied", "dropping", "placed", "failed",
           "gone"}

\* body: the size of the response being copied; wrote: how much of it is written;
\* inode: the file it is written to, named after the asset that created it.
Job == [asset : Assets \cup {None}, body : Bytes, wrote : Bytes, inode : Assets \cup {None}]

NoJob == [asset |-> None, body |-> 0, wrote |-> 0, inode |-> None]

Entry == [asset : Assets, status : {"cached", "skipped", "failed"},
          reason : {"", "unsupported_host", "file_too_large", "transcript_limit", "error"},
          bytes : Bytes]

VARIABLES
    collected,   \* the assets' source, declared size and kind
    content,     \* what the CDN answers each URL with: its length, as far as it is read
    unsent,      \* the assets not yet handed to a worker; the channel closes after the last
    at,          \* where each worker is
    job,         \* what each worker has in hand: the loop's and download's locals
    temp, final, \* the directory: the inode behind each source's two names
    data,        \* the bytes of each inode written since it was last truncated
    assets,      \* manifest.Assets; urlMap and blocked are filled in with it
    TotalBytes,  \* manifest.TotalBytes
    reserved

vars == <<collected, content, unsent, at, job, temp, final, data, assets, TotalBytes,
          reserved>>

files == <<temp, final, data>>
books == <<assets, TotalBytes, reserved>>

-----------------------------------------------------------------------------
(* Helpers *)

Source(a) == collected[a].source

Reservation(a) ==
    IF collected[a].declared > 0 THEN collected[a].declared
    ELSE IF collected[a].small /\ SmallLimit < FileLimit THEN SmallLimit
    ELSE FileLimit

Supported(a) == Source(a) \in Allowed

DeclaredFits(a) == collected[a].declared <= FileLimit

\* (a plausible bug) Only what is booked is counted, not what is in flight.
RoomForIgnoringReserved(a) == TotalBytes + Reservation(a) <= TotalLimit

\* (a plausible bug) Every download is streamed to the same temporary name.
OneTempName(s) == CHOOSE x \in Sources : TRUE

\* What a worker reads under the mutex before it reserves.
RoomFor(a) == TotalBytes + reserved + Reservation(a) <= TotalLimit

\* The name a download is streamed to before it is complete.
TempName(s) == s

\* The asset a worker has in hand.
Of(w) == job[w].asset

Goto(w, stage) == at' = [at EXCEPT ![w] = stage]

Book(w, status, reason, bytes) ==
    assets' = Append(assets, [asset |-> Of(w), status |-> status, reason |-> reason,
                              bytes |-> bytes])

\* The next iteration of the worker's loop.
Continue(w) == Goto(w, "idle") /\ job' = [job EXCEPT ![w] = NoJob]

-----------------------------------------------------------------------------
(* Cache: the workers *)

Init ==
    /\ collected \in Collections
    /\ content = [s \in Allowed |-> None]   \* nobody has asked
    /\ unsent = Assets
    /\ at = [w \in Workers |-> "idle"]
    /\ job = [w \in Workers |-> NoJob]
    /\ temp = [s \in Sources |-> None] /\ final = [s \in Sources |-> None]
    /\ data = [a \in Assets |-> {}]
    /\ assets = <<>>
    /\ TotalBytes = 0 /\ reserved = 0

\* jobs <- asset meets a worker's receive. The order of unique is the messages'.
Take(w) ==
    /\ at[w] = "idle"
    /\ \E a \in unsent :
         /\ unsent' = unsent \ {a}
         /\ job' = [job EXCEPT ![w] = [NoJob EXCEPT !.asset = a]]
    /\ Goto(w, "judging")
    /\ UNCHANGED <<collected, content, files, books>>

SkipAs(w, reason) ==
    /\ Book(w, "skipped", reason, 0)
    /\ Continue(w)
    /\ UNCHANGED <<collected, content, unsent, files, TotalBytes, reserved>>

SkipUnsupported(w) ==
    at[w] = "judging" /\ ~Supported(Of(w)) /\ SkipAs(w, "unsupported_host")

SkipTooLarge(w) ==
    /\ at[w] = "judging" /\ Supported(Of(w)) /\ ~DeclaredFits(Of(w))
    /\ SkipAs(w, "file_too_large")

\* (a plausible bug) The asset is dropped without an entry in the manifest.
SkipOverLimitUnbooked(w) ==
    /\ at[w] = "judging" /\ Supported(Of(w)) /\ DeclaredFits(Of(w))
    /\ ~RoomFor(Of(w))
    /\ Continue(w)
    /\ UNCHANGED <<collected, content, unsent, files, books>>

SkipOverLimit(w) ==
    /\ at[w] = "judging" /\ Supported(Of(w)) /\ DeclaredFits(Of(w))
    /\ ~RoomFor(Of(w))
    /\ SkipAs(w, "transcript_limit")

Reserve(w) ==
    /\ at[w] = "judging" /\ Supported(Of(w)) /\ DeclaredFits(Of(w))
    /\ RoomFor(Of(w))
    /\ reserved' = reserved + Reservation(Of(w))
    /\ Goto(w, "fetching")
    /\ UNCHANGED <<collected, content, unsent, job, files, assets, TotalBytes>>

\* (a plausible bug) A failed download keeps its reservation.
BookFailureKeepsReservation(w) ==
    /\ at[w] = "failed"
    /\ Book(w, "failed", "error", 0)
    /\ Continue(w)
    /\ UNCHANGED <<collected, content, unsent, files, TotalBytes, reserved>>

\* (a plausible bug) A failed download ends its worker.
BookFailureQuits(w) ==
    /\ at[w] = "failed"
    /\ reserved' = reserved - Reservation(Of(w))
    /\ Book(w, "failed", "error", 0)
    /\ Goto(w, "gone") /\ job' = [job EXCEPT ![w] = NoJob]
    /\ UNCHANGED <<collected, content, unsent, files, TotalBytes>>

\* What the worker does under the mutex after the download.
BookFailure(w) ==
    /\ at[w] = "failed"
    /\ reserved' = reserved - Reservation(Of(w))
    /\ Book(w, "failed", "error", 0)
    /\ Continue(w)
    /\ UNCHANGED <<collected, content, unsent, files, TotalBytes>>

\* (a plausible bug) The file that did not fit stays.
BookOverLimitKeepsFile(w) ==
    /\ at[w] = "placed" /\ TotalBytes + job[w].body > TotalLimit
    /\ reserved' = reserved - Reservation(Of(w))
    /\ Book(w, "skipped", "transcript_limit", 0)
    /\ Continue(w)
    /\ UNCHANGED <<collected, content, unsent, files, TotalBytes>>

BookOverLimit(w) ==
    /\ at[w] = "placed" /\ TotalBytes + job[w].body > TotalLimit
    /\ reserved' = reserved - Reservation(Of(w))
    /\ final' = [final EXCEPT ![Source(Of(w))] = None]   \* os.Remove, by name
    /\ Book(w, "skipped", "transcript_limit", 0)
    /\ Continue(w)
    /\ UNCHANGED <<collected, content, unsent, temp, data, TotalBytes>>

BookCached(w) ==
    /\ at[w] = "placed" /\ TotalBytes + job[w].body <= TotalLimit
    /\ reserved' = reserved - Reservation(Of(w))
    /\ TotalBytes' = TotalBytes + job[w].body
    /\ Book(w, "cached", "", job[w].body)
    /\ Continue(w)
    /\ UNCHANGED <<collected, content, unsent, files>>

\* The channel is closed: the worker's range ends, and wg.Wait with the last one.
Exit(w) ==
    /\ at[w] = "idle" /\ unsent = {}
    /\ Goto(w, "gone")
    /\ UNCHANGED <<collected, content, unsent, job, files, books>>

-----------------------------------------------------------------------------
(* download *)

\* No usable response: transport error, refused redirect, bad status, a
\* Content-Length over FileLimit, the time-out; or no file could be opened.
FetchFails(w) ==
    /\ at[w] = "fetching"
    /\ Goto(w, "failed")
    /\ UNCHANGED <<collected, content, unsent, job, files, books>>

\* os.OpenFile, O_CREATE|O_TRUNC: a file left under that name is emptied, open
\* or not.
OpenTemp(w) ==
    LET a == Of(w) n == TempName(Source(a))
        i == IF temp[n] = None THEN a ELSE temp[n]
    IN /\ at[w] = "fetching"
       /\ \E size \in Bytes :
            /\ content[Source(a)] \in {None, size}   \* always the same answer
            /\ content' = [content EXCEPT ![Source(a)] = size]
            /\ job' = [job EXCEPT ![w].body = size, ![w].inode = i]
       /\ temp' = [temp EXCEPT ![n] = i]
       /\ data' = [data EXCEPT ![i] = {}]
       /\ Goto(w, "copying")
       /\ UNCHANGED <<collected, unsent, final, books>>

\* io.Copy, a byte at a time, at the descriptor's own offset.
Copy(w) ==
    /\ at[w] = "copying" /\ job[w].wrote < job[w].body
    /\ job' = [job EXCEPT ![w].wrote = @ + 1]
    /\ data' = [data EXCEPT ![job[w].inode] = @ \cup {job[w].wrote + 1}]
    /\ UNCHANGED <<collected, content, unsent, at, temp, final, books>>

\* The connection breaks, the time-out fires, the disk is full, Close fails.
CopyFails(w) ==
    /\ at[w] = "copying"
    /\ Goto(w, "dropping")
    /\ UNCHANGED <<collected, content, unsent, job, files, books>>

CopyEnds(w) ==
    /\ at[w] = "copying" /\ job[w].wrote = job[w].body
    /\ Goto(w, IF job[w].body > FileLimit THEN "dropping" ELSE "copied")
    /\ UNCHANGED <<collected, content, unsent, job, files, books>>

\* (a plausible bug) A broken download leaves its temporary file.
DropTempForgotten(w) ==
    /\ at[w] = "dropping"
    /\ Goto(w, "failed")
    /\ UNCHANGED <<collected, content, unsent, job, files, books>>

\* os.Remove(temp), by name; its error is ignored.
DropTemp(w) ==
    /\ at[w] = "dropping"
    /\ temp' = [temp EXCEPT ![TempName(Source(Of(w)))] = None]
    /\ Goto(w, "failed")
    /\ UNCHANGED <<collected, content, unsent, job, final, data, books>>

Rename(w) ==
    LET s == Source(Of(w)) n == TempName(s)
    IN /\ at[w] = "copied" /\ temp[n] # None
       /\ final' = [final EXCEPT ![s] = temp[n]]
       /\ temp' = [temp EXCEPT ![n] = None]
       /\ Goto(w, "placed")
       /\ UNCHANGED <<collected, content, unsent, job, data, books>>

\* The rename is refused; always when the temporary name is gone.
RenameFails(w) ==
    /\ at[w] = "copied"
    /\ Goto(w, "dropping")
    /\ UNCHANGED <<collected, content, unsent, job, files, books>>

-----------------------------------------------------------------------------
(* The pool *)

Work(w) ==
    \/ Take(w) \/ Exit(w)
    \/ SkipUnsupported(w) \/ SkipTooLarge(w) \/ SkipOverLimit(w) \/ Reserve(w)
    \/ BookFailure(w) \/ BookOverLimit(w) \/ BookCached(w)
    \/ FetchFails(w) \/ OpenTemp(w) \/ Copy(w) \/ CopyFails(w) \/ CopyEnds(w)
    \/ DropTemp(w) \/ Rename(w) \/ RenameFails(w)

\* Every asset has been sent and wg.Wait has returned.
Finished == unsent = {} /\ \A w \in Workers : at[w] = "gone"

Next == \E w \in Workers : Work(w)

Spec == Init /\ [][Next]_vars

\* A goroutine that can run does, and no download outlasts options.Timeout.
FairSpec == Spec /\ \A w \in Workers : WF_vars(Work(w))

-----------------------------------------------------------------------------
(* Properties *)

TypeOK ==
    /\ collected \in [Assets -> Asset] /\ content \in [Allowed -> Bytes \cup {None}]
    /\ unsent \subseteq Assets
    /\ at \in [Workers -> Stages]
    /\ job \in [Workers -> Job]
    /\ temp \in [Sources -> Assets \cup {None}]
    /\ final \in [Sources -> Assets \cup {None}]
    /\ data \in [Assets -> SUBSET Bytes]
    /\ assets \in Seq(Entry)
    /\ TotalBytes \in 0..TotalLimit
    /\ reserved \in Int /\ reserved <= TotalLimit

Busy == {w \in Workers : at[w] \notin {"idle", "gone"}}
InFlight == Busy \ {w \in Workers : at[w] = "judging"}

Entries(status) == {i \in DOMAIN assets : assets[i].status = status}

\* An asset is waiting, in the hands of one worker, or in the manifest, once:
\* whatever way a worker leaves its asset, the manifest accounts for it and
\* nobody else fetches it again.
OneOutcomeEach ==
    \A a \in Assets :
        Cardinality({i \in DOMAIN assets : assets[i].asset = a})
          + Cardinality({w \in Busy : Of(w) = a})
          + Cardinality({a} \cap unsent) = 1

\* The counters the workers share are what they stand for: TotalBytes the files
\* the manifest lists as cached, reserved the downloads in flight. A reservation
\* that is not returned makes every later asset of the transcript skipped.
AccountsAgree ==
    /\ TotalBytes = SumFunction([i \in Entries("cached") |-> assets[i].bytes])
    /\ reserved = SumFunction([w \in InFlight |-> Reservation(Of(w))])

\* As long as no response was longer than what was reserved for it, a download
\* that was let through is never thrown away for lack of room afterwards: the
\* reservations of the workers never overlap.
ReservationsHold ==
    (\A i \in Entries("cached") : assets[i].bytes <= Reservation(assets[i].asset))
        => /\ TotalBytes + reserved <= TotalLimit
           /\ \A w \in Workers :
                (at[w] = "placed" /\ job[w].body <= Reservation(Of(w)))
                    => TotalBytes + job[w].body <= TotalLimit

\* What the manifest lists as cached is in the directory, complete: under the
\* name the transcript links to there is the whole of the response.
CachedIsWhole ==
    \A i \in Entries("cached") :
        LET s == Source(assets[i].asset)
        IN final[s] # None /\ data[final[s]] = 1..assets[i].bytes

SizeOf(i) == IF i = None \/ data[i] = {} THEN 0 ELSE Max(data[i])

DirectoryBytes == SumFunction([s \in Sources |-> SizeOf(temp[s]) + SizeOf(final[s])])

\* Cache keeps what AssetBudget promises the exporter: the directory never holds more
\* than the transcript's limit and one file, with the byte that shows it is too large,
\* per worker, whatever the servers send; and TotalBytes covers every file left in it.
Budget == INSTANCE AssetBudget WITH
    Peak <- TotalLimit + Cardinality(Workers) * (FileLimit + 1),
    budget <- [running |-> ~Finished, onDisk |-> DirectoryBytes, booked |-> TotalBytes]
WithinBudget == Budget!Spec

\* When Cache returns, every file in the directory is one the manifest lists.
NoLeftovers ==
    Finished => \A s \in Sources :
        /\ temp[s] = None
        /\ final[s] # None => \E i \in Entries("cached") : Source(assets[i].asset) = s

\* Cache returns: no outcome of a download stops the pool, and the sender is
\* never left without a worker to hand an asset to.
Termination == <>Finished

===============================================================================

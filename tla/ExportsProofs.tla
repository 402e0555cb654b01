----------------------------- MODULE ExportsProofs -----------------------------
(***************************************************************************)
(* Proofs about Exports, for any number of requests, transcripts, crashes  *)
(* and upgrades, and any limits that ExportsAssumption allows.             *)
(***************************************************************************)
EXTENDS Exports, SumProofs, FiniteSetTheorems, TLAPS

-------------------------------------------------------------------------------
(* The invariant. *)

BundleStages == {"caching", "rendering", "documents", "publishing", "adding", "undo", "cleanup"}
HoldingStages == BundleStages \cup {"fetching", "release"}

\* One request at most is past acquireExport, it holds the slot, and it holds the
\* reservation from the check to release; a process that does not serve has none.
SlotInv ==
    /\ \A q, r \in Requests : req[q].at # "idle" /\ req[r].at # "idle" => q = r
    /\ exportSlots = IF \E r \in Requests : req[r].at # "idle" THEN 1 ELSE 0
    /\ storageReserved = IF \E r \in Requests : req[r].at \in HoldingStages
                         THEN Reservation ELSE 0
    /\ phase # "up" => \A r \in Requests : req[r].at = "idle"

\* The bundle of a request has no record before Add; it is published whole.
BundleOf(r) ==
    /\ req[r].id \in IDs
    /\ rendered[req[r].id] = None
    /\ dir[req[r].id].at = IF req[r].at \in {"adding", "undo"} THEN "final" ELSE "temp"
    /\ req[r].at \in {"documents", "publishing", "adding", "undo"} =>
          dir[req[r].id].html > 0 /\ dir[req[r].id].by = renderer

\* How far the refresh of a start is with the bundle it is at.
RefreshInv ==
    /\ step = "-" <=> current = None
    /\ step # "-" => phase = "refresh" /\ dir[current].at = "final"
    /\ step = "copied" => dir[current].copy > 0
    /\ step = "renamed" => dir[current].by = renderer

\* No record is of a renderer that never ran.
RecordsKnown == \A i \in IDs : rendered[i] # None => rendered[i] <= renderer

BundleInv ==
    /\ \A r \in Requests : req[r].at \in BundleStages => BundleOf(r)
    /\ RefreshInv
    /\ RecordsKnown
    /\ HtmlAsRecorded

Inv == TypeOK /\ DOMAIN cache = Requests /\ SlotInv /\ BundleInv

-------------------------------------------------------------------------------
(* One entry of a table. *)

LEMMA LimitsFacts ==
    /\ Reservation \in Nat /\ HtmlLimit \in Nat /\ Peak \in Nat /\ TotalLimit \in Nat
    /\ MaxUpgrades \in Nat /\ MaxCrashes \in Nat /\ None \notin IDs
  BY ExportsAssumption

LEMMA NoDirectoryType == NoDirectory \in Directory
  BY LimitsFacts DEF NoDirectory, Directory, Renderers

\* A request goes on to another stage, with the transcript it had.
LEMMA GotoFacts ==
  ASSUME TypeOK, NEW r \in Requests, NEW stage \in Stages, Goto(r, stage)
  PROVE  /\ req' \in [Requests -> Request]
         /\ req'[r].at = stage /\ req'[r].id = req[r].id
         /\ \A q \in Requests : q # r => req'[q] = req[q]
<1>1. req \in [Requests -> Request] /\ req[r] \in Request
  BY DEF TypeOK
<1>2. /\ [req[r] EXCEPT !.at = stage] \in Request
      /\ [req[r] EXCEPT !.at = stage].at = stage
      /\ [req[r] EXCEPT !.at = stage].id = req[r].id
  BY <1>1 DEF Request
<1>3. req' = [req EXCEPT ![r] = [req[r] EXCEPT !.at = stage]]
  BY DEF Goto
<1> QED
  BY <1>1, <1>2, <1>3

\* A directory takes the place of another.
LEMMA EntryFacts ==
  ASSUME NEW D \in [IDs -> Directory], NEW i \in IDs, NEW d \in Directory
  PROVE  /\ [D EXCEPT ![i] = d] \in [IDs -> Directory]
         /\ [D EXCEPT ![i] = d][i] = d
         /\ \A j \in IDs : j # i => [D EXCEPT ![i] = d][j] = D[j]
  OBVIOUS

\* The fields of a directory in which one is set.
LEMMA SetAt ==
  ASSUME NEW d \in Directory, NEW x \in {"none", "temp", "final"}
  PROVE  LET e == [d EXCEPT !.at = x]
         IN  /\ e \in Directory /\ e.at = x
             /\ e.assets = d.assets /\ e.html = d.html /\ e.docs = d.docs
             /\ e.copy = d.copy /\ e.by = d.by
  BY DEF Directory

LEMMA SetAssets ==
  ASSUME NEW d \in Directory, NEW x \in 0..Peak
  PROVE  LET e == [d EXCEPT !.assets = x]
         IN  /\ e \in Directory /\ e.assets = x
             /\ e.at = d.at /\ e.html = d.html /\ e.docs = d.docs
             /\ e.copy = d.copy /\ e.by = d.by
  BY DEF Directory

LEMMA SetHtml ==
  ASSUME NEW d \in Directory, NEW x \in 0..HtmlLimit
  PROVE  LET e == [d EXCEPT !.html = x]
         IN  /\ e \in Directory /\ e.html = x
             /\ e.at = d.at /\ e.assets = d.assets /\ e.docs = d.docs
             /\ e.copy = d.copy /\ e.by = d.by
  BY DEF Directory

LEMMA SetDocs ==
  ASSUME NEW d \in Directory, NEW x \in 0..Reservation
  PROVE  LET e == [d EXCEPT !.docs = x]
         IN  /\ e \in Directory /\ e.docs = x
             /\ e.at = d.at /\ e.assets = d.assets /\ e.html = d.html
             /\ e.copy = d.copy /\ e.by = d.by
  BY DEF Directory

LEMMA SetCopy ==
  ASSUME NEW d \in Directory, NEW x \in 0..HtmlLimit
  PROVE  LET e == [d EXCEPT !.copy = x]
         IN  /\ e \in Directory /\ e.copy = x
             /\ e.at = d.at /\ e.assets = d.assets /\ e.html = d.html
             /\ e.docs = d.docs /\ e.by = d.by
  BY DEF Directory

LEMMA SetBy ==
  ASSUME NEW d \in Directory, NEW x \in Renderers
  PROVE  LET e == [d EXCEPT !.by = x]
         IN  /\ e \in Directory /\ e.by = x
             /\ e.at = d.at /\ e.assets = d.assets /\ e.html = d.html
             /\ e.docs = d.docs /\ e.copy = d.copy
  BY DEF Directory

\* What is left of the reservation is never more than all of it.
LEMMA RemainingFacts ==
  ASSUME TypeOK, NEW r \in Requests, req[r].id \in IDs
  PROVE  Remaining(r) \in Int /\ Remaining(r) <= Reservation
<1>1. cache[r].booked \in Nat
  <2>1. cache[r] \in Assets(r)!Budget
    BY DEF TypeOK
  <2> QED
    BY <2>1, LimitsFacts DEF Assets!Budget
<1>2. dir[req[r].id].html \in Nat /\ dir[req[r].id].docs \in Nat
  <2>1. dir[req[r].id] \in Directory
    BY DEF TypeOK
  <2> QED
    BY <2>1, LimitsFacts DEF Directory
<1> QED
  BY <1>1, <1>2, LimitsFacts DEF Remaining

-------------------------------------------------------------------------------
(* The slot and the reservation. *)

\* A step after which the same requests hold the slot and the reservation.
LEMMA SlotSame ==
  ASSUME SlotInv, UNCHANGED slots,
         \A q \in Requests : /\ req'[q].at = "idle" <=> req[q].at = "idle"
                             /\ req'[q].at \in HoldingStages <=> req[q].at \in HoldingStages,
         phase' = "up" \/ \A q \in Requests : req[q].at = "idle"
  PROVE  SlotInv'
  BY DEF SlotInv, slots

\* The request that has the slot goes on, and neither takes nor returns anything.
LEMMA SlotGoto ==
  ASSUME TypeOK, SlotInv, UNCHANGED <<boot, slots>>, NEW r \in Requests, phase = "up",
         req[r].at # "idle", req'[r].at # "idle",
         req'[r].at \in HoldingStages <=> req[r].at \in HoldingStages,
         \A q \in Requests : q # r => req'[q] = req[q]
  PROVE  SlotInv'
<1>1. \A q \in Requests : /\ req'[q].at = "idle" <=> req[q].at = "idle"
                          /\ req'[q].at \in HoldingStages <=> req[q].at \in HoldingStages
  OBVIOUS
<1> QED
  BY <1>1, SlotSame DEF boot

LEMMA SlotRequest ==
  ASSUME TypeOK, SlotInv, NEW r \in Requests, Acquire(r) \/ CreateTranscript(r)
  PROVE  SlotInv'
<1> USE DEF HoldingStages, BundleStages
<1>1. phase = "up" /\ req \in [Requests -> Request] /\ UNCHANGED boot
  BY DEF Acquire, CreateTranscript, ReserveStorage, RefuseStorage, FetchFails, MakeDirectory,
     Caching, CacheReturns, CacheFails, WriteHtml, WriteDocuments, WriteFails, Publish,
     PublishFails, Add, AddFails, Cleanup, Release, ReleaseExport, At, TypeOK
<1>2. phase' = "up"
  BY <1>1 DEF boot
<1>3. CASE Acquire(r)
  <2>1. \A q \in Requests : req[q].at = "idle"
    BY <1>3 DEF Acquire, SlotInv
  <2>2. req'[r].at = "acquired" /\ \A q \in Requests : q # r => req'[q] = req[q]
    BY <1>3, GotoFacts DEF Acquire, Stages
  <2>3. exportSlots' = 1 /\ storageReserved' = 0
    BY <1>3, <2>1 DEF Acquire, SlotInv
  <2> QED
    BY <1>2, <2>1, <2>2, <2>3 DEF SlotInv
<1>4. ASSUME req[r].at # "idle"
      PROVE  \A q \in Requests : q # r => req[q].at = "idle"
  BY <1>4 DEF SlotInv
<1>5. CASE ReserveStorage(r)
  <2>1. req[r].at = "acquired" /\ \A q \in Requests : q # r => req[q].at = "idle"
    BY <1>4, <1>5 DEF ReserveStorage, At
  <2>2. req'[r].at = "fetching" /\ \A q \in Requests : q # r => req'[q] = req[q]
    BY <1>5, GotoFacts DEF ReserveStorage, Stages
  <2>3. exportSlots = 1 /\ storageReserved = 0
    BY <2>1 DEF SlotInv
  <2>4. exportSlots' = 1 /\ storageReserved' = Reservation
    BY <1>5, <2>3, LimitsFacts DEF ReserveStorage
  <2> QED
    BY <1>2, <2>1, <2>2, <2>4 DEF SlotInv
<1>6. CASE Release(r)
  <2>1. req[r].at = "release" /\ \A q \in Requests : q # r => req[q].at = "idle"
    BY <1>4, <1>6 DEF Release, At
  <2>2. req'[r].at = "leave" /\ \A q \in Requests : q # r => req'[q] = req[q]
    BY <1>6, GotoFacts DEF Release, Stages
  <2>3. exportSlots = 1 /\ storageReserved = Reservation
    BY <2>1 DEF SlotInv
  <2>4. exportSlots' = 1 /\ storageReserved' = 0
    BY <1>6, <2>3, LimitsFacts DEF Release
  <2> QED
    BY <1>2, <2>1, <2>2, <2>4 DEF SlotInv
<1>7. CASE ReleaseExport(r)
  <2>1. req[r].at = "leave" /\ \A q \in Requests : q # r => req[q].at = "idle"
    BY <1>4, <1>7 DEF ReleaseExport, At
  <2>2. \A q \in Requests : req'[q].at = "idle"
    BY <1>1, <1>7, <2>1 DEF ReleaseExport, NoRequest
  <2>3. exportSlots = 1 /\ storageReserved = 0
    BY <2>1 DEF SlotInv
  <2>4. exportSlots' = 0 /\ storageReserved' = 0
    BY <1>7, <2>3 DEF ReleaseExport
  <2> QED
    BY <1>2, <2>2, <2>4 DEF SlotInv
<1>8. CASE RefuseStorage(r)
  <2>1. req[r].at = "acquired" /\ req'[r].at = "leave"
        /\ \A q \in Requests : q # r => req'[q] = req[q]
    BY <1>8, GotoFacts DEF RefuseStorage, At, Stages
  <2> QED
    BY <1>1, <1>8, <2>1, SlotGoto DEF RefuseStorage
<1>9. CASE \/ FetchFails(r) \/ CacheReturns(r) \/ CacheFails(r) \/ WriteHtml(r)
           \/ WriteDocuments(r) \/ WriteFails(r) \/ Publish(r) \/ PublishFails(r) \/ AddFails(r)
  <2>1. /\ req[r].at \in HoldingStages
        /\ \E stage \in HoldingStages : Goto(r, stage)
        /\ UNCHANGED slots
    BY <1>9 DEF FetchFails, CacheReturns, CacheFails, WriteHtml, WriteDocuments, WriteFails,
         Publish, PublishFails, AddFails, At
  <2>2. PICK stage \in HoldingStages : Goto(r, stage)
    BY <2>1
  <2>3. req'[r].at \in HoldingStages /\ \A q \in Requests : q # r => req'[q] = req[q]
    BY <2>2, GotoFacts DEF Stages
  <2> QED
    BY <1>1, <2>1, <2>3, SlotGoto
<1>10. CASE MakeDirectory(r) \/ Add(r) \/ Cleanup(r)
  <2>1. /\ req[r].at \in HoldingStages
        /\ req'[r].at \in HoldingStages /\ \A q \in Requests : q # r => req'[q] = req[q]
        /\ UNCHANGED slots
    BY <1>1, <1>10 DEF MakeDirectory, Add, Cleanup, At
  <2> QED
    BY <1>1, <2>1, SlotGoto
<1>11. CASE Caching(r)
  <2>1. req' = req /\ UNCHANGED slots
    BY <1>11 DEF Caching
  <2> QED
    BY <1>2, <2>1, SlotSame
<1> QED
  BY <1>3, <1>5, <1>6, <1>7, <1>8, <1>9, <1>10, <1>11 DEF CreateTranscript

LEMMA SlotNext == TypeOK /\ SlotInv /\ [Next]_vars => SlotInv'
<1> SUFFICES ASSUME TypeOK, SlotInv, [Next]_vars PROVE SlotInv'
  OBVIOUS
<1>1. CASE \E r \in Requests : Acquire(r) \/ CreateTranscript(r)
  BY <1>1, SlotRequest
<1>2. CASE Crash
  <2>1. \A r \in Requests : req'[r].at = "idle"
    BY <1>2 DEF Crash, NoRequest
  <2> QED
    BY <1>2, <2>1 DEF Crash, SlotInv, HoldingStages, BundleStages
<1>3. CASE Boot \/ (\E i \in IDs : Delete(i)) \/ UNCHANGED vars
  <2>1. UNCHANGED <<req, slots>>
    BY <1>3 DEF Boot, Start, CleanupInterrupted, ListenAndServe, RefreshSkip, RefreshCopy,
         RefreshRename, RefreshRenameFails, RefreshRecord, Delete, slots, vars
  <2>2. phase' = "up" \/ \A r \in Requests : req[r].at = "idle"
    <3>1. CASE phase # "up"
      BY <3>1 DEF SlotInv
    <3>2. CASE phase = "up"
      BY <1>3, <3>2 DEF Boot, Start, CleanupInterrupted, ListenAndServe, RefreshSkip, RefreshCopy,
         RefreshRename, RefreshRenameFails, RefreshRecord, Refreshing, Delete, boot, vars
    <3> QED
      BY <3>1, <3>2
  <2> QED
    BY <2>1, <2>2, SlotSame
<1> QED
  BY <1>1, <1>2, <1>3 DEF Next

-------------------------------------------------------------------------------
(* Types and bundles, while the server is up. *)

\* One request's cache moves on to another budget.
LEMMA CacheFacts ==
  ASSUME TypeOK, DOMAIN cache = Requests, NEW r \in Requests, NEW b \in Assets(r)!Budget,
         cache' = [cache EXCEPT ![r] = b]
  PROVE  DOMAIN cache' = Requests /\ \A q \in Requests : cache'[q] \in Assets(q)!Budget
<1>1. \A q \in Requests : cache'[q] = IF q = r THEN b ELSE cache[q]
  OBVIOUS
<1> QED
  BY <1>1 DEF TypeOK, Assets!Budget

LEMMA NoCacheType == \A r \in Requests : NoCache \in Assets(r)!Budget
  BY LimitsFacts DEF NoCache, Assets!Budget

\* A step that leaves the boot alone, from the types of what it changes.
LEMMA TypeFromParts ==
  ASSUME TypeOK, UNCHANGED boot, SlotInv', req' \in [Requests -> Request],
         \A q \in Requests : cache'[q] \in Assets(q)!Budget,
         dir' \in [IDs -> Directory], rendered' \in [IDs -> Renderers \cup {None}]
  PROVE  TypeOK'
<1>1. exportSlots' \in 0..1 /\ storageReserved' \in Int
  BY LimitsFacts DEF SlotInv
<1>2. \A q \in Requests : (cache[q] \in Assets(q)!Budget)'
  BY DEF Assets!Budget
<1> QED
  BY <1>1, <1>2 DEF TypeOK, boot

\* The transcripts but one are left alone, and so are the requests but one.
LEMMA BundleFromParts ==
  ASSUME Inv, phase = "up", UNCHANGED boot, NEW r \in Requests, NEW i \in IDs,
         \A q \in Requests : q # r => req[q].at = "idle" /\ req'[q] = req[q],
         \A j \in IDs : j # i => dir'[j] = dir[j] /\ rendered'[j] = rendered[j],
         req'[r].at \in BundleStages => BundleOf(r)',
         dir'[i].at = "final" =>
            dir'[i].html > 0 /\ (rendered'[i] # None => rendered'[i] <= dir'[i].by),
         rendered'[i] # None => rendered'[i] <= renderer
  PROVE  BundleInv'
<1>1. \A q \in Requests : req'[q].at \in BundleStages => BundleOf(q)'
  BY DEF BundleStages
<1>2. step = "-" /\ current = None /\ UNCHANGED <<step, current, renderer>>
  BY DEF Inv, BundleInv, RefreshInv, boot
<1>3. RefreshInv'
  BY <1>2 DEF RefreshInv
<1>4. RecordsKnown'
  BY <1>2 DEF Inv, BundleInv, RecordsKnown
<1>5. HtmlAsRecorded'
  BY DEF Inv, BundleInv, HtmlAsRecorded
<1> QED
  BY <1>1, <1>3, <1>4, <1>5 DEF BundleInv

\* Neither the directory nor the registry is touched.
LEMMA BundleSame ==
  ASSUME BundleInv, UNCHANGED <<phase, renderer, current, step, dir, rendered>>,
         \A q \in Requests : req'[q].at \in BundleStages => BundleOf(q)'
  PROVE  BundleInv'
  BY DEF BundleInv, RefreshInv, RecordsKnown, HtmlAsRecorded

\* What a request with a bundle may rely on.
LEMMA BundleFacts ==
  ASSUME Inv, NEW r \in Requests, req[r].at \in BundleStages
  PROVE  /\ BundleOf(r) /\ req[r].id \in IDs /\ dir[req[r].id] \in Directory
         /\ \A q \in Requests : q # r => req[q].at = "idle"
  BY DEF Inv, BundleInv, BundleOf, SlotInv, TypeOK, BundleStages

\* A request goes on, and leaves the directories, the caches and the registry alone.
LEMMA StepInv ==
  ASSUME Inv, SlotInv', NEW r \in Requests, phase = "up", UNCHANGED <<boot, cache, dir, rendered>>,
         NEW stage \in Stages, Goto(r, stage),
         stage \in BundleStages =>
            <<req[r].at, stage>> \in {<<"caching", "cleanup">>, <<"publishing", "cleanup">>,
                                      <<"adding", "undo">>}
  PROVE  Inv'
<1>1. /\ req' \in [Requests -> Request] /\ req'[r].at = stage /\ req'[r].id = req[r].id
      /\ \A q \in Requests : q # r => req'[q] = req[q]
  BY GotoFacts DEF Inv
<1>2. ASSUME NEW q \in Requests, req'[q].at \in BundleStages
      PROVE  BundleOf(q)'
  <2>1. CASE q # r
    BY <1>1, <1>2, <2>1 DEF Inv, BundleInv, BundleOf, boot
  <2>2. CASE q = r
    <3>1. <<req[r].at, stage>> \in {<<"caching", "cleanup">>, <<"publishing", "cleanup">>,
                                    <<"adding", "undo">>}
      BY <1>1, <1>2, <2>2
    <3>2. BundleOf(r)
      BY <3>1 DEF Inv, BundleInv, BundleStages
    <3> QED
      BY <1>1, <2>2, <3>1, <3>2 DEF BundleOf, boot
  <2> QED
    BY <2>1, <2>2
<1>3. BundleInv'
  BY <1>2, BundleSame DEF Inv, boot
<1>4. TypeOK'
  BY <1>1, TypeFromParts DEF Inv, TypeOK
<1> QED
  BY <1>3, <1>4 DEF Inv

LEMMA MoveInv ==
  ASSUME Inv, SlotInv', NEW r \in Requests,
         \/ Acquire(r) \/ ReserveStorage(r) \/ RefuseStorage(r) \/ FetchFails(r)
         \/ Release(r) \/ CacheFails(r) \/ PublishFails(r) \/ AddFails(r)
  PROVE  Inv'
<1>1. phase = "up" /\ UNCHANGED <<boot, cache, dir, rendered>>
  BY DEF Acquire, ReserveStorage, RefuseStorage, FetchFails, Release, CacheFails, PublishFails,
     AddFails, At
<1>2. \E stage \in Stages :
         /\ Goto(r, stage)
         /\ stage \in BundleStages =>
               <<req[r].at, stage>> \in {<<"caching", "cleanup">>, <<"publishing", "cleanup">>,
                                         <<"adding", "undo">>}
  <2>1. CASE Acquire(r) \/ ReserveStorage(r) \/ RefuseStorage(r) \/ FetchFails(r) \/ Release(r)
    <3>1. \E stage \in {"acquired", "fetching", "leave", "release"} : Goto(r, stage)
      BY <2>1 DEF Acquire, ReserveStorage, RefuseStorage, FetchFails, Release
    <3> QED
      BY <3>1 DEF Stages, BundleStages
  <2>2. CASE CacheFails(r) \/ PublishFails(r)
    <3>1. Goto(r, "cleanup") /\ req[r].at \in {"caching", "publishing"}
      BY <2>2 DEF CacheFails, PublishFails, At
    <3> QED
      BY <3>1 DEF Stages
  <2>3. CASE AddFails(r)
    BY <2>3 DEF AddFails, At, Stages
  <2> QED
    BY <2>1, <2>2, <2>3
<1> QED
  BY <1>1, <1>2, StepInv

LEMMA ReleaseExportInv ==
  ASSUME Inv, SlotInv', NEW r \in Requests, ReleaseExport(r)
  PROVE  Inv'
<1>1. NoRequest \in Request /\ NoRequest.at \notin BundleStages
  BY DEF NoRequest, Request, Stages, BundleStages
<1>2. /\ UNCHANGED <<boot, cache, dir, rendered>>
      /\ req' \in [Requests -> Request] /\ req'[r] = NoRequest
      /\ \A q \in Requests : q # r => req'[q] = req[q]
  BY <1>1 DEF ReleaseExport, Inv, TypeOK
<1>3. \A q \in Requests : req'[q].at \in BundleStages => BundleOf(q)'
  BY <1>1, <1>2 DEF Inv, BundleInv, BundleOf, boot
<1>4. BundleInv'
  BY <1>2, <1>3, BundleSame DEF Inv, boot
<1>5. TypeOK'
  BY <1>2, TypeFromParts DEF Inv, TypeOK
<1> QED
  BY <1>2, <1>4, <1>5 DEF Inv

LEMMA MakeDirectoryInv ==
  ASSUME Inv, SlotInv', NEW r \in Requests, MakeDirectory(r)
  PROVE  Inv'
<1>1. PICK i \in IDs :
         /\ rendered[i] = None
         /\ dir' = [dir EXCEPT ![i] = [NoDirectory EXCEPT !.at = "temp"]]
         /\ req' = [req EXCEPT ![r] = [at |-> "caching", id |-> i]]
  BY DEF MakeDirectory
<1>2. PICK b \in Assets(r)!Budget : cache' = [cache EXCEPT ![r] = b]
  BY DEF MakeDirectory, Assets!Fresh
<1>3. /\ phase = "up" /\ UNCHANGED <<boot, rendered>> /\ req[r].at # "idle"
      /\ req \in [Requests -> Request] /\ dir \in [IDs -> Directory]
  BY DEF MakeDirectory, At, Inv, TypeOK
<1>4. \A q \in Requests : q # r => req[q].at = "idle" /\ req'[q] = req[q]
  BY <1>1, <1>3 DEF Inv, SlotInv
<1>5. /\ dir' \in [IDs -> Directory] /\ dir'[i].at = "temp"
      /\ \A j \in IDs : j # i => dir'[j] = dir[j]
  <2>1. LET e == [NoDirectory EXCEPT !.at = "temp"] IN e \in Directory /\ e.at = "temp"
    BY NoDirectoryType, SetAt
  <2> QED
    BY <1>1, <1>3, <2>1, EntryFacts
<1>6. [at |-> "caching", id |-> i] \in Request
  BY DEF Request, Stages
<1>7. req' \in [Requests -> Request] /\ req'[r].at = "caching" /\ req'[r].id = i
  BY <1>1, <1>3, <1>6
<1>8. BundleOf(r)'
  BY <1>1, <1>3, <1>5, <1>7 DEF BundleOf
<1>9. BundleInv'
  BY <1>1, <1>3, <1>4, <1>5, <1>8, BundleFromParts
<1>10. DOMAIN cache' = Requests /\ \A q \in Requests : cache'[q] \in Assets(q)!Budget
  BY <1>2, CacheFacts DEF Inv
<1>11. TypeOK'
  BY <1>3, <1>5, <1>7, <1>10, TypeFromParts DEF Inv, TypeOK
<1> QED
  BY <1>9, <1>10, <1>11 DEF Inv

\* A request goes on, and its bundle is as the stage it gets to wants it.
LEMMA FillInv ==
  ASSUME Inv, SlotInv', NEW r \in Requests, req[r].at \in BundleStages, phase = "up",
         UNCHANGED <<boot, rendered>>,
         DOMAIN cache' = Requests, \A q \in Requests : cache'[q] \in Assets(q)!Budget,
         NEW d \in Directory, dir' = [dir EXCEPT ![req[r].id] = d],
         req' \in [Requests -> Request], req'[r].id = req[r].id,
         \A q \in Requests : q # r => req'[q] = req[q],
         d.at = IF req'[r].at \in {"adding", "undo"} THEN "final" ELSE "temp",
         req'[r].at \in {"documents", "publishing", "adding", "undo"} =>
            d.html > 0 /\ d.by = renderer
  PROVE  Inv'
<1> DEFINE i == req[r].id
<1>1. /\ BundleOf(r) /\ i \in IDs
      /\ \A q \in Requests : q # r => req[q].at = "idle"
  BY BundleFacts
<1>2. /\ dir' \in [IDs -> Directory] /\ dir'[i] = d
      /\ \A j \in IDs : j # i => dir'[j] = dir[j]
  <2>1. dir \in [IDs -> Directory] /\ dir' = [dir EXCEPT ![i] = d]
    BY DEF Inv, TypeOK
  <2>2. i \in IDs /\ d \in Directory
    BY <1>1
  <2> HIDE DEF i
  <2> QED
    BY <2>1, <2>2
<1>3. rendered'[i] = None /\ \A j \in IDs : rendered'[j] = rendered[j]
  BY <1>1 DEF BundleOf
<1>4. BundleOf(r)'
  BY <1>1, <1>2, <1>3 DEF BundleOf, boot
<1>5. dir'[i].at = "final" => dir'[i].html > 0
  BY <1>2
<1> HIDE DEF i
<1>6. BundleInv'
  BY <1>1, <1>2, <1>3, <1>4, <1>5, BundleFromParts
<1>7. TypeOK'
  BY <1>2, TypeFromParts DEF Inv, TypeOK
<1> QED
  BY <1>6, <1>7 DEF Inv

LEMMA CachingInv ==
  ASSUME Inv, SlotInv', NEW r \in Requests, Caching(r) \/ CacheReturns(r)
  PROVE  Inv'
<1>1. PICK b \in Assets(r)!Budget : CacheTo(r, b)
  BY DEF Caching, CacheReturns, Assets!Downloads, Assets!Returns
<1>2. /\ phase = "up" /\ req[r].at = "caching" /\ UNCHANGED <<boot, rendered>>
  BY DEF Caching, CacheReturns, At
<1>3. BundleOf(r) /\ req[r].id \in IDs /\ dir[req[r].id] \in Directory
  BY <1>2, BundleFacts DEF BundleStages
<1>4. DOMAIN cache' = Requests /\ \A q \in Requests : cache'[q] \in Assets(q)!Budget
  BY <1>1, CacheFacts DEF Inv, CacheTo
<1> DEFINE d == [dir[req[r].id] EXCEPT !.assets = b.onDisk]
<1>5. d \in Directory /\ d.at = "temp"
  <2>1. b.onDisk \in 0..Peak
    BY DEF Assets!Budget
  <2>2. dir[req[r].id].at = "temp"
    BY <1>2, <1>3 DEF BundleOf
  <2> QED
    BY <1>3, <2>1, <2>2, SetAssets
<1>6. dir' = [dir EXCEPT ![req[r].id] = d]
  BY <1>1 DEF CacheTo
<1>7. /\ req' \in [Requests -> Request] /\ req'[r].id = req[r].id
      /\ req'[r].at \in {"caching", "rendering"}
      /\ \A q \in Requests : q # r => req'[q] = req[q]
  <2>1. CASE Caching(r)
    BY <1>2, <2>1 DEF Caching, Inv, TypeOK
  <2>2. CASE CacheReturns(r)
    BY <2>2, GotoFacts DEF CacheReturns, Inv, Stages
  <2> QED
    BY <2>1, <2>2
<1> HIDE DEF d
<1> QED
  BY <1>2, <1>4, <1>5, <1>6, <1>7, FillInv DEF BundleStages

LEMMA WriteHtmlInv ==
  ASSUME Inv, SlotInv', NEW r \in Requests, WriteHtml(r)
  PROVE  Inv'
<1> DEFINE i == req[r].id
<1>1. PICK n \in 1..HtmlLimit :
         dir' = [dir EXCEPT ![i].html = n, ![i].by = renderer]
  BY DEF WriteHtml
<1>2. /\ phase = "up" /\ req[r].at = "rendering" /\ UNCHANGED <<boot, cache, rendered>>
  BY DEF WriteHtml, At
<1>3. BundleOf(r) /\ i \in IDs /\ dir[i] \in Directory
  BY <1>2, BundleFacts DEF BundleStages
<1> DEFINE c == [dir[i] EXCEPT !.html = n]
           d == [c EXCEPT !.by = renderer]
<1>4. c \in Directory /\ c.at = "temp" /\ c.html = n
  <2>1. dir[i].at = "temp" /\ n \in 0..HtmlLimit
    BY <1>2, <1>3, LimitsFacts DEF BundleOf
  <2> QED
    BY <1>3, <2>1, SetHtml
<1>5. dir' = [dir EXCEPT ![i] = d]
  BY <1>1, <1>3 DEF Inv, TypeOK
<1>6. d \in Directory /\ d.at = "temp" /\ d.html = n /\ d.by = renderer
  <2>1. renderer \in Renderers
    BY DEF Inv, TypeOK
  <2> HIDE DEF c
  <2> QED
    BY <1>4, <2>1, SetBy
<1>7. /\ req' \in [Requests -> Request] /\ req'[r].id = i /\ req'[r].at = "documents"
      /\ \A q \in Requests : q # r => req'[q] = req[q]
  BY GotoFacts DEF WriteHtml, Inv, Stages
<1>8. n > 0
  BY LimitsFacts
<1>9. DOMAIN cache' = Requests /\ \A q \in Requests : cache'[q] \in Assets(q)!Budget
  BY <1>2 DEF Inv, TypeOK
<1> HIDE DEF d
<1> QED
  BY <1>2, <1>5, <1>6, <1>7, <1>8, <1>9, FillInv DEF BundleStages

LEMMA WriteDocumentsInv ==
  ASSUME Inv, SlotInv', NEW r \in Requests, WriteDocuments(r) \/ WriteFails(r)
  PROVE  Inv'
<1> DEFINE i == req[r].id
<1>1. PICK n \in 0..Remaining(r) : dir' = [dir EXCEPT ![i].docs = n]
  BY DEF WriteDocuments, WriteFails
<1>2. /\ phase = "up" /\ req[r].at \in {"rendering", "documents"}
      /\ UNCHANGED <<boot, cache, rendered>>
  BY DEF WriteDocuments, WriteFails, At
<1>3. BundleOf(r) /\ i \in IDs /\ dir[i] \in Directory
  BY <1>2, BundleFacts DEF BundleStages
<1> DEFINE d == [dir[i] EXCEPT !.docs = n]
<1>4. d \in Directory /\ d.at = "temp" /\ d.html = dir[i].html /\ d.by = dir[i].by
  <2>1. n \in 0..Reservation
    BY <1>3, RemainingFacts, LimitsFacts DEF Inv
  <2>2. dir[i].at = "temp"
    BY <1>2, <1>3 DEF BundleOf
  <2> QED
    BY <1>3, <2>1, <2>2, SetDocs
<1>5. dir' = [dir EXCEPT ![i] = d]
  BY <1>1
<1>6. /\ req' \in [Requests -> Request] /\ req'[r].id = i
      /\ \/ req'[r].at = "cleanup"
         \/ req[r].at = "documents" /\ req'[r].at = "publishing"
      /\ \A q \in Requests : q # r => req'[q] = req[q]
  BY GotoFacts DEF WriteDocuments, WriteFails, At, Inv, Stages
<1>7. req[r].at = "documents" => dir[i].html > 0 /\ dir[i].by = renderer
  BY <1>3 DEF BundleOf
<1>8. DOMAIN cache' = Requests /\ \A q \in Requests : cache'[q] \in Assets(q)!Budget
  BY <1>2 DEF Inv, TypeOK
<1> HIDE DEF d
<1> QED
  BY <1>2, <1>4, <1>5, <1>6, <1>7, <1>8, FillInv DEF BundleStages

LEMMA PublishInv ==
  ASSUME Inv, SlotInv', NEW r \in Requests, Publish(r)
  PROVE  Inv'
<1> DEFINE i == req[r].id
<1>1. /\ phase = "up" /\ req[r].at = "publishing" /\ UNCHANGED <<boot, cache, rendered>>
  BY DEF Publish, At
<1>2. BundleOf(r) /\ i \in IDs /\ dir[i] \in Directory
  BY <1>1, BundleFacts DEF BundleStages
<1> DEFINE d == [dir[i] EXCEPT !.at = "final"]
<1>3. d \in Directory /\ d.at = "final" /\ d.html > 0 /\ d.by = renderer
  <2>1. dir[i].html > 0 /\ dir[i].by = renderer
    BY <1>1, <1>2 DEF BundleOf
  <2> QED
    BY <1>2, <2>1, SetAt
<1>4. dir' = [dir EXCEPT ![i] = d]
  BY DEF Publish
<1>5. /\ req' \in [Requests -> Request] /\ req'[r].id = i /\ req'[r].at = "adding"
      /\ \A q \in Requests : q # r => req'[q] = req[q]
  BY GotoFacts DEF Publish, Inv, Stages
<1>6. DOMAIN cache' = Requests /\ \A q \in Requests : cache'[q] \in Assets(q)!Budget
  BY <1>1 DEF Inv, TypeOK
<1> HIDE DEF d
<1> QED
  BY <1>1, <1>3, <1>4, <1>5, <1>6, FillInv DEF BundleStages

\* The request lets go of its bundle: Add has recorded it, or it was removed.
LEMMA LetGoInv ==
  ASSUME Inv, SlotInv', NEW r \in Requests, Add(r) \/ Cleanup(r)
  PROVE  Inv'
<1> DEFINE i == req[r].id
<1>1. /\ phase = "up" /\ req[r].at \in {"adding", "cleanup", "undo"} /\ UNCHANGED boot
      /\ req' = [req EXCEPT ![r] = [at |-> "release", id |-> None]]
      /\ cache' = [cache EXCEPT ![r] = NoCache]
  BY DEF Add, Cleanup, At
<1>2. /\ BundleOf(r) /\ i \in IDs /\ dir[i] \in Directory
      /\ \A q \in Requests : q # r => req[q].at = "idle"
  BY <1>1, BundleFacts DEF BundleStages
<1>3. /\ dir \in [IDs -> Directory] /\ rendered \in [IDs -> Renderers \cup {None}]
      /\ req \in [Requests -> Request] /\ renderer \in Renderers
  BY DEF Inv, TypeOK
<1>4. /\ req' \in [Requests -> Request] /\ req'[r].at = "release"
      /\ \A q \in Requests : q # r => req'[q] = req[q]
  <2>1. [at |-> "release", id |-> None] \in Request
    BY DEF Request, Stages
  <2> QED
    BY <1>1, <1>3, <2>1
<1>5. DOMAIN cache' = Requests /\ \A q \in Requests : cache'[q] \in Assets(q)!Budget
  BY <1>1, NoCacheType, CacheFacts DEF Inv
<1>6. /\ dir' \in [IDs -> Directory] /\ rendered' \in [IDs -> Renderers \cup {None}]
      /\ \A j \in IDs : j # i => dir'[j] = dir[j] /\ rendered'[j] = rendered[j]
      /\ dir'[i].at = "final" =>
            dir'[i].html > 0 /\ (rendered'[i] # None => rendered'[i] <= dir'[i].by)
      /\ rendered'[i] # None => rendered'[i] <= renderer
  <2>1. CASE Add(r)
    <3>1. dir' = dir /\ rendered' = [rendered EXCEPT ![i] = renderer]
      BY <2>1 DEF Add
    <3>2. dir[i].html > 0 /\ dir[i].by = renderer
      BY <1>2, <2>1 DEF Add, At, BundleOf
    <3>3. renderer <= renderer
      BY <1>3, LimitsFacts DEF Renderers
    <3> HIDE DEF i
    <3> QED
      BY <1>2, <1>3, <3>1, <3>2, <3>3
  <2>2. CASE Cleanup(r)
    <3>1. rendered' = rendered /\ rendered[i] = None
      BY <1>2, <2>2 DEF Cleanup, BundleOf
    <3>2. dir[i].at = "final" => dir[i].html > 0
      BY <1>2 DEF Inv, BundleInv, HtmlAsRecorded
    <3>3. dir' = [dir EXCEPT ![i] = NoDirectory] \/ dir' = dir
      BY <2>2 DEF Cleanup
    <3>4. NoDirectory.at = "none"
      BY DEF NoDirectory
    <3> HIDE DEF i
    <3> QED
      BY <1>2, <1>3, <3>1, <3>2, <3>3, <3>4, NoDirectoryType, EntryFacts
  <2> QED
    BY <2>1, <2>2 
<1>7. req'[r].at \notin BundleStages
  BY <1>4 DEF BundleStages
<1>8. TypeOK'
  BY <1>1, <1>4, <1>5, <1>6, TypeFromParts DEF Inv
<1> HIDE DEF i
<1>9. BundleInv'
  BY <1>1, <1>2, <1>4, <1>6, <1>7, BundleFromParts
<1> QED
  BY <1>5, <1>8, <1>9 DEF Inv

LEMMA DeleteInv ==
  ASSUME Inv, SlotInv', NEW i \in IDs, Delete(i)
  PROVE  Inv'
<1>1. /\ phase = "up" /\ rendered[i] # None /\ UNCHANGED <<boot, slots, req, cache>>
      /\ dir' = [dir EXCEPT ![i] = NoDirectory]
  BY DEF Delete
<1>2. rendered' \in [IDs -> Renderers \cup {None}]
      /\ (\A j \in IDs : j # i => rendered'[j] = rendered[j])
      /\ rendered'[i] \in {None, rendered[i]}
  BY DEF Delete, Inv, TypeOK
<1>3. /\ dir' \in [IDs -> Directory] /\ dir'[i].at = "none"
      /\ \A j \in IDs : j # i => dir'[j] = dir[j]
  BY <1>1, NoDirectoryType, EntryFacts DEF NoDirectory, Inv, TypeOK
<1>4. ASSUME NEW q \in Requests, req'[q].at \in BundleStages
      PROVE  BundleOf(q)'
  <2>1. BundleOf(q) /\ req'[q] = req[q]
    BY <1>1, <1>4 DEF Inv, BundleInv
  <2>2. req[q].id # i /\ req[q].id \in IDs
    BY <1>1, <2>1 DEF BundleOf
  <2> QED
    BY <1>1, <1>2, <1>3, <2>1, <2>2 DEF BundleOf, boot
<1>5. step = "-" /\ current = None /\ UNCHANGED <<step, current, renderer>>
  BY <1>1 DEF Inv, BundleInv, RefreshInv, boot
<1>6. RefreshInv'
  BY <1>5 DEF RefreshInv
<1>7. RecordsKnown'
  BY <1>2, <1>5 DEF Inv, BundleInv, RecordsKnown
<1>8. HtmlAsRecorded'
  BY <1>2, <1>3 DEF Inv, BundleInv, HtmlAsRecorded
<1>9. BundleInv'
  BY <1>4, <1>6, <1>7, <1>8 DEF BundleInv
<1>10. TypeOK'
  BY <1>1, <1>2, <1>3, TypeFromParts DEF Inv, TypeOK
<1> QED
  BY <1>1, <1>9, <1>10 DEF Inv

LEMMA RequestInv ==
  ASSUME Inv, SlotInv', NEW r \in Requests, Acquire(r) \/ CreateTranscript(r)
  PROVE  Inv'
  BY MoveInv, ReleaseExportInv, MakeDirectoryInv, CachingInv, WriteHtmlInv, WriteDocumentsInv,
     PublishInv, LetGoInv DEF CreateTranscript
(* Restarts. No request has a bundle, and a refresh changes the bundle and *)
(* the record of one transcript.                                           *)

\* The directories and the records after a step of a start, or a crash.
LEMMA BootFromParts ==
  ASSUME Inv, SlotInv', \A q \in Requests : req'[q].at = "idle",
         req' \in [Requests -> Request],
         DOMAIN cache' = Requests, \A q \in Requests : cache'[q] \in Assets(q)!Budget,
         phase' \in {"down", "cleanup", "refresh", "up"}, renderer' \in Renderers,
         crashes' \in 0..MaxCrashes, todo' \subseteq IDs,
         current' \in IDs \cup {None}, step' \in {"-", "copied", "renamed"}, RefreshInv',
         dir' \in [IDs -> Directory], rendered' \in [IDs -> Renderers \cup {None}],
         HtmlAsRecorded', RecordsKnown'
  PROVE  Inv'
<1>1. exportSlots' \in 0..1 /\ storageReserved' \in Int
  BY LimitsFacts DEF SlotInv
<1>2. \A q \in Requests : (cache[q] \in Assets(q)!Budget)'
  BY DEF Assets!Budget
<1>3. TypeOK'
  BY <1>1, <1>2 DEF TypeOK
<1>4. \A q \in Requests : req'[q].at \notin BundleStages
  BY DEF BundleStages
<1>5. BundleInv'
  BY <1>4 DEF BundleInv
<1> QED
  BY <1>3, <1>5 DEF Inv

LEMMA CrashInv ==
  ASSUME Inv, SlotInv', Crash
  PROVE  Inv'
<1>1. NoRequest \in Request /\ NoRequest.at = "idle"
  BY DEF NoRequest, Request, Stages
<1>2. /\ \A q \in Requests : req'[q].at = "idle"
      /\ req' \in [Requests -> Request]
      /\ DOMAIN cache' = Requests /\ \A q \in Requests : cache'[q] \in Assets(q)!Budget
  BY <1>1, NoCacheType DEF Crash
<1>3. crashes' \in 0..MaxCrashes
  BY LimitsFacts DEF Crash, Inv, TypeOK
<1>4. RefreshInv' /\ HtmlAsRecorded' /\ RecordsKnown'
  BY DEF Crash, RefreshInv, Inv, BundleInv, HtmlAsRecorded, RecordsKnown
<1> QED
  BY <1>2, <1>3, <1>4, BootFromParts DEF Crash, Inv, TypeOK

\* A step of a start leaves the requests, of which none is under way.
LEMMA BootParts ==
  ASSUME Inv, Boot
  PROVE  /\ \A q \in Requests : req'[q].at = "idle"
         /\ req' \in [Requests -> Request] /\ crashes' \in 0..MaxCrashes
         /\ DOMAIN cache' = Requests /\ \A q \in Requests : cache'[q] \in Assets(q)!Budget
<1>1. phase # "up" /\ UNCHANGED <<req, cache, crashes>>
  BY DEF Boot, Start, CleanupInterrupted, ListenAndServe, RefreshSkip, RefreshCopy,
     RefreshRename, RefreshRenameFails, RefreshRecord, Refreshing, Inv, BundleInv, RefreshInv
<1> QED
  BY <1>1 DEF Inv, SlotInv, TypeOK

LEMMA StartInv ==
  ASSUME Inv, SlotInv', Start \/ CleanupInterrupted \/ ListenAndServe
  PROVE  Inv'
<1>1. renderer' \in Renderers /\ RecordsKnown'
  <2>1. renderer \in Renderers /\ renderer \in Int /\ renderer' \in Renderers
        /\ renderer' \in {renderer, renderer + 1}
    BY LimitsFacts DEF Start, CleanupInterrupted, ListenAndServe, Inv, TypeOK, Renderers
  <2>2. ASSUME NEW i \in IDs, rendered'[i] # None PROVE rendered'[i] <= renderer'
    <3>1. rendered'[i] = rendered[i] /\ rendered[i] # None
      BY <2>2 DEF Start, CleanupInterrupted, ListenAndServe
    <3>2. rendered[i] <= renderer /\ rendered[i] \in Int
      BY <3>1, LimitsFacts DEF Inv, TypeOK, BundleInv, RecordsKnown, Renderers
    <3> QED
      BY <2>1, <3>1, <3>2
  <2> QED
    BY <2>1, <2>2 DEF RecordsKnown
<1>2. dir' \in [IDs -> Directory]
      /\ \A i \in IDs : dir'[i] = dir[i] \/ dir'[i] = NoDirectory
  BY NoDirectoryType DEF Start, CleanupInterrupted, ListenAndServe, Inv, TypeOK
<1>3. rendered' = rendered /\ UNCHANGED <<current, step>>
  BY DEF Start, CleanupInterrupted, ListenAndServe
<1>4. step = "-" /\ current = None
  BY DEF Start, CleanupInterrupted, ListenAndServe, Refreshing, Inv, BundleInv, RefreshInv
<1>5. RefreshInv'
  BY <1>3, <1>4 DEF RefreshInv
<1>6. HtmlAsRecorded'
  BY <1>2, <1>3 DEF HtmlAsRecorded, NoDirectory, Inv, BundleInv
<1>7. phase' \in {"down", "cleanup", "refresh", "up"} /\ todo' \subseteq IDs
  BY DEF Start, CleanupInterrupted, ListenAndServe, Inv, TypeOK
<1>8. Boot
  BY DEF Boot
<1>9. current' \in IDs \cup {None} /\ step' \in {"-", "copied", "renamed"}
      /\ rendered' \in [IDs -> Renderers \cup {None}]
  BY <1>3 DEF Inv, TypeOK
<1> QED
  BY <1>1, <1>2, <1>5, <1>6, <1>7, <1>8, <1>9, BootParts, BootFromParts

\* A published bundle is whole and as new as its record.
AsRecorded(d, version) ==
    d.at = "final" => d.html > 0 /\ (version # None => version <= d.by)

\* The refresh replaces the directory of one transcript, or its record.
LEMMA RefreshFromParts ==
  ASSUME Inv, SlotInv', Boot, UNCHANGED <<phase, renderer>>,
         NEW i \in IDs, NEW d \in Directory, dir' = [dir EXCEPT ![i] = d],
         todo' \subseteq IDs, current' \in IDs \cup {None}, step' \in {"-", "copied", "renamed"},
         rendered' \in [IDs -> Renderers \cup {None}], RecordsKnown',
         \A j \in IDs : j # i => rendered'[j] = rendered[j],
         AsRecorded(d, rendered'[i]), RefreshInv'
  PROVE  Inv'
<1>1. dir \in [IDs -> Directory] /\ renderer \in Renderers
      /\ phase \in {"down", "cleanup", "refresh", "up"}
  BY DEF Inv, TypeOK
<1>2. /\ dir' \in [IDs -> Directory] /\ dir'[i] = d
      /\ \A j \in IDs : j # i => dir'[j] = dir[j]
  BY <1>1
<1>3. HtmlAsRecorded'
  BY <1>2 DEF Inv, BundleInv, HtmlAsRecorded, AsRecorded
<1> QED
  BY <1>1, <1>2, <1>3, BootParts, BootFromParts

LEMMA RefreshSkipInv ==
  ASSUME Inv, SlotInv', NEW i \in IDs, RefreshSkip(i) \/ RefreshCopy(i)
  PROVE  Inv'
<1>1. dir \in [IDs -> Directory] /\ dir[i] \in Directory /\ AsRecorded(dir[i], rendered[i])
  BY DEF Inv, TypeOK, BundleInv, HtmlAsRecorded, AsRecorded
<1>2. /\ UNCHANGED <<phase, renderer, rendered>> /\ todo' \subseteq IDs
      /\ phase = "refresh" /\ current = None
  BY DEF RefreshSkip, RefreshCopy, Refreshing, Inv, TypeOK
<1>3. current' \in IDs \cup {None} /\ step' \in {"-", "copied", "renamed"}
  BY DEF RefreshSkip, RefreshCopy, Inv, TypeOK
<1>4. PICK d \in Directory :
         /\ dir' = [dir EXCEPT ![i] = d]
         /\ d.at = dir[i].at /\ d.html = dir[i].html /\ d.by = dir[i].by
         /\ RefreshCopy(i) => d.copy > 0
  <2>1. CASE RefreshCopy(i)
    <3>1. PICK n \in 1..HtmlLimit : dir' = [dir EXCEPT ![i].copy = n]
      BY <2>1 DEF RefreshCopy
    <3>2. n \in 0..HtmlLimit /\ n > 0
      BY LimitsFacts
    <3>3. dir' = [dir EXCEPT ![i] = [dir[i] EXCEPT !.copy = n]]
      BY <3>1
    <3> QED
      BY <1>1, <3>2, <3>3, SetCopy
  <2>2. CASE RefreshSkip(i) /\ UNCHANGED dir
    <3>1. ~ RefreshCopy(i)
      BY <1>2, <2>2, LimitsFacts DEF RefreshSkip, RefreshCopy
    <3>2. dir' = [dir EXCEPT ![i] = dir[i]]
      BY <1>1, <2>2
    <3> QED
      BY <1>1, <3>1, <3>2
  <2>3. CASE RefreshSkip(i) /\ ~ UNCHANGED dir
    <3>1. ~ RefreshCopy(i)
      BY <1>2, <2>3, LimitsFacts DEF RefreshSkip, RefreshCopy
    <3>2. PICK n \in 0..HtmlLimit : dir' = [dir EXCEPT ![i].copy = n]
      BY <2>3 DEF RefreshSkip
    <3>3. dir' = [dir EXCEPT ![i] = [dir[i] EXCEPT !.copy = n]]
      BY <3>2
    <3> QED
      BY <1>1, <3>1, <3>3, SetCopy
  <2> QED
    BY <2>1, <2>2, <2>3
<1>5. AsRecorded(d, rendered'[i])
  BY <1>1, <1>2, <1>4 DEF AsRecorded
<1>6. RefreshInv'
  <2>1. CASE RefreshCopy(i)
    <3>1. /\ current' = i /\ step' = "copied" /\ dir[i].at = "final" /\ i # None
      BY <2>1, LimitsFacts DEF RefreshCopy
    <3>2. dir'[i] = d
      BY <1>1, <1>4
    <3> QED
      BY <1>2, <1>4, <2>1, <3>1, <3>2 DEF RefreshInv
  <2>2. CASE RefreshSkip(i)
    BY <1>2, <2>2 DEF RefreshSkip, RefreshInv, Inv, BundleInv
  <2> QED
    BY <2>1, <2>2
<1>7. RecordsKnown'
  BY <1>2 DEF Inv, BundleInv, RecordsKnown
<1>8. Boot
  BY DEF Boot
<1>9. rendered' \in [IDs -> Renderers \cup {None}] /\ \A j \in IDs : rendered'[j] = rendered[j]
  BY <1>2 DEF Inv, TypeOK
<1> QED
  BY <1>2, <1>3, <1>4, <1>5, <1>6, <1>7, <1>8, <1>9, RefreshFromParts

\* The transcript a refresh is at.
LEMMA CurrentFacts ==
  ASSUME Inv, step # "-"
  PROVE  /\ current \in IDs /\ dir \in [IDs -> Directory] /\ dir[current] \in Directory
         /\ phase = "refresh" /\ dir[current].at = "final"
         /\ AsRecorded(dir[current], rendered[current])
  BY DEF Inv, TypeOK, BundleInv, RefreshInv, HtmlAsRecorded, AsRecorded

LEMMA RefreshRenameInv ==
  ASSUME Inv, SlotInv', RefreshRename
  PROVE  Inv'
<1> DEFINE i == current
           a == [dir[i] EXCEPT !.html = dir[i].copy]
           b == [a EXCEPT !.copy = 0]
           d == [b EXCEPT !.by = renderer]
<1>1. /\ i \in IDs /\ dir \in [IDs -> Directory] /\ dir[i] \in Directory
      /\ phase = "refresh" /\ dir[i].at = "final" /\ step = "copied" /\ dir[i].copy > 0
  BY CurrentFacts DEF RefreshRename, Inv, BundleInv, RefreshInv
<1>2. a \in Directory /\ a.at = "final" /\ a.html = dir[i].copy
  <2>1. dir[i].copy \in 0..HtmlLimit
    BY <1>1 DEF Directory
  <2> QED
    BY <1>1, <2>1, SetHtml
<1>3. b \in Directory /\ b.at = "final" /\ b.html = dir[i].copy
  <2>1. 0 \in 0..HtmlLimit
    BY LimitsFacts
  <2> HIDE DEF a
  <2> QED
    BY <1>2, <2>1, SetCopy
<1>4. d \in Directory /\ d.at = "final" /\ d.html = dir[i].copy /\ d.by = renderer
  <2>1. renderer \in Renderers
    BY DEF Inv, TypeOK
  <2> HIDE DEF b
  <2> QED
    BY <1>3, <2>1, SetBy
<1>5. dir' = [dir EXCEPT ![i] = d]
  BY <1>1 DEF RefreshRename
<1>6. /\ UNCHANGED <<phase, renderer, rendered, todo, current>> /\ step' = "renamed"
  BY DEF RefreshRename
<1>7. AsRecorded(d, rendered'[i])
  <2>1. rendered[i] # None => rendered[i] <= renderer
    BY <1>1 DEF Inv, BundleInv, RecordsKnown
  <2> HIDE DEF d
  <2> QED
    BY <1>1, <1>4, <1>6, <2>1 DEF AsRecorded
<1> HIDE DEF d
<1>8. RefreshInv'
  <2>1. dir'[i] = d
    BY <1>1, <1>4, <1>5
  <2>2. i # None
    BY <1>1, LimitsFacts
  <2> QED
    BY <1>1, <1>4, <1>6, <2>1, <2>2 DEF RefreshInv
<1>9. RecordsKnown' /\ Boot
  BY <1>6 DEF Inv, BundleInv, RecordsKnown, Boot
<1>10. /\ rendered' \in [IDs -> Renderers \cup {None}] /\ \A j \in IDs : rendered'[j] = rendered[j]
       /\ todo' \subseteq IDs /\ current' \in IDs \cup {None}
  BY <1>6 DEF Inv, TypeOK
<1> QED
  BY <1>1, <1>4, <1>5, <1>6, <1>7, <1>8, <1>9, <1>10, RefreshFromParts

LEMMA RefreshEndInv ==
  ASSUME Inv, SlotInv', RefreshRenameFails \/ RefreshRecord
  PROVE  Inv'
<1> DEFINE i == current
<1>1. /\ i \in IDs /\ dir \in [IDs -> Directory] /\ dir[i] \in Directory
      /\ phase = "refresh" /\ AsRecorded(dir[i], rendered[i])
  BY CurrentFacts DEF RefreshRenameFails, RefreshRecord
<1>2. /\ UNCHANGED <<phase, renderer, todo>> /\ step' = "-" /\ current' = None
  BY DEF RefreshRenameFails, RefreshRecord
<1>3. RefreshInv'
  BY <1>2 DEF RefreshInv
<1>4. Boot
  BY DEF Boot
<1>5. /\ rendered \in [IDs -> Renderers \cup {None}] /\ todo' \subseteq IDs /\ renderer \in Renderers
      /\ RecordsKnown
  BY <1>2 DEF Inv, TypeOK, BundleInv
<1>6. CASE RefreshRenameFails
  <2> DEFINE d == [dir[i] EXCEPT !.copy = 0]
  <2>1. d \in Directory /\ d.at = dir[i].at /\ d.html = dir[i].html /\ d.by = dir[i].by
    <3>1. 0 \in 0..HtmlLimit
      BY LimitsFacts
    <3> QED
      BY <1>1, <3>1, SetCopy
  <2>2. dir' = [dir EXCEPT ![i] = d] /\ rendered' = rendered
    BY <1>6 DEF RefreshRenameFails
  <2> HIDE DEF d
  <2>3. AsRecorded(d, rendered'[i])
    BY <1>1, <2>1, <2>2 DEF AsRecorded
  <2>4. RecordsKnown'
    BY <1>2, <1>5, <2>2 DEF RecordsKnown
  <2> QED
    BY <1>1, <1>2, <1>3, <1>4, <1>5, <2>1, <2>2, <2>3, <2>4, RefreshFromParts
<1>7. CASE RefreshRecord
  <2>1. dir' = [dir EXCEPT ![i] = dir[i]]
    BY <1>1, <1>7 DEF RefreshRecord
  <2>2. /\ rendered' \in [IDs -> Renderers \cup {None}]
        /\ \A j \in IDs : j # i => rendered'[j] = rendered[j]
        /\ rendered'[i] \in {rendered[i], renderer}
    BY <1>1, <1>5, <1>7 DEF RefreshRecord
  <2>3. dir[i].by = renderer
    BY <1>7 DEF RefreshRecord, Inv, BundleInv, RefreshInv
  <2>4. renderer <= renderer
    BY <1>5, LimitsFacts DEF Renderers
  <2>5. AsRecorded(dir[i], rendered'[i])
    BY <1>1, <2>2, <2>3, <2>4 DEF AsRecorded
  <2>6. RecordsKnown'
    BY <1>1, <1>2, <1>5, <2>2, <2>4 DEF RecordsKnown
  <2> QED
    BY <1>1, <1>2, <1>3, <1>4, <1>5, <2>1, <2>2, <2>5, <2>6, RefreshFromParts
<1> QED
  BY <1>6, <1>7

-------------------------------------------------------------------------------
(* The bytes of the directory. *)

\* The bundle of a request fits into what the request reserved: the media while they
\* are downloaded, and the media with the export files afterwards.
FitsIn(d, c, stage) ==
    /\ d.copy = 0
    /\ stage = "caching" => d.assets = c.onDisk /\ d.html = 0 /\ d.docs = 0
    /\ stage # "caching" => d.assets <= c.booked /\ c.booked + d.html + d.docs <= Reservation
    /\ stage = "rendering" => d.html = 0
    /\ stage \in {"rendering", "documents"} => d.docs = 0

FitInv == \A r \in Requests : req[r].at \in BundleStages =>
              FitsIn(dir[req[r].id], cache[r], req[r].at)

\* What request r may still write, with everything else that is there, is within the
\* limit. The check established it, and nobody else adds to the directory.
RoomFor(r) ==
    /\ req[r].at = "fetching" => StorageBytes + Reservation <= StorageLimit
    /\ req[r].at \in BundleStages =>
          StorageBytes - SizeOf(dir[req[r].id]) + Reservation <= StorageLimit

\* Until a start has a newer renderer there is nothing to refresh.
RoomInv ==
    renderer = 0 => /\ todo = {} /\ step = "-"
                    /\ StorageBytes <= StorageLimit
                    /\ \A r \in Requests : RoomFor(r)

StorageInv == FitInv /\ RoomInv

LEMMA SizeNat == \A d \in Directory : SizeOf(d) \in Nat
  BY LimitsFacts DEF Directory, SizeOf

LEMMA NoDirectorySize == SizeOf(NoDirectory) = 0
  BY DEF NoDirectory, SizeOf

\* What StorageBytes adds up.
Sizes == [i \in IDs |-> SizeOf(dir[i])]

LEMMA StorageFacts ==
  ASSUME TypeOK
  PROVE  /\ StorageBytes = SumFunctionOnSet(Sizes, IDs) /\ StorageBytes \in Nat
         /\ \A i \in IDs : Sizes[i] = SizeOf(dir[i]) /\ Sizes[i] \in Nat
<1>1. StorageBytes = SumFunctionOnSet(Sizes, IDs)
  BY DEF StorageBytes, SumFunction, Sizes
<1>2. \A i \in IDs : Sizes[i] = SizeOf(dir[i]) /\ Sizes[i] \in Nat
  BY SizeNat DEF TypeOK, Sizes
<1>3. IsFiniteSet(IDs)
  BY ExportsAssumption
<1> HIDE DEF Sizes
<1> QED
  BY <1>1, <1>2, <1>3, SumNat

LEMMA StorageFactsAfter ==
  ASSUME TypeOK'
  PROVE  /\ StorageBytes' = SumFunctionOnSet(Sizes', IDs) /\ StorageBytes' \in Nat
         /\ \A i \in IDs : Sizes'[i] = SizeOf(dir'[i]) /\ Sizes'[i] \in Nat
<1>1. Sizes' = [j \in IDs |-> SizeOf(dir'[j])]
  BY DEF Sizes, SizeOf
<1>2. StorageBytes' = SumFunctionOnSet(Sizes', IDs)
  BY <1>1 DEF StorageBytes, SumFunction, SizeOf
<1>3. \A i \in IDs : Sizes'[i] = SizeOf(dir'[i]) /\ Sizes'[i] \in Nat
  BY <1>1, SizeNat DEF TypeOK
<1>4. IsFiniteSet(IDs)
  BY ExportsAssumption
<1> HIDE DEF Sizes
<1> QED
  BY <1>2, <1>3, <1>4, SumNat

\* One directory changes, and the sum by the difference.
LEMMA StorageChange ==
  ASSUME TypeOK, TypeOK', NEW i \in IDs, \A j \in IDs : j # i => dir'[j] = dir[j]
  PROVE  StorageBytes' = StorageBytes - SizeOf(dir[i]) + SizeOf(dir'[i])
<1>1. /\ StorageBytes = SumFunctionOnSet(Sizes, IDs)
      /\ \A j \in IDs : Sizes[j] = SizeOf(dir[j]) /\ Sizes[j] \in Nat
  BY StorageFacts
<1>2. /\ StorageBytes' = SumFunctionOnSet(Sizes', IDs)
      /\ \A j \in IDs : Sizes'[j] = SizeOf(dir'[j]) /\ Sizes'[j] \in Nat
  BY StorageFactsAfter
<1>3. IsFiniteSet(IDs)
  BY ExportsAssumption
<1>4. \A j \in IDs \ {i} : Sizes'[j] = Sizes[j]
  BY <1>1, <1>2
<1>5. SumFunctionOnSet(Sizes', IDs) = SumFunctionOnSet(Sizes, IDs) - Sizes[i] + Sizes'[i]
  <2> DEFINE f == Sizes
             g == Sizes'
  <2>1. \A j \in IDs : f[j] \in Int
    BY <1>1
  <2>2. g[i] \in Int /\ \A j \in IDs \ {i} : g[j] = f[j]
    BY <1>2, <1>4
  <2> HIDE DEF f, g
  <2>3. SumFunctionOnSet(g, IDs) = SumFunctionOnSet(f, IDs) - f[i] + g[i]
    BY <1>3, <2>1, <2>2, SumChange
  <2> QED
    BY <2>3 DEF f, g
<1> QED
  BY <1>1, <1>2, <1>5

\* Directories are removed, and the sum does not grow.
LEMMA StorageShrinks ==
  ASSUME TypeOK, TypeOK', \A j \in IDs : dir'[j] \in {dir[j], NoDirectory}
  PROVE  StorageBytes' <= StorageBytes
<1>1. /\ StorageBytes = SumFunctionOnSet(Sizes, IDs)
      /\ \A j \in IDs : Sizes[j] = SizeOf(dir[j]) /\ Sizes[j] \in Nat
  BY StorageFacts
<1>2. /\ StorageBytes' = SumFunctionOnSet(Sizes', IDs)
      /\ \A j \in IDs : Sizes'[j] = SizeOf(dir'[j]) /\ Sizes'[j] \in Nat
  BY StorageFactsAfter
<1>3. IsFiniteSet(IDs)
  BY ExportsAssumption
<1>4. \A j \in IDs : Sizes'[j] <= Sizes[j]
  BY <1>1, <1>2, NoDirectorySize
<1>5. SumFunctionOnSet(Sizes', IDs) <= SumFunctionOnSet(Sizes, IDs)
  <2> DEFINE f == Sizes
             g == Sizes'
  <2>1. \A j \in IDs : f[j] \in Int
    BY <1>1
  <2>2. \A j \in IDs : g[j] \in Int /\ g[j] <= f[j]
    BY <1>2, <1>4
  <2> HIDE DEF f, g
  <2>3. SumFunctionOnSet(g, IDs) <= SumFunctionOnSet(f, IDs)
    BY <1>3, <2>1, <2>2, SumMonotone
  <2> QED
    BY <2>3 DEF f, g
<1> QED
  BY <1>1, <1>2, <1>5

\* A bundle that fits is no larger than the reservation.
LEMMA FitsSize ==
  ASSUME NEW d \in Directory, NEW r \in Requests, NEW c \in Assets(r)!Budget, NEW stage,
         FitsIn(d, c, stage)
  PROVE  SizeOf(d) <= Reservation
<1>1. /\ d.assets \in Nat /\ d.assets <= Peak /\ d.html \in Nat /\ d.docs \in Nat /\ d.copy = 0
      /\ c.booked \in Nat
  BY LimitsFacts DEF Directory, FitsIn, Assets!Budget
<1>2. Peak <= Reservation
  BY ExportsAssumption
<1>3. \/ d.html = 0 /\ d.docs = 0
      \/ d.assets <= c.booked /\ c.booked + d.html + d.docs <= Reservation
  BY DEF FitsIn
<1> QED
  BY <1>1, <1>2, <1>3, LimitsFacts DEF SizeOf

\* The other requests are idle, and what request r does keeps the directory in bounds.
LEMMA RoomFromParts ==
  ASSUME Inv, RoomInv, UNCHANGED boot, phase = "up", NEW r \in Requests,
         \A q \in Requests : q # r => req'[q].at = "idle",
         renderer = 0 => StorageBytes' <= StorageLimit /\ RoomFor(r)'
  PROVE  RoomInv'
<1>1. ASSUME NEW q \in Requests, q # r PROVE RoomFor(q)'
  BY <1>1 DEF RoomFor, BundleStages
<1> QED
  BY <1>1 DEF RoomInv, boot

\* A step that leaves the directory alone, and ends where no more may be written than before.
LEMMA StorageMove ==
  ASSUME Inv, StorageInv, UNCHANGED <<boot, dir, cache>>, phase = "up", NEW r \in Requests,
         \A q \in Requests : q # r => req'[q].at = "idle",
         req'[r].at \in BundleStages =>
            /\ req[r].at \in BundleStages /\ req'[r].id = req[r].id
            /\ FitsIn(dir[req[r].id], cache[r], req'[r].at),
         req'[r].at = "fetching" =>
            req[r].at = "fetching" \/ StorageBytes + Reservation <= StorageLimit
  PROVE  StorageInv'
<1>1. StorageBytes' = StorageBytes
  BY DEF StorageBytes, SizeOf
<1>2. FitInv'
  <2> SUFFICES ASSUME NEW q \in Requests, req'[q].at \in BundleStages
               PROVE  FitsIn(dir'[req'[q].id], cache'[q], req'[q].at)
    BY DEF FitInv, FitsIn
  <2>1. q = r
    BY DEF BundleStages
  <2> QED
    BY <2>1
<1>3. ASSUME renderer = 0 PROVE RoomFor(r)'
  <2>1. RoomFor(r)
    BY <1>3 DEF StorageInv, RoomInv
  <2>2. ASSUME req'[r].at \in BundleStages
        PROVE  SizeOf(dir'[req'[r].id]) = SizeOf(dir[req[r].id]) /\ req[r].at \in BundleStages
    BY <2>2
  <2>3. CASE req'[r].at = "fetching"
    BY <1>1, <2>1, <2>3 DEF RoomFor, BundleStages
  <2>4. CASE req'[r].at \in BundleStages
    BY <1>1, <2>1, <2>2, <2>4 DEF RoomFor, BundleStages, SizeOf
  <2>5. CASE req'[r].at # "fetching" /\ req'[r].at \notin BundleStages
    BY <2>5 DEF RoomFor
  <2> QED
    BY <2>3, <2>4, <2>5
<1>4. renderer = 0 => StorageBytes <= StorageLimit
  BY DEF StorageInv, RoomInv
<1>5. RoomInv'
  BY <1>1, <1>3, <1>4, RoomFromParts DEF StorageInv
<1> QED
  BY <1>2, <1>5 DEF StorageInv

\* Request r writes into its bundle, which still fits.
LEMMA StorageFill ==
  ASSUME Inv, Inv', StorageInv, UNCHANGED boot, phase = "up", NEW r \in Requests,
         req[r].at \in BundleStages, req'[r].at \in BundleStages, req'[r].id = req[r].id,
         \A q \in Requests : q # r => req'[q].at = "idle",
         \A j \in IDs : j # req[r].id => dir'[j] = dir[j],
         FitsIn(dir'[req[r].id], cache'[r], req'[r].at)
  PROVE  StorageInv'
<1>1. req[r].id \in IDs
  BY BundleFacts
<1>2. PICK i \in IDs : i = req[r].id
  BY <1>1
<1>3. /\ TypeOK /\ TypeOK' /\ dir[i] \in Directory /\ dir'[i] \in Directory
      /\ \A q \in Requests : cache'[q] \in Assets(q)!Budget
  <2>1. \A q \in Requests : cache'[q] \in Assets(q)!Budget
    BY DEF Inv, TypeOK, Assets!Budget
  <2> QED
    BY <2>1 DEF Inv, TypeOK
<1>4. FitInv'
  <2> SUFFICES ASSUME NEW q \in Requests, req'[q].at \in BundleStages
               PROVE  FitsIn(dir'[req'[q].id], cache'[q], req'[q].at)
    BY DEF FitInv, FitsIn
  <2>1. q = r
    BY DEF BundleStages
  <2> QED
    BY <2>1
<1>5. ASSUME renderer = 0
      PROVE  StorageBytes' <= StorageLimit /\ RoomFor(r)'
  <2>1. PICK size \in Nat : size = SizeOf(dir[i])
    BY <1>3, SizeNat
  <2>2. PICK new \in Nat : new = SizeOf(dir'[i])
    BY <1>3, SizeNat
  <2>3. new <= Reservation
    BY <1>2, <1>3, <2>2, FitsSize
  <2>4. PICK sum \in Nat : sum = StorageBytes
    BY <1>3, StorageFacts
  <2>5. sum - size + Reservation <= StorageLimit
    BY <1>2, <1>5, <2>1, <2>4 DEF StorageInv, RoomInv, RoomFor
  <2>6. StorageBytes' = sum - size + new
    BY <1>2, <1>3, <2>1, <2>2, <2>4, StorageChange
  <2>7. StorageBytes' <= StorageLimit /\ StorageBytes' - new + Reservation <= StorageLimit
    BY <2>3, <2>5, <2>6, ExportsAssumption
  <2>8. StorageBytes' - SizeOf(dir'[req'[r].id]) + Reservation <= StorageLimit
    BY <1>2, <2>2, <2>7
  <2>9. RoomFor(r)'
    BY <2>8 DEF RoomFor, BundleStages, SizeOf
  <2> QED
    BY <2>7, <2>9
<1>6. RoomInv'
  BY <1>5, RoomFromParts DEF StorageInv
<1> QED
  BY <1>4, <1>6 DEF StorageInv

\* The requests that have no bundle yet, or not any more, and those that give theirs up.
LEMMA StorageMoves ==
  ASSUME Inv, StorageInv, NEW r \in Requests,
         \/ Acquire(r) \/ ReserveStorage(r) \/ RefuseStorage(r) \/ FetchFails(r)
         \/ Release(r) \/ ReleaseExport(r) \/ CacheFails(r) \/ PublishFails(r) \/ AddFails(r)
  PROVE  StorageInv'
<1>1. phase = "up" /\ UNCHANGED <<boot, cache, dir>> /\ req \in [Requests -> Request]
  BY DEF Acquire, ReserveStorage, RefuseStorage, FetchFails, Release, ReleaseExport,
     CacheFails, PublishFails, AddFails, At, Inv, TypeOK
<1>2. \A q \in Requests : q # r => req'[q].at = "idle"
  <2>1. CASE Acquire(r)
    <3>1. \A q \in Requests : req[q].at = "idle"
      BY <2>1 DEF Acquire, Inv, SlotInv
    <3> QED
      BY <2>1, <3>1, GotoFacts DEF Acquire, Inv, Stages
  <2>2. CASE ~ Acquire(r)
    <3>1. req[r].at # "idle" /\ \A q \in Requests : q # r => req'[q] = req[q]
      BY <1>1, <2>2 DEF ReserveStorage, RefuseStorage, FetchFails, Release, ReleaseExport,
         CacheFails, PublishFails, AddFails, At, Goto
    <3> QED
      BY <3>1 DEF Inv, SlotInv
  <2> QED
    BY <2>1, <2>2
<1>3. CASE Acquire(r) \/ RefuseStorage(r) \/ FetchFails(r) \/ Release(r) \/ ReleaseExport(r)
  <2>1. req'[r].at \in {"acquired", "leave", "release", "idle"}
    <3>1. CASE ReleaseExport(r)
      BY <1>1, <3>1 DEF ReleaseExport, NoRequest
    <3>2. CASE ~ ReleaseExport(r)
      <4>1. \E stage \in {"acquired", "leave", "release"} : Goto(r, stage)
        BY <1>3, <3>2 DEF Acquire, RefuseStorage, FetchFails, Release
      <4> QED
        BY <4>1, GotoFacts DEF Inv, Stages
    <3> QED
      BY <3>1, <3>2
  <2> QED
    BY <1>1, <1>2, <2>1, StorageMove DEF BundleStages
<1>4. CASE ReserveStorage(r)
  <2>1. req'[r].at = "fetching"
    BY <1>4, GotoFacts DEF ReserveStorage, Inv, Stages
  <2>2. storageReserved = 0
    <3>1. req[r].at = "acquired" /\ \A q \in Requests : q # r => req[q].at = "idle"
      BY <1>4 DEF ReserveStorage, At, Inv, SlotInv
    <3> QED
      BY <3>1 DEF Inv, SlotInv, HoldingStages, BundleStages
  <2>3. PICK sum \in Nat : sum = StorageBytes
    BY StorageFacts DEF Inv
  <2>4. sum + 0 + Reservation <= StorageLimit
    BY <1>4, <2>2, <2>3 DEF ReserveStorage, HasRoom
  <2>5. StorageBytes + Reservation <= StorageLimit
    BY <2>3, <2>4, LimitsFacts
  <2> QED
    BY <1>1, <1>2, <2>1, <2>5, StorageMove DEF BundleStages
<1>5. CASE CacheFails(r) \/ PublishFails(r) \/ AddFails(r)
  <2>1. /\ req[r].at \in {"caching", "publishing", "adding"}
        /\ req'[r].at \in {"cleanup", "undo"} /\ req'[r].id = req[r].id
    BY <1>5, GotoFacts DEF CacheFails, PublishFails, AddFails, At, Inv, Stages
  <2>2. FitsIn(dir[req[r].id], cache[r], req[r].at)
    BY <2>1 DEF StorageInv, FitInv, BundleStages
  <2>3. CacheFails(r) => cache[r].onDisk = 0 /\ cache[r].booked = 0
    BY DEF CacheFails, Assets!Fresh
  <2>4. CacheFails(r) <=> req[r].at = "caching"
    BY <1>5 DEF CacheFails, PublishFails, AddFails, At
  <2>5. FitsIn(dir[req[r].id], cache[r], req'[r].at)
    BY <2>1, <2>2, <2>3, <2>4, LimitsFacts DEF FitsIn
  <2> QED
    BY <1>1, <1>2, <2>1, <2>5, StorageMove DEF BundleStages
<1> QED
  BY <1>3, <1>4, <1>5

LEMMA StorageMakeDirectory ==
  ASSUME Inv, Inv', StorageInv, NEW r \in Requests, MakeDirectory(r)
  PROVE  StorageInv'
<1>1. PICK i \in IDs :
         /\ dir' = [dir EXCEPT ![i] = [NoDirectory EXCEPT !.at = "temp"]]
         /\ req' = [req EXCEPT ![r] = [at |-> "caching", id |-> i]]
  BY DEF MakeDirectory
<1>2. PICK b \in Assets(r)!Fresh : cache' = [cache EXCEPT ![r] = b]
  BY DEF MakeDirectory
<1>3. /\ phase = "up" /\ UNCHANGED boot /\ req[r].at = "fetching"
      /\ req \in [Requests -> Request] /\ dir \in [IDs -> Directory] /\ DOMAIN cache = Requests
  BY DEF MakeDirectory, At, Inv, TypeOK
<1>4. /\ \A q \in Requests : q # r => req'[q].at = "idle"
      /\ req'[r].at = "caching" /\ req'[r].id = i
  BY <1>1, <1>3 DEF Inv, SlotInv
<1>5. /\ dir'[i] = [NoDirectory EXCEPT !.at = "temp"] /\ cache'[r] = b
      /\ \A j \in IDs : j # i => dir'[j] = dir[j]
  BY <1>1, <1>2, <1>3
<1>6. FitsIn(dir'[i], cache'[r], "caching") /\ SizeOf(dir'[i]) = 0
  BY <1>5 DEF FitsIn, SizeOf, NoDirectory, Assets!Fresh
<1>7. FitInv'
  <2> SUFFICES ASSUME NEW q \in Requests, req'[q].at \in BundleStages
               PROVE  FitsIn(dir'[req'[q].id], cache'[q], req'[q].at)
    BY DEF FitInv, FitsIn
  <2>1. q = r
    BY <1>4 DEF BundleStages
  <2> QED
    BY <1>4, <1>6, <2>1
<1>8. ASSUME renderer = 0
      PROVE  StorageBytes' <= StorageLimit /\ RoomFor(r)'
  <2>1. PICK size \in Nat : size = SizeOf(dir[i])
    BY <1>3, SizeNat
  <2>2. PICK sum \in Nat : sum = StorageBytes
    BY StorageFacts DEF Inv
  <2>3. sum + Reservation <= StorageLimit
    BY <1>3, <1>8, <2>2 DEF StorageInv, RoomInv, RoomFor
  <2>4. StorageBytes' = sum - size + 0
    BY <1>5, <1>6, <2>1, <2>2, StorageChange DEF Inv
  <2>5. StorageBytes' <= StorageLimit /\ StorageBytes' - 0 + Reservation <= StorageLimit
    BY <2>3, <2>4, ExportsAssumption
  <2>6. RoomFor(r)'
    BY <1>4, <1>6, <2>5 DEF RoomFor, BundleStages, SizeOf
  <2> QED
    BY <2>5, <2>6
<1>9. RoomInv'
  BY <1>3, <1>4, <1>8, RoomFromParts DEF StorageInv
<1> QED
  BY <1>7, <1>9 DEF StorageInv

LEMMA StorageCaching ==
  ASSUME Inv, Inv', StorageInv, NEW r \in Requests, Caching(r) \/ CacheReturns(r)
  PROVE  StorageInv'
<1>1. PICK b :
         /\ CacheTo(r, b)
         /\ \/ b \in Assets(r)!Downloads(cache[r]) /\ Caching(r)
            \/ b \in Assets(r)!Returns(cache[r]) /\ CacheReturns(r)
  <2>1. CASE Caching(r)
    <3>1. PICK b \in Assets(r)!Downloads(cache[r]) : CacheTo(r, b)
      BY <2>1 DEF Caching
    <3> QED
      BY <2>1, <3>1
  <2>2. CASE CacheReturns(r)
    <3>1. PICK b \in Assets(r)!Returns(cache[r]) : CacheTo(r, b)
      BY <2>2 DEF CacheReturns
    <3> QED
      BY <2>2, <3>1
  <2> QED
    BY <2>1, <2>2
<1>2. /\ phase = "up" /\ req[r].at = "caching" /\ UNCHANGED boot
      /\ req \in [Requests -> Request] /\ dir \in [IDs -> Directory] /\ DOMAIN cache = Requests
  BY DEF Caching, CacheReturns, At, Inv, TypeOK
<1>3. /\ req[r].id \in IDs /\ dir[req[r].id] \in Directory
      /\ \A q \in Requests : q # r => req[q].at = "idle"
  BY <1>2, BundleFacts DEF BundleStages
<1>4. b \in Assets(r)!Budget
  BY <1>1 DEF Assets!Downloads, Assets!Returns
<1>5. b.onDisk \in 0..Peak /\ b.booked \in 0..TotalLimit
  BY <1>4 DEF Assets!Budget
<1>6. /\ dir'[req[r].id] = [dir[req[r].id] EXCEPT !.assets = b.onDisk] /\ cache'[r] = b
      /\ \A j \in IDs : j # req[r].id => dir'[j] = dir[j]
  BY <1>1, <1>2, <1>3 DEF CacheTo
<1>7. LET e == dir'[req[r].id] d == dir[req[r].id]
      IN  e.assets = b.onDisk /\ e.html = d.html /\ e.docs = d.docs /\ e.copy = d.copy
  BY <1>3, <1>5, <1>6, SetAssets
<1>8. FitsIn(dir[req[r].id], cache[r], "caching")
  BY <1>2 DEF StorageInv, FitInv, BundleStages
<1>9. /\ req'[r].id = req[r].id /\ \A q \in Requests : q # r => req'[q] = req[q]
      /\ \/ req'[r].at = "caching"
         \/ req'[r].at = "rendering" /\ b.onDisk <= b.booked
  <2>1. CASE b \in Assets(r)!Downloads(cache[r]) /\ Caching(r)
    BY <1>2, <2>1 DEF Caching
  <2>2. CASE b \in Assets(r)!Returns(cache[r]) /\ CacheReturns(r)
    BY <2>2, GotoFacts DEF CacheReturns, Inv, Stages, Assets!Returns
  <2> QED
    BY <1>1, <2>1, <2>2
<1>10. b.booked + 0 + 0 <= Reservation
  BY <1>5, ExportsAssumption
<1>11. FitsIn(dir'[req[r].id], cache'[r], req'[r].at)
  BY <1>6, <1>7, <1>8, <1>9, <1>10 DEF FitsIn
<1>12. \A q \in Requests : q # r => req'[q].at = "idle"
  BY <1>3, <1>9
<1> QED
  BY <1>2, <1>6, <1>9, <1>11, <1>12, StorageFill DEF BundleStages

LEMMA StorageWrite ==
  ASSUME Inv, Inv', StorageInv, NEW r \in Requests,
         WriteHtml(r) \/ WriteDocuments(r) \/ WriteFails(r) \/ Publish(r)
  PROVE  StorageInv'
<1>1. /\ phase = "up" /\ UNCHANGED <<boot, cache>>
      /\ req[r].at \in {"rendering", "documents", "publishing"}
      /\ req \in [Requests -> Request] /\ dir \in [IDs -> Directory]
  BY DEF WriteHtml, WriteDocuments, WriteFails, Publish, At, Inv, TypeOK
<1>2. /\ req[r].id \in IDs /\ dir[req[r].id] \in Directory
      /\ \A q \in Requests : q # r => req[q].at = "idle"
  BY <1>1, BundleFacts DEF BundleStages
<1>3. PICK d \in Directory : d = dir[req[r].id]
  BY <1>2
<1>4. /\ req'[r].id = req[r].id /\ \A q \in Requests : q # r => req'[q] = req[q]
      /\ req'[r].at \in {"documents", "publishing", "adding", "cleanup"}
      /\ WriteHtml(r) <=> req'[r].at = "documents"
      /\ WriteHtml(r) => req[r].at = "rendering"
  <2>1. PICK stage \in Stages : Goto(r, stage) /\ stage \in {"documents", "publishing", "adding", "cleanup"}
                   /\ (WriteHtml(r) <=> stage = "documents")
                   /\ (WriteHtml(r) => req[r].at = "rendering")
    BY DEF WriteHtml, WriteDocuments, WriteFails, Publish, At, Stages
  <2> QED
    BY <2>1, GotoFacts DEF Inv
<1>5. FitsIn(d, cache[r], req[r].at)
  BY <1>1, <1>3 DEF StorageInv, FitInv, BundleStages
<1>6. /\ d.assets \in Nat /\ d.html \in Nat /\ d.docs \in Nat /\ cache[r].booked \in Nat
      /\ Remaining(r) = Reservation - cache[r].booked - d.html - d.docs
  <2>1. cache[r] \in Assets(r)!Budget
    BY DEF Inv, TypeOK
  <2> QED
    BY <1>3, <2>1, LimitsFacts DEF Directory, Assets!Budget, Remaining
<1>7. PICK e \in Directory :
         /\ dir' = [dir EXCEPT ![req[r].id] = e]
         /\ e.assets = d.assets /\ e.copy = d.copy
         /\ \/ WriteHtml(r) /\ e.docs = d.docs /\ e.html \in Nat /\ e.html <= Remaining(r)
            \/ ~ WriteHtml(r) /\ e.html = d.html /\ e.docs \in 0..Remaining(r)
                    /\ req[r].at \in {"rendering", "documents"}
            \/ Publish(r) /\ e.html = d.html /\ e.docs = d.docs
  <2>1. CASE WriteHtml(r)
    <3>1. PICK n \in 1..HtmlLimit :
             n <= Remaining(r) /\ dir' = [dir EXCEPT ![req[r].id].html = n, ![req[r].id].by = renderer]
      BY <2>1 DEF WriteHtml
    <3>2. n \in 0..HtmlLimit /\ n \in Nat
      BY LimitsFacts
    <3> DEFINE c == [d EXCEPT !.html = n]
               e == [c EXCEPT !.by = renderer]
    <3>3. c \in Directory /\ c.html = n /\ c.assets = d.assets /\ c.copy = d.copy /\ c.docs = d.docs
      BY <3>2, SetHtml
    <3>4. e \in Directory /\ e.html = n /\ e.assets = d.assets /\ e.copy = d.copy /\ e.docs = d.docs
      <4>1. renderer \in Renderers
        BY DEF Inv, TypeOK
      <4> HIDE DEF c
      <4> QED
        BY <3>3, <4>1, SetBy
    <3>5. dir' = [dir EXCEPT ![req[r].id] = e]
      BY <1>1, <1>2, <1>3, <3>1
    <3> HIDE DEF e
    <3> QED
      BY <2>1, <3>1, <3>2, <3>4, <3>5
  <2>2. CASE WriteDocuments(r) \/ WriteFails(r)
    <3>1. PICK n \in 0..Remaining(r) : dir' = [dir EXCEPT ![req[r].id].docs = n]
      BY <2>2 DEF WriteDocuments, WriteFails
    <3>2. n \in 0..Reservation
      BY <1>2, RemainingFacts, LimitsFacts DEF Inv
    <3> DEFINE e == [d EXCEPT !.docs = n]
    <3>3. /\ e \in Directory /\ e.docs = n /\ e.assets = d.assets /\ e.copy = d.copy
          /\ e.html = d.html
      BY <3>2, SetDocs
    <3>4. dir' = [dir EXCEPT ![req[r].id] = e]
      BY <1>3, <3>1
    <3>5. ~ WriteHtml(r) /\ req[r].at \in {"rendering", "documents"}
      <4>1. req'[r].at # "documents"
        BY <2>2, GotoFacts DEF WriteDocuments, WriteFails, Inv, Stages
      <4> QED
        BY <1>4, <2>2, <4>1 DEF WriteDocuments, WriteFails, At
    <3> HIDE DEF e
    <3> QED
      BY <3>1, <3>3, <3>4, <3>5
  <2>3. CASE Publish(r)
    <3> DEFINE e == [d EXCEPT !.at = "final"]
    <3>1. /\ e \in Directory /\ e.docs = d.docs /\ e.assets = d.assets /\ e.copy = d.copy
          /\ e.html = d.html
      BY SetAt
    <3>2. dir' = [dir EXCEPT ![req[r].id] = e]
      BY <1>3, <2>3 DEF Publish
    <3> HIDE DEF e
    <3> QED
      BY <2>3, <3>1, <3>2
  <2> QED
    BY <2>1, <2>2, <2>3
<1>8. cache[r].booked + e.html + e.docs <= Reservation /\ e.assets <= cache[r].booked /\ e.copy = 0
  <2>1. d.assets <= cache[r].booked /\ d.copy = 0
        /\ cache[r].booked + d.html + d.docs <= Reservation
    BY <1>1, <1>5 DEF FitsIn
  <2>2. req[r].at = "rendering" => d.html = 0
    BY <1>5 DEF FitsIn
  <2>3. req[r].at \in {"rendering", "documents"} => d.docs = 0
    BY <1>5 DEF FitsIn
  <2> QED
    BY <1>4, <1>6, <1>7, <2>1, <2>2, <2>3, LimitsFacts
<1>9. req'[r].at = "documents" => e.docs = 0
  <2>1. req'[r].at = "documents" => WriteHtml(r) /\ req[r].at = "rendering"
    BY <1>4
  <2>2. Publish(r) => ~ WriteHtml(r)
    BY DEF Publish, WriteHtml, At
  <2> QED
    BY <1>5, <1>7, <2>1, <2>2 DEF FitsIn
<1>10. FitsIn(e, cache'[r], req'[r].at)
  BY <1>1, <1>4, <1>8, <1>9 DEF FitsIn
<1>11. dir'[req[r].id] = e /\ \A j \in IDs : j # req[r].id => dir'[j] = dir[j]
  BY <1>1, <1>2, <1>7
<1>12. \A q \in Requests : q # r => req'[q].at = "idle"
  BY <1>2, <1>4
<1> QED
  BY <1>1, <1>4, <1>10, <1>11, <1>12, StorageFill DEF BundleStages

\* Directories go, in a request's cleanup or a deletion; a request that ends writes no more.
LEMMA StorageLetGo ==
  ASSUME Inv, Inv', StorageInv, NEW r \in Requests, Add(r) \/ Cleanup(r)
  PROVE  StorageInv'
<1>1. /\ phase = "up" /\ UNCHANGED boot /\ req[r].at # "idle"
      /\ req' = [req EXCEPT ![r] = [at |-> "release", id |-> None]]
      /\ req \in [Requests -> Request]
  BY DEF Add, Cleanup, At, Inv, TypeOK
<1>2. req'[r].at = "release" /\ \A q \in Requests : q # r => req'[q].at = "idle"
  BY <1>1 DEF Inv, SlotInv
<1>3. \A j \in IDs : dir'[j] \in {dir[j], NoDirectory}
  BY DEF Add, Cleanup, Inv, TypeOK
<1>4. TypeOK /\ TypeOK'
  BY DEF Inv
<1>5. StorageBytes \in Nat /\ StorageBytes' \in Nat /\ StorageBytes' <= StorageBytes
  BY <1>3, <1>4, StorageFacts, StorageFactsAfter, StorageShrinks
<1>6. renderer = 0 => StorageBytes <= StorageLimit
  BY DEF StorageInv, RoomInv
<1>7. renderer = 0 => StorageBytes' <= StorageLimit
  BY <1>5, <1>6, ExportsAssumption
<1>8. RoomFor(r)'
  BY <1>2 DEF RoomFor, BundleStages
<1>9. RoomInv'
  BY <1>1, <1>2, <1>7, <1>8, RoomFromParts DEF StorageInv
<1>10. FitInv'
  <2>1. \A q \in Requests : req'[q].at \notin BundleStages
    BY <1>2 DEF BundleStages
  <2> QED
    BY <2>1 DEF FitInv
<1> QED
  BY <1>9, <1>10 DEF StorageInv

LEMMA StorageDelete ==
  ASSUME Inv, Inv', StorageInv, NEW i \in IDs, Delete(i)
  PROVE  StorageInv'
<1>1. /\ phase = "up" /\ rendered[i] # None /\ UNCHANGED <<boot, req, cache>>
      /\ dir' = [dir EXCEPT ![i] = NoDirectory] /\ dir \in [IDs -> Directory]
      /\ TypeOK /\ TypeOK'
  BY DEF Delete, Inv, TypeOK
<1>2. dir'[i] = NoDirectory /\ \A j \in IDs : j # i => dir'[j] = dir[j]
  BY <1>1
<1>3. ASSUME NEW q \in Requests, req[q].at \in BundleStages
      PROVE  req[q].id \in IDs /\ dir'[req[q].id] = dir[req[q].id]
  <2>1. BundleOf(q)
    BY <1>3, BundleFacts
  <2> QED
    BY <1>1, <1>2, <2>1 DEF BundleOf
<1>4. FitInv'
  BY <1>1, <1>3 DEF StorageInv, FitInv, FitsIn
<1>5. PICK sum \in Nat : sum = StorageBytes
  BY <1>1, StorageFacts
<1>6. PICK less \in Nat : less = StorageBytes'
  BY <1>1, StorageFactsAfter
<1>7. less <= sum
  BY <1>1, <1>2, <1>5, <1>6, StorageShrinks
<1>8. ASSUME renderer = 0
      PROVE  StorageBytes' <= StorageLimit /\ \A q \in Requests : RoomFor(q)'
  <2>1. sum <= StorageLimit
    BY <1>5, <1>8 DEF StorageInv, RoomInv
  <2>2. ASSUME NEW q \in Requests, req[q].at \in BundleStages
        PROVE  less - SizeOf(dir[req[q].id]) + Reservation <= StorageLimit
    <3>1. PICK size \in Nat : size = SizeOf(dir[req[q].id])
      BY <1>1, <1>3, <2>2, SizeNat
    <3>2. sum - size + Reservation <= StorageLimit
      BY <1>5, <1>8, <2>2, <3>1 DEF StorageInv, RoomInv, RoomFor
    <3> QED
      BY <1>7, <3>1, <3>2, ExportsAssumption
  <2>3. ASSUME NEW q \in Requests, req[q].at = "fetching"
        PROVE  less + Reservation <= StorageLimit
    <3>1. sum + Reservation <= StorageLimit
      BY <1>5, <1>8, <2>3 DEF StorageInv, RoomInv, RoomFor
    <3> QED
      BY <1>7, <3>1, ExportsAssumption
  <2>4. \A q \in Requests : RoomFor(q)'
    BY <1>1, <1>3, <1>6, <2>2, <2>3 DEF RoomFor, SizeOf
  <2> QED
    BY <1>6, <1>7, <2>1, <2>4, ExportsAssumption
<1>9. RoomInv'
  BY <1>1, <1>8 DEF StorageInv, RoomInv, boot
<1> QED
  BY <1>4, <1>9 DEF StorageInv

\* Without requests: the refresh of a start has nothing to do unless the renderer is newer.
LEMMA StorageRestart ==
  ASSUME Inv, Inv', StorageInv, Boot \/ Crash
  PROVE  StorageInv'
<1>1. \A q \in Requests : req'[q].at = "idle"
  BY BootParts DEF Crash, NoRequest
<1>2. FitInv' /\ \A q \in Requests : RoomFor(q)'
  BY <1>1 DEF FitInv, RoomFor, BundleStages
<1>3. ASSUME renderer' = 0
      PROVE  todo' = {} /\ step' = "-" /\ StorageBytes' <= StorageLimit
  <2>1. renderer = 0
    BY <1>3, LimitsFacts DEF Boot, Start, CleanupInterrupted, ListenAndServe, RefreshSkip,
       RefreshCopy, RefreshRename, RefreshRenameFails, RefreshRecord, Crash, Inv, TypeOK, Renderers
  <2>2. todo = {} /\ step = "-" /\ StorageBytes <= StorageLimit
    BY <2>1 DEF StorageInv, RoomInv
  <2>3. Start \/ CleanupInterrupted \/ ListenAndServe \/ Crash
    BY <2>2 DEF Boot, RefreshSkip, RefreshCopy, RefreshRename, RefreshRenameFails, RefreshRecord
  <2>4. todo' = {} /\ step' = "-"
    <3>1. CASE CleanupInterrupted
      <4>1. \A i \in IDs : rendered[i] \in {None, 0}
        BY <2>1, LimitsFacts DEF Inv, TypeOK, BundleInv, RecordsKnown, Renderers
      <4> QED
        BY <2>1, <2>2, <3>1, <4>1 DEF CleanupInterrupted
    <3>2. CASE Start \/ ListenAndServe \/ Crash
      BY <2>2, <3>2 DEF Start, ListenAndServe, Crash
    <3> QED
      BY <2>3, <3>1, <3>2
  <2>5. \A j \in IDs : dir'[j] \in {dir[j], NoDirectory}
    BY <2>3 DEF Start, CleanupInterrupted, ListenAndServe, Crash, Inv, TypeOK
  <2>6. TypeOK /\ TypeOK'
    BY DEF Inv
  <2>7. StorageBytes \in Nat /\ StorageBytes' \in Nat /\ StorageBytes' <= StorageBytes
    BY <2>5, <2>6, StorageFacts, StorageFactsAfter, StorageShrinks
  <2> QED
    BY <2>2, <2>4, <2>7, ExportsAssumption
<1> QED
  BY <1>2, <1>3 DEF StorageInv, RoomInv

LEMMA StorageInit == Init => StorageInv
<1> SUFFICES ASSUME Init PROVE StorageInv
  OBVIOUS
<1>1. \A q \in Requests : req[q].at = "idle"
  BY DEF Init, NoRequest
<1>2. StorageBytes = 0
  <2>1. IsFiniteSet(IDs)
    BY ExportsAssumption
  <2>2. \A i \in IDs : Sizes[i] = 0
    BY NoDirectorySize DEF Init, Sizes
  <2>3. StorageBytes = SumFunctionOnSet(Sizes, IDs)
    BY DEF StorageBytes, SumFunction, Sizes
  <2>4. SumFunctionOnSet(Sizes, IDs) = 0 * Cardinality(IDs) /\ Cardinality(IDs) \in Nat
    <3> HIDE DEF Sizes
    <3> QED
      BY <2>1, <2>2, SumConstant, FS_CardinalityType
  <2> QED
    BY <2>3, <2>4
<1>3. 0 <= StorageLimit
  BY ExportsAssumption
<1> QED
  BY <1>1, <1>2, <1>3 DEF Init, StorageInv, FitInv, RoomInv, RoomFor, BundleStages

LEMMA StorageNext == Inv /\ Inv' /\ StorageInv /\ [Next]_vars => StorageInv'
<1> SUFFICES ASSUME Inv, Inv', StorageInv, [Next]_vars PROVE StorageInv'
  OBVIOUS
<1>1. CASE \E r \in Requests : Acquire(r) \/ CreateTranscript(r)
  BY <1>1, StorageMoves, StorageMakeDirectory, StorageCaching, StorageWrite, StorageLetGo
     DEF CreateTranscript
<1>2. CASE \E i \in IDs : Delete(i)
  BY <1>2, StorageDelete
<1>3. CASE Boot \/ Crash
  BY <1>3, StorageRestart
<1>4. CASE UNCHANGED vars
  <2>1. FitInv'
    BY <1>4 DEF vars, StorageInv, FitInv, FitsIn
  <2>2. RoomInv'
    BY <1>4 DEF vars, StorageInv, RoomInv, RoomFor, StorageBytes, SizeOf
  <2> QED
    BY <2>1, <2>2 DEF StorageInv
<1> QED
  BY <1>1, <1>2, <1>3, <1>4 DEF Next

-------------------------------------------------------------------------------
(* The theorems. *)

LEMMA InvInit == Init => Inv
<1> SUFFICES ASSUME Init PROVE Inv
  OBVIOUS
<1>1. NoRequest \in Request /\ NoRequest.at = "idle" /\ NoDirectory.at = "none"
  BY DEF NoRequest, NoDirectory, Request, Stages
<1>2. \A r \in Requests : req[r] = NoRequest
  BY DEF Init
<1>3. SlotInv
  BY <1>1, <1>2 DEF Init, SlotInv, HoldingStages, BundleStages
<1>4. BundleInv
  BY <1>1, <1>2 DEF Init, BundleInv, BundleStages, RefreshInv, RecordsKnown, HtmlAsRecorded
<1>5. 0 \in Renderers /\ 0 \in 0..MaxCrashes /\ 0 \in 0..1 /\ 0 \in Int
  BY LimitsFacts DEF Renderers
<1>6. TypeOK /\ DOMAIN cache = Requests
  BY <1>1, <1>5, NoCacheType, NoDirectoryType DEF Init, TypeOK
<1> QED
  BY <1>3, <1>4, <1>6 DEF Inv

LEMMA InvNext == Inv /\ [Next]_vars => Inv'
<1> SUFFICES ASSUME Inv, [Next]_vars PROVE Inv'
  OBVIOUS
<1>1. SlotInv'
  BY SlotNext DEF Inv
<1>2. CASE \E r \in Requests : Acquire(r) \/ CreateTranscript(r)
  BY <1>1, <1>2, RequestInv
<1>3. CASE \E i \in IDs : Delete(i)
  BY <1>1, <1>3, DeleteInv
<1>4. CASE Boot
  BY <1>1, <1>4, StartInv, RefreshSkipInv, RefreshRenameInv, RefreshEndInv DEF Boot
<1>5. CASE Crash
  BY <1>1, <1>5, CrashInv
<1>6. CASE UNCHANGED vars
  <2>1. TypeOK'
    BY <1>6 DEF vars, Inv, TypeOK, Assets!Budget
  <2>2. BundleInv'
    BY <1>6 DEF vars, Inv, BundleInv, BundleOf, RefreshInv, RecordsKnown, HtmlAsRecorded
  <2> QED
    BY <1>1, <1>6, <2>1, <2>2 DEF vars, Inv
<1> QED
  BY <1>2, <1>3, <1>4, <1>5, <1>6 DEF Next

\* TypeCorrect: every variable of an export, a deletion and a start keeps its type,
\* so that no file passes the limit it is written under.
THEOREM TypeCorrect == Spec => []TypeOK
<1>1. Inv => TypeOK
  BY DEF Inv
<1> QED
  BY <1>1, InvInit, InvNext, PTL DEF Spec

\* AlwaysReservationsReturned: for any number of requests, whatever fails and wherever
\* the process dies, the slot and the reservation are held by the one export that is
\* past its check, and by nobody when there is none.
THEOREM AlwaysReservationsReturned == Spec => []ReservationsReturned
<1>1. Inv => ReservationsReturned
  <2> SUFFICES ASSUME Inv PROVE ReservationsReturned
    OBVIOUS
  <2> DEFINE Busy == {r \in Requests : req[r].at # "idle"}
  <2>1. Busy = {} \/ \E r \in Requests : Busy = {r}
    BY DEF Inv, SlotInv
  <2>2. Holding = {r \in Requests : req[r].at \in HoldingStages} /\ Holding \subseteq Busy
    <3>1. \A r \in Requests : req[r].at \in Stages
      BY DEF Inv, TypeOK, Request
    <3> QED
      BY <3>1 DEF Holding, HoldingStages, BundleStages, Stages
  <2>3. Holding = {} \/ \E r \in Requests : Holding = {r}
    BY <2>1, <2>2
  <2>4. \A r \in Requests : Cardinality({r}) = 1
    BY FS_Singleton
  <2>5. Cardinality({}) = 0
    BY FS_EmptySet
  <2>6. exportSlots = Cardinality(Busy)
    BY <2>1, <2>4, <2>5 DEF Inv, SlotInv
  <2>7. storageReserved = Reservation * Cardinality(Holding)
    <3>1. CASE Holding = {}
      <4>1. storageReserved = 0
        BY <2>2, <3>1 DEF Inv, SlotInv
      <4>2. Cardinality(Holding) = 0
        BY <2>5, <3>1
      <4> QED
        BY <4>1, <4>2, LimitsFacts
    <3>2. CASE \E r \in Requests : Holding = {r}
      <4>1. storageReserved = Reservation
        BY <2>2, <3>2 DEF Inv, SlotInv
      <4>2. Cardinality(Holding) = 1
        BY <2>4, <3>2
      <4> QED
        BY <4>1, <4>2, LimitsFacts
    <3> QED
      BY <2>3, <3>1, <3>2
  <2> QED
    BY <2>6, <2>7 DEF ReservationsReturned
<1> QED
  BY <1>1, InvInit, InvNext, PTL DEF Spec

\* AlwaysHtmlAsRecorded: whatever fails in an export or in the refresh of a start, and
\* wherever the process dies, a published bundle has an index.html that is whole and as
\* new as its record says.
THEOREM AlwaysHtmlAsRecorded == Spec => []HtmlAsRecorded
<1>1. Inv => HtmlAsRecorded
  BY DEF Inv, BundleInv
<1> QED
  BY <1>1, InvInit, InvNext, PTL DEF Spec

\* AlwaysCeilingHolds: however many requests, deletions, failures and restarts follow each
\* other, the one check before an export keeps the directory within the global limit, the
\* media at their peak and everything left behind included, until a start brings a newer
\* renderer.
THEOREM AlwaysCeilingHolds == Spec => []CeilingHolds
<1>1. StorageInv => CeilingHolds
  BY DEF StorageInv, RoomInv, CeilingHolds, StorageCeiling
<1>2. Spec => []Inv
  BY InvInit, InvNext, PTL DEF Spec
<1> QED
  BY <1>1, <1>2, StorageInit, StorageNext, PTL DEF Spec

===============================================================================

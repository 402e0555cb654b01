# Transcript API: TLA+ models

The server in this repository turns Discord channels into transcript archives:
it fetches the messages, downloads the media, renders HTML, JSON and text, puts
them in a directory of their own (a *bundle*) and keeps a registry of the
bundles. These modules model the parts of it that keep state, share it between
goroutines, or must survive a crash; TLC checks them on small instances, and
TLAPS proves the most important properties for every instance.

    tlc -config registry_recovery.cfg RegistryHistory     # every .cfg names its run
    tlapm RegistryProofs.tla

`PROJECT.json` lists the runs, which definition stands for which source lines
(`map`), for each property a plausible bug that it catches (`mutants`), the
hazards and the findings. The operators commented "(a plausible bug)" or "Mutant
of" are those bugs; no specification uses them.

## 1. The system

| Component | State | Operations | Modelled in |
| --- | --- | --- | --- |
| Transcript registry (`internal/store`, `securefile`) | append-only JSONL file; index `records`, `order`; bundle directories | `Open`, `Add`, `Update`, `Renew`, `SetVisibility`, `Remove`, `Compact`, `CleanupInterrupted`, `List`, `StorageBytes` | Registry, DurableMap |
| Authentication (`internal/auth`) | auth file, setup-code file; sessions, ceremonies, password epoch in memory | `Open`, password and passkey set-up, sign-in, change, removal | Auth |
| Media cache (`internal/media`) | per export: queue, workers, reservations, files, manifest | `Cache`, `download`, `Collect`, `rewrite` | MediaCache, AssetBudget |
| Transcript export (`server.go`: `createTranscript`, `addBundle`) | the export slot, reserved storage | one export at a time, bundle built under a temporary name | Exports (storage), Registry (records) |
| Renderer refresh (`refresh.go`) | `index.html` of each bundle, renderer version of its record | `RefreshStoredHTML` at every start | Exports |
| Start, maintenance, shutdown (`cmd/transcript-api`) | none of its own | open, clean up, refresh, serve; hourly compaction | the phases of Registry, Auth, Exports |
| HTTP API, access links, rate limits (`server.go`, `limiter.go`) | counters per token and address | `apiAuth`, `adminAuth`, `allow`; routing, access keys and cookies | Limiter (limits), Settings (tokens), AccessControl (links) |
| Settings (`internal/config`) | settings file, settings in memory | `Open`, `Update`, `Snapshot` | Settings |
| Discord client (`internal/discord`) | none between calls; within one, pages, workers and their results | retries, paging, member lookup by workers | DiscordClient |
| Self-updater (`deploy/self-update.sh`) | images, running container, last commit deployed | build, swap, wait for health, roll back | SelfUpdate |
| Health monitor | counters for the dashboard | samples | not modelled: nothing relies on it |
| Exporters, renderer (`exporter`, `render`, `model`) | none | messages to text | not modelled: layout and wording; Exports bounds the bytes |
| Web pages (`internal/web`) | none | static files | not modelled |

How they meet: `createTranscript` takes the export slot and reserves storage
(Exports), fetches with the Discord client (DiscordClient), calls `addBundle`, which runs
`media.Cache` in the bundle's temporary directory (MediaCache), writes the
export files with what the reservation leaves, renames the directory and adds
the record (Registry). Deletion removes the bundle, then appends a tombstone.
Authentication guards the dashboard and shares nothing with the others but the
process. A start opens the registry and the auth store, removes interrupted
bundles, refreshes outdated HTML and serves.

What is hard about each, and what makes it correct:

- **Registry.** Crashes, power and other failures between the write of a line, its sync,
  the index update, and the directory moves around them; replay must agree with the
  index. Correct: nothing acknowledged is lost, nothing is dropped by compaction, and no
  record is without its whole bundle as long as the machine stays up.
- **Authentication.** Every request takes `Store`'s and `Manager`'s locks one
  after the other, so requests interleave between them; two files are replaced
  one after the other. Correct: an installation is claimed once and keeps a
  sign-in method, an unclaimed one can be claimed, and a passkey that was removed
  stays out, whatever was under way with it.
- **Media cache.** Workers decide, download and book at different times against
  shared limits, and name files by a hash of a URL. Correct: each asset is
  accounted for once, limits hold on the disk too, cached means there, `Cache`
  returns.
- **Discord client.** The channel changes between two pages; every request may be
  told to wait, fail, or outlive its context; workers share a budget and one of
  them may cancel all. Correct: no message twice, none skipped, every author
  asked for, the budget kept, and the fetch ends.
- **Settings.** Three sources of tokens are merged at each start, one of which may
  be edited in between; an update is in memory before it is in the file. Correct: a
  token that is out stays out, one that was handed out works, the limit is the one
  last set.
- **Rate limits.** Windows are fixed, limit and window are changed at run time and read
  by each request, and the table is full or cleaned at times. Correct: less than twice the
  limit in any stretch of a window in which no shorter one is brought, and no refusal
  without a cause.
- **Access links.** A visitor's record is read under the registry's lock; what follows
  from it, a check, a redirect, an open file, comes later, while administrators renew,
  hide, publish or delete the transcript and time passes; the tabs of a browser share
  one cookie. Correct: a visitor is answered as of a moment of the visit.
- **Self-updater.** A script replaces the running container before it knows whether the
  new one works; it may be killed between any two commands, and the branch moves on; its
  way back takes the old image, and the new compose file. Correct: a run that found a
  healthy server leaves one, but for that, and a branch that stays at a good commit ends
  deployed.
- **Export and refresh.** The storage limit is checked once, minutes before the
  bytes are written, with deletions and crashes in between. Correct: the ceiling
  holds, slot and reservation always come back, a refresh can be interrupted.

## 2. The models

### Registry, RegistryHistory, DurableMap

*State.* `log` is the file as a sequence of chunks, one per `Write` call. A chunk
is a whole line, a `bare` document whose newline is missing (a decoder reads it,
unless something is glued to it) or a `part`. `synced` and `earlier` are what a
power failure may fall back to; `records` and `order` are the Go fields; `op` is
the call that holds `Registry.mu`, with the stage it has reached; `export` and
`dirs` are the bundle in the making and the directories; `may` is a history
variable: for each transcript, the states a restart may show: the last acknowledged one,
those requested since, and what a compaction since has put down, right or wrong.

*Actions.* `appendLocked` is split where it can fail or die: `Begin`, `Write` or
`WriteFails`, `Sync` or `SyncFails`, `Close` or `CloseFails`; the index changes
in `Close`. Readers take the same lock, so no reader sees a stage in between.
`Open` and one `ReplayLine` per chunk are `store.Open`; `StartExport`,
`PublishBundle`, `Add`, `UndoBundle` the ends of `addBundle`; `RemoveBundle` the
first half of `Remove`; `Compact`, `Rewrite`, `SyncDirectory` the compaction.
`Crash`, the death of the process, is possible in every state: what it wrote and renamed is
there. `PowerFailure` is as well: of the registry's file what was synced is left
(`Survivors`), while of a bundle nothing is sure, since `addBundle` syncs neither its files
nor its renaming (`Left`, server.go:504-538). What may fail is the constant `Faults`.

*Abstraction.* A record is its creation, key and renewal, each the number of the
write that drew it; section 6 says what that assumes of the clock. An ID is drawn once
(`RandomHex`). `List` is an operator on the index
(`Filtered`: the transcripts with a record, from the end of `order`; `Within` the page);
`ListedInOrder` compares its pages with the order of creation, as long as no append has
failed after its line was written. Its arithmetic on a page number near the largest
integer, which wraps around and ends the request with a 500, is left out, as are the
filters by channel and participant.

*RegistryHistory* adds two history variables for what depends on what went before:
`refused`, whether such an append has failed, and `unsettled`, the transcripts whose
deletion has begun, whose addition was refused, or which were there when the power failed.
`RecordsHaveBundles` is about all others.

*DurableMap* is what callers are promised, with no file in it: a map in which
an acknowledged write takes effect at once and outlives every crash, a failed
one may or may not be seen after a restart, and nothing else ever is. Registry implements
it (`MapSpec`), with `live` the index while it is loaded.

### Auth

*State.* `disk` and `setupFile` are the two files, `state` is `Store.state`,
`sessions`, `logins`, `registrations`, `epoch` the fields of `Manager`; `rq` is
what each request in flight does next. A session remembers its passkey, or the
password that was typed for it: `pass` is what the property is about, the code
keeps the epoch only.

*Actions.* A step of a request is what it does under one lock: `VerifyPassword`
then `CreateSession`; `TakeLogin`, `UserByCredential`, `UpdateCredential`, `CreateSession`;
`TakeRegistration` then `AddCredential`; `CheckCurrent`, `SetPassword`,
`BumpPasswordEpoch`; `DeletePasskey` then `PurgeSessions`. `GiveUp` is an error
return, possible at each step; `Save` may fail and rolls the memory back.
`RemoveSetupFile` is inside the operation that calls it, its own crash window
included. `Open...`, `WriteSetupFile`, `SaveSetupHash` are the steps of a start,
one for each file replaced.

*Abstraction.* The WebAuthn exchange and scrypt are their outcomes, valid or not.
Expiry of sessions and ceremonies is the loss of them at any time (`Forget`,
`Authenticated`, `Fresh`). Eviction takes any ceremony, not the oldest.

### AccessControl

*State.* `record` is the transcript in the registry, `bundle` the files of it that are
there, `removing` that `Remove` holds `Registry.mu`; `jar` is the browser's cookie,
`moment` the clock. A visit has its file, the key in its address (`link`), the cookie it
presents, whether it follows a redirect, and the record it has read. History: `granted`
and `denied`, whether at a moment of the visit the transcript was open, or closed, to
it; `disturbed`, whether it was changed during the visit or one that overlaps it.

*Actions.* `Ask` is a request, with the cookie the browser has then; `Get` reads the
record; `Reject` and `Admit` are `requireAccess` and the check of the expiry, with the
cookie and the redirect; `Follow` the request after the redirect; `SendFile` opens
the file. `Renew`, `SetVisibility`, `Remove`, `RemoveFile`, `RemoveFails`, `RemoveEnds`
are the administrators, as far as a reader sees them: the first two append under the
lock and are one step, a deletion takes the files one by one before the record.

*Abstraction.* A key is the number of the change that drew it. Only pages are redirected;
media and downloads stand for one file ("asset"). The cookie's seal is left to its
content, and comparing in constant time to equality.

### SelfUpdate

*State.* `latest` is the image with the tag, `container` what runs: the commits its image
and its compose file are of, and its health. `recorded` is the state file, `run` the
script's place and variables, `head` the branch. `worth` is what a commit is good for, drawn
at the start: it works, builds but is never healthy, does not build, or has a compose file
that docker rejects ("refused") or accepts, though no server is healthy with it ("spoiled": a
wrong health check, user or volume).

*Actions.* One for each command that changes something: `Fetch`, `Compare`, `Inspect`,
`Build`, `Tag`, `Up` and `Await` (the two halves of `docker compose up --wait`), `RollBack`,
`UpBack`, `AwaitBack`, `Record`, `RecordEnds`. The container of `Up` and of `UpBack` is made
with the file that the run has copied to `APP_DIR` (self-update.sh:35), so that the way back
runs the old image with the new file. Around them docker's `Probe`, for which image and file
must both be in order (`Sound`), a server that hangs (`Break`), a run that is stopped, with or without the host (`Kill`), and `Push`.

*Abstraction.* An image is its commit. What else may fail (network, disk, registry) is
one failure of any command (`GoUnlucky`), bounded by `MaxFaults`. The removal of old
images and the first clone are left out.

### AssetBudget, MediaCache

*AssetBudget* is the promise of `media.Cache` to `addBundle`: the bytes in the
directory never pass a peak, and at the return they are no more than the
`TotalBytes` reported, which keep the transcript's limit. MediaCache implements
it (`WithinBudget`); Exports runs it for each export.

*State.* `unsent` is the rest of `unique` on the sender's side of the unbuffered
channel; `at` and `job` are each worker's place and locals; `temp` and `final`
are the directory, a file being an inode (`data`: the bytes of it that were
written since the last truncation), so that a rename moves the name away from
a worker that still writes; `assets`, `TotalBytes`, `reserved` are the fields the
mutex guards.

*Actions.* A worker's step is what it does under the mutex (`Skip...`, `Reserve`,
`Book...`) or one call of `download` (`OpenTemp`, a byte of `Copy`, `CopyEnds`,
`Rename`, `DropTemp`, and their failures). `Take` is a send meeting a receive.

*Abstraction.* The order of `unique` is any order. A URL is answered with the same
length throughout an export and has one file extension. `os.Remove` succeeds.
What `Collect` returns is the constant `Collections`.

### DiscordClient

*State.* `alive` and `posted` are the channel as Discord has it, messages being
numbered as they are posted; `all`, `before` the locals of `Messages`; `call` is what
each goroutine's `get` does; `unsent`, `sending`, `looksUp`, `gone`, `result`,
`received`, `cancelled` are `Members`; `at`, `channel`, `roles` the handler. `stable`
(what was there throughout) and `lost` (whose request failed) are history variables.

*Actions.* A step is one answer of Discord and the code up to the next request or
wait: `GetPage`, `GetChannel`, `GetRoles`, `Member` and their failures; `RateLimited`
and `Retry` are the loop of `get`; `Take`, `CloseJobs`, `Exit` the channel `jobs`;
`Join`, `Attach` the handler's two waits. `Post`, `Delete` and `ContextEnds` happen at
any time.

*Abstraction.* A message is its number and the IDs `AuthorIDs` would take from it. Bytes
of pages are left out: their limit is one of the ways in which a fetch fails. The
first two requests are sent when the model starts. `timely` tells whether a request
left before its context ended, which it must to be answered.

### Exports

*State.* `exportSlots`, `storageReserved`, a record for each request with its
place in `createTranscript`/`addBundle`, `cache[r]` an AssetBudget, `dir` the
directories with the bytes of their parts, `rendered` the renderer version of
each record, and the start's own state.

*Actions.* `Acquire`, `ReserveStorage` or `RefuseStorage`, the fetch, each file,
`Publish`, `Add`, the clean-ups, `Release` and `ReleaseExport` (the two deferred
calls, in their order); `Delete` beside them; `Crash`, `Start`,
`CleanupInterrupted`, `Refresh...`, `ListenAndServe`. Every step that can fail has
its failing action, and a failed clean-up leaves its directory.

*Abstraction.* Bytes are small numbers. The three small documents are one
step. The walk of `StorageBytes` is one step: a deletion during the walk only makes the
sum larger, and the one writer is the caller's own export. The registry is what
it acknowledged (`rendered`), justified by Registry. `Delete` fails either
before it removes anything or after it removed all.

### Settings

*State.* `file` is the settings file, with the plaintext `apiTokens` of an older
version in `legacy`; `mem` is `Settings.v`; `update` the change that holds
`Settings.mu`, before or after its save, and what it replaces. `out`, `in` and
`limits` are history variables: what was answered about tokens and the limit.

*Actions.* `Open` reads and merges, `OpenSaves` is the first save; `Update`, `Save` or
`SaveFails`, and `Answer` are an update; the process may die between any two. Readers
take the lock, so they see no stage in between (`Readable`).

*Abstraction.* A token is its secret. `RateLimit` is replaced as a whole, so that its `Max`
stands for its `WindowMS` too, and for the transcript limit, which is read, changed and
written alike. An update that an administrator may not make, or that
finds nothing to change, is none.

### Limiter

*State.* `limiter` has the `buckets` by key and `lastCleanup`; `now` is the clock;
`asked` and `granted` are history variables: how often who asked and was let in, when,
and under which rate, a limit with its window.

*Actions.* `Allow` is the whole of `allow`, clean-up included, under its mutex: `Refuse`
without room, or `Count`. The rate is any of `Rates`, since each request brings the limit
and the window that `apiAuth` read from the settings before it came to the lock, where
`updateRateLimit` may have replaced both since (server.go:326, server.go:763). The clean-up
and the expiry go by the window of the request, not by that under which a bucket began.

*Abstraction.* What `allow` answers about the rest of the window is left out.

## 3. The runs

| Run | Module | Properties | Question |
| --- | --- | --- | --- |
| registry_recovery | RegistryHistory | TypeOK Recoverable ListsEveryRecord RecordsHaveBundles ListedInOrder MapSpec | With every fault but torn writes, is anything acknowledged ever lost, and is the registry a durable map? No; yes. Is a record ever without its whole bundle? Only after a refused addition, a deletion or a power failure. Is every page of the listing what the order of creation makes it? Until an append fails after its line was written. |
| registry_torn | MCRegistry | DamageIsLocal | With torn writes and every other fault: what does a torn write cost? At most the one write glued to it, also when a compaction is made of the index read back from such a file. |
| registry_torn_loss | MCRegistry | Recoverable (violated) | Can a torn write cost an *acknowledged* write? Yes. |
| auth | MCAccess | AccessTypesOK CodeDiesWithClaim SetupCodeWorks MemoryIsDisk KeysFitRelyingParty CeremonyUsedOnce MethodRemains RemovedStaysOut AnsweredAsOfAMoment | Is the installation claimed once, and never unclaimed or unclaimable? Yes. Does a removed passkey, or a session of it, ever come back? No. Is a visitor of a transcript ever answered as it was at no moment of the visit? No. |
| auth_old_password | MCAuth | SessionMatchesPassword (violated) | Does a password change end every session of the old password? Not one being created. |
| media_pool | MCMediaCache | OneOutcomeEach AccountsAgree ReservationsHold CachedIsWhole | With a URL for each asset, are limits, manifest and files right? Yes. |
| media_shared | MCMediaCache | NoLeftovers WithinBudget Termination | With URLs shared, does the directory keep its bounds, and does `Cache` return? Yes. |
| media_shared_loss | MCMediaCache | CachedIsWhole (violated) | With URLs shared, is what the manifest lists there? Not always. |
| api | MCApi | ApiTypesOK AsAnswered NewestFirst NothingSkipped EveryAuthorAsked BudgetKept Termination RefusedForCause | Do tokens and limits survive failing saves, restarts and merges as they were answered? Yes. While limit and window are changed, what does the limiter grant in any stretch of a window, and whom does it refuse? Less than twice the limit, unless a shorter window is brought in the stretch, and no one without a cause. Are the pages of a changing channel complete and in order, is every author asked for unless the budget or the context ends the lookup, and does the fetch end? Yes. |
| exports | MCHost | HostTypesOK CeilingHolds ReservationsReturned HtmlAsRecorded RecordedWasHealthy SlotFreed KeepsServer Converges | Do exports keep the ceiling over failures, deletions, crashes, and give back slot and room? May a refresh die anywhere? Yes. Does an update ever cost a healthy server? Only by a compose file that no server is healthy with, by a kill or by a fault from outside. Does it leave a good commit undeployed, or record a bad one? No. |
| exports_refresh_growth | MCExports | StorageCeiling (violated) | Does the ceiling hold over a refresh? No. |
| updater_swap | SelfUpdate | SwapsOnlyWhenHealthy (violated) | Does a healthy server give way only to a healthy one? No. |

*Bounds, and why they are enough.*

- Registry: two transcripts, since properties relate a record to its own lines and a
  pair of records in the listing; three lines (`MaxWrites`, four for the finding), which
  allow an addition, a failed write over it, and an acknowledged one after, or two
  additions and a renewal that would reorder them, with compactions and crashes
  anywhere (their number is not bounded). `registry_recovery` has
  every fault but torn writes, `registry_torn` has them all.
  `ListedInOrder` is checked without torn writes and until an append is `refused`,
  because it is false after either (section 5); with torn writes, two transcripts and
  three lines are too few to show it.
- Access (in `auth`): `MCAccess` lets the dashboard or the visits move in a behaviour
  (`part`). Two tabs, so that one puts a cookie in the jar that the other presents; two
  changes, so that a link is withdrawn and replaced by another; two moments, a link that
  lives for one, so that it expires during a visit and may be renewed in it. Tabs are
  not permuted: that took TLC longer than it saved.
- Auth: two requests at a time, since every race is between two critical sections
  of one and one of another; as many sessions as requests; two passkeys and a
  password (one method to keep, one to remove, and one to be used meanwhile), two setup
  codes, two relying parties, one password change (`MaxEpoch`). One password is enough
  here, where a password is set or not; which one it is matters to the run of the finding,
  which has two and is the smallest that shows it.
- Media: three assets for two workers, so that one asset is always waiting while
  two are in progress or booked. `media_pool` has a file limit of 2 bytes and a transcript
  limit of 3, so that every comparison comes out both ways, and a URL that is refused;
  responses have 0 to 3 bytes, the last being the byte that shows a file is too
  large. `media_shared` has two URLs of which at least one is shared, and a
  transcript limit of 2, which two undersold downloads pass.
- Discord (in `api`): four messages, a transcript of three, pages of two: a full page, a last
  page that is cut to the limit, one that is short, and a message left out by the
  limit. Two workers for three authors, so that one waits for a worker; a budget
  that two members may pass together; two attempts, the first and a last one.
- Api: the three parts share no variable, so `MCApi` lets one of them move in a behaviour
  (`part`), and their states are not multiplied. Settings: one token from the
  environment, one from an older file and two that can be created, three updates and
  two deaths: one change that fails or dies, and one before and after it. Limiter:
  three keys for a table of two, four requests at four moments, and three rates
  (`MCRates`), so that limit and window are changed alone and together: windows of 3 and 1
  with a `Minute` of 2, on either side of it, so that a clean-up is due after 2 or 1, a
  bucket ends and begins again, and entries of the long window are there when the short one
  is brought.
- Updater (in `exports`): `MCHost` lets the exports or the updates move in a behaviour.
  Two commits of any of the five worths, two pushes, so that the branch can leave a commit and come
  back; two kills, so that a run and the one that repairs it are killed; one
  failure of the host.
- Exports: two requests for one slot, two transcripts, and room for one reservation
  over what one small bundle leaves, so that refusals, leftovers and deletions
  decide. One newer renderer and two restarts: one that dies in its refresh, and
  the one after it. `CeilingHolds` excludes a build with a newer renderer, because
  its refresh may pass the ceiling (`exports_refresh_growth`).

Symmetry permutes model values that no definition tells apart (IDs, requests,
ceremonies, workers, assets, allowed URLs); the runs that check liveness use none.
`CHECK_DEADLOCK FALSE` is set where the system stops: in Registry, Auth, Settings,
Limiter and Exports when the bounds on writes, epochs, requests or crashes are used up, in MediaCache when
`Cache` has returned, in DiscordClient when the fetch is over. `Termination` of the
last two shows that they stop nowhere else.

*Fairness.* `MediaCache!FairSpec` has weak fairness of each worker: a goroutine
that can run does, and the HTTP client's ten-second timeout ends a download that
stands still. It does not assume that a given download succeeds.
`DiscordClient!Fairness` has weak fairness of each goroutine and of the handler's two
waits; a request ends with the 45 seconds of the HTTP client at the latest, in an
answer or not. That the five minutes of the context ever pass is not assumed, so
`Termination` says that no one waits for ever without their help.
In `MCApi` a behaviour in which another part moves is not fair to the client, and
`Termination` says nothing of it.
`Exports!FairSpec` has weak fairness of a handler's own steps, of the return of
`media.Cache` (which `Termination` of MediaCache shows) and of a start; the
requests to Discord end, as `Termination` of DiscordClient shows. A
client's request (`Acquire`), deletions and crashes are not fair.
`SelfUpdate!UpdateFairness` has weak fairness of `Fetch` (the timer fires every two
minutes), of the script (every command ends: `up --wait` has a timeout of its own) and of
docker's health check. Kills and failures of the host are not fair, and bounded.

## 4. The proofs

`RegistryProofs`, `AuthProofs`, `AccessProofs`, `MediaProofs`, `ApiProofs` (Discord
client, Settings and Limiter), `SelfUpdateProofs` and `ExportsProofs` hold for every value
of the constants that satisfies the modules' ASSUMEs. The theorems marked * assume
`NoTorn` as well: that no write is cut short ("short" is not among the faults). Without it
they are false, as `registry_torn_loss` shows, and section 5 for the listing. The theorem
marked + assumes `OwnUrls`, that no two assets are fetched from one URL;
`media_shared_loss` shows it false without.

| Theorem | Statement |
| --- | --- |
| RegistryProofs!TypeCorrect | `Spec => []TypeOK` |
| RegistryProofs!EveryRecordListed | `Spec => []ListsEveryRecord`, under every fault |
| RegistryProofs!RecordsAlwaysHaveBundles | `HistorySpec => []RecordsHaveBundles`, under every fault |
| RegistryProofs!DamageAlwaysLocal | `Spec => []DamageIsLocal`, under every fault |
| RegistryProofs!RecoverableAlways * | `Spec => []Recoverable` |
| RegistryProofs!IndexRecoverableAlways * | `Spec => []IndexRecoverable` |
| RegistryProofs!ImplementsMap * | `Spec => MapSpec` |
| RegistryProofs!AlwaysListedInOrder * | `HistorySpec => []ListedInOrder` |
| AuthProofs!TypeCorrect | `Spec => []TypeOK` |
| AuthProofs!MethodAlwaysRemains | `Spec => MethodRemains` |
| AuthProofs!CodeAlwaysDies | `Spec => []CodeDiesWithClaim` |
| AuthProofs!SetupCodeAlwaysWorks | `Spec => []SetupCodeWorks` |
| AuthProofs!MemoryAlwaysOnDisk | `Spec => []MemoryIsDisk` |
| AuthProofs!KeysAlwaysFit | `Spec => []KeysFitRelyingParty` |
| AuthProofs!RemovedAlwaysStaysOut | `Spec => RemovedStaysOut` |
| AuthProofs!CeremonyAlwaysUsedOnce | `Spec => []CeremonyUsedOnce` |
| AccessProofs!AccessTypeCorrect | `AccessSpec => []AccessTypeOK` |
| AccessProofs!AlwaysAnswered | `AccessSpec => AnsweredAsOfAMoment` |
| AccessProofs!AllTypeCorrect | `AllSpec => []AccessTypesOK` |
| MediaProofs!TypeCorrect | `Spec => []TypeOK` |
| MediaProofs!AlwaysOneOutcomeEach | `Spec => []OneOutcomeEach` |
| MediaProofs!CachedAlwaysWhole + | `Spec => []CachedIsWhole` |
| MediaProofs!NothingLeftOver | `Spec => []NoLeftovers` |
| MediaProofs!AlwaysAccountsAgree | `Spec => []AccountsAgree` |
| MediaProofs!AlwaysReservationsHold | `Spec => []ReservationsHold` |
| MediaProofs!CacheKeepsBudget | `Spec => WithinBudget`, a refinement of AssetBudget |
| ApiProofs!TypeCorrect | `Spec => []TypeOK` |
| ApiProofs!AlwaysNewestFirst | `Spec => []NewestFirst` |
| ApiProofs!NothingEverSkipped | `Spec => []NothingSkipped` |
| ApiProofs!AlwaysEveryAuthorAsked | `Spec => []EveryAuthorAsked` |
| ApiProofs!SettingsTypeCorrect | `SettingsSpec => []SettingsTypeOK` |
| ApiProofs!AlwaysAsAnswered | `SettingsSpec => []AsAnswered` |
| ApiProofs!LimiterTypeCorrect | `LimiterSpec => []LimiterTypeOK` |
| ApiProofs!AlwaysBudgetKept | `LimiterSpec => []BudgetKept` |
| ApiProofs!AlwaysForCause | `LimiterSpec => RefusedForCause` |
| ApiProofs!ApiTypeCorrect | `ApiSpec => []ApiTypesOK` |
| SelfUpdateProofs!UpdateTypeCorrect | `UpdateSpec => []UpdateTypeOK` |
| SelfUpdateProofs!AlwaysKeepsServer | `UpdateSpec => KeepsServer` |
| SelfUpdateProofs!AlwaysRecordedHealthy | `UpdateSpec => []RecordedWasHealthy` |
| SelfUpdateProofs!HostTypeCorrect | `HostSpec => []HostTypesOK` |
| ExportsProofs!TypeCorrect | `Spec => []TypeOK` |
| ExportsProofs!AlwaysReservationsReturned | `Spec => []ReservationsReturned` |
| ExportsProofs!AlwaysHtmlAsRecorded | `Spec => []HtmlAsRecorded` |
| ExportsProofs!AlwaysCeilingHolds | `Spec => []CeilingHolds` |

`IndexRecoverable` and the type invariants that the composed ones contain are proved and in
no run.

*Sums.* `AccountsAgree`, `WithinBudget`, `CeilingHolds` and `BudgetKept` add up numbers over
files, workers, directories and requests. `SumProofs` has what their proofs need: that the
sum of the community modules can be taken apart at any element, is the same for functions
that agree, grows with its terms, and is bounded when its terms are charged to others. The
library's induction theorems take an operator, which the provers cannot instantiate; these
lemmas rest on two inductions of their own, over numbers and over subsets, in which the
property is a set.

*Registry.* `Recoverable` is not inductive: it speaks of what a restart would
replay, and says nothing of the index compaction writes from, nor of the file
an unfinished replay has read. `RecoveryInv` adds both: every line of every file
that may survive is whole; while a start replays, the index is the replay of
the lines read; while a call is in a stage, what its line says is allowed. The
lemmas about `Replay` (what an appended line, or a file of one line per record,
replays to) carry the step; the refinement follows action by action from the
same invariant. `RecordsHaveBundles` has an invariant of its own, `BundleInv`, which
needs no `NoTorn`: a transcript whose export has not come to its `Add` is mentioned by
nothing, neither the index nor the call that holds the lock nor any line, torn or whole, of
a file that may survive; and, with the history of RegistryHistory, nor is one without its
bundle that is not `unsettled` (`Standing`). `DamageIsLocal` has a third, `KeptInv`: it cannot speak of what a file
replays to, which a later torn write changes, so it says what a file `Remembers`: from
some whole line of a transcript on, or from the start, nothing that may not be shown.
Every append, torn or not, keeps that, a compaction writes it anew, and a file that
remembers a line replays it or has it glued to the chunk before. `ListedInOrder` has a
fourth, `ListInv`, and the only proof about what the index and the file have in common: the
index is the replay of the lines it holds (`ShownBy`); in each file that may survive, a line
changes a transcript that is shown at that place, and as old as it was, or is the first
to speak of one newer than all shown (`InOrder`); and the call that holds the lock is
about to write such a line (`LineFollows`), which a transcript whose deletion was written could not be.
`order` is then the order of creation after every replay, append and compaction
(`Ascending`), the loop of `List` is unrolled by an induction over numbers
(`FilteredRows`), and the row of a transcript is a bijection onto those not older (`RowIs`).
An append that fails and leaves its line breaks the first part and the second, so
`ListInv` holds until one has.

*Auth.* `FileInv` relates memory and the two files in each phase of a start: while
a code is reset the file is unclaimed, the code that is about to be hashed is the
newest one, and passkeys in the file pin the relying party. `StageInv` adds what a
request has left behind when it stands between two locks (the setup-code file is
only removed after a claim was saved), and `TableInv` keeps every ceremony token in
one place: a table, or the request that took it. `RemovedStaysOut` follows from what each
save can do to the passkeys in the file (`KeysGrow`): it adds at most the one made in its
step, which has an ID no other ever had.

*Access.* `AnsweredAsOfAMoment` speaks of a moment that may be long past when the answer
is given. `Inv` carries it: what an undisturbed visit has read is the record still
(`ReadIsRecord`), a visit that may get its file was let in at some moment (`GrantKnown`),
one that read what it may not read was refused at one (`DenialKnown`), and the key taken
from the address is in the jar until it is presented (`KeyExchanged`, `CookieHeld`), which
needs that either all visits under way are disturbed or none is (`Uniform`): the jar is
common to them.

*Media.* `TypeInv` is `TypeOK` and `Handed`: a worker that is at work has an asset,
and a file while it copies. `HoldInv` says that an asset is with one worker
or booked once, from which `OneOutcomeEach` follows. `FilesInv` needs `OwnUrls`: a
name in the directory then belongs to one asset, so that a worker in a stage knows
what its temporary and final file hold, and a booked file is nobody's any more.
`AccountsAgree` is inductive: each booking and reservation changes its sums at one place. `ReserveInv` is the first half of `ReservationsHold`: what is booked and what is
reserved fit the limit together. `SharedInv` is what is left of `FilesInv` when URLs are
shared: nothing under a URL's names is longer than its response (`Within`), a temporary name
has a worker that will rename or remove it, a final one a worker that will book it or an
entry (`Reason`). From the latter follow `NoLeftovers`, and the peak of
AssetBudget: each file is charged to its entry or its worker (`SumCharged`), the entries
add up to `TotalBytes`, and a worker answers for one name of at most
`FileLimit + 1` bytes.

*Discord.* `PagesInv` says that `before` is the oldest message fetched, and that what
was there throughout is fetched or older: the next page starts below it, so that it
repeats nothing and leaves nothing out, whatever happens above. `LookupInv` keeps each
author in one place (the sender, a worker, looked up, or gone), and says who may have
ended the lookup.

*Settings.* `UpdateInv` says what `AsAnswered` leaves open: that the file a start
will merge, older tokens included, is sound; and, while an update holds the lock, that
what it replaces was sound, and the file holds either that or the change.

*Limiter.* `BudgetKept` looks at any stretch of a window, which may reach into two of a
key's buckets, over changes of limit and window, and over clean-ups by any of the windows.
`LimiterInv` says, for each rate and each stretch in which no shorter window has been
brought yet (`Quiet`), what the key has had in it (`Owed`): while the stretch lasts, at most
m - 1 and what its bucket counts, if the bucket began in the stretch; else at most m - 1,
and one less than the bucket counts, whose first request was before the stretch. A bucket
ends within the stretch once at most: a second one that begins in it outlasts it, as every
window brought is as long as the stretch. For `RefusedForCause`, a bucket counts no more
than was asked since it began (`Asked`), and those that the last clean-up left had not
expired by the window it was made with (`Swept`).

*Self-updater.* The invariant says that the tag is the run's commit from `Tag` to the
rollback and the old image after it (`LatestKnown`), that nothing is wrong with the image and
the compose file of what is healthy (`HealthyIsSound`), and that a run which found a healthy
server and met nothing but its own commit's faults still has it, or has a sound image to go
back to (`Kept`): what is then left to go wrong is the compose file, which `KeepsServer`
excepts. `Chain` says that from the tag
to the record a run deals with its own commit, whatever else goes on.

*Exports.* `SlotInv` says that one request at most is past `acquireExport`, and what the
two counters are at each of its stages; no request is under way while the process is down or
starts. `BundleInv` says what the request relies on while it works on its directory (`BundleOf`:
no record yet, temporary until `Publish`, whole from `WriteHtml` on) and what a refresh
relies on between its copy, its rename and its record (`RefreshInv`). `CeilingHolds` needs
two more: that a directory in the making fits its reservation, media at
their peak and files together (`FitInv`), and that what else is on the disk leaves
room for it (`RoomInv`), from the check on. A deletion or a clean-up only makes room; no
start with the same renderer has anything to refresh.

*Compositions.* `AllSpec`, `ApiSpec` and `HostSpec` let one part move in a behaviour; their
type theorems follow from the parts', a part that does not move being left as it was.

*Only model-checked.* The four liveness properties, `Termination` of MediaCache and of
DiscordClient, `SlotFreed` and `Converges`: TLAPS proves no liveness under fairness. Every
safety and action property that a passing run checks has its theorem, under the
assumption named above where there is one.

## 5. Findings

1. `registry_torn_loss`: `appendLocked` leaves a partial line when a write stops
   early; the next line, acknowledged, is glued to it, and `Open` skips both.
2. `auth_old_password`: a sign-in that overlaps a password change leaves a
   session of the old password.
3. `media_shared_loss`: two assets fetched from one URL share file names; the
   second download truncates or removes what the manifest lists for the first.
4. `exports_refresh_growth`: the refresh at a start writes HTML without a look at
   the storage limit.
5. `updater_swap`: the updater replaces the running server first and waits for the health
   of the new one after, while README.md:149 and DEPLOY.md:106 say that it swaps when the
   health check has passed. A bad commit is the service until the rollback.

Four more have no run of their own. Two of them were met in the proof of `ListedInOrder`. admin.html:648
says of the listing: "Archives kept on this server, newest first." It is not, from a restart on
to the restart after the next compaction, once an append has left something in the file that
the index does not have:

- A deletion whose `Sync` fails leaves its tombstone in the file and the record in the index
  (store.go:146). A renewal after it is acknowledged, and replayed as a second addition, since the
  tombstone takes the record and not its place in `order` (store.go:107, store.go:111): the
  transcript is listed twice, once as if it were new. `PagesInOrder`, checked where
  `ListedInOrder` is, with two transcripts, "sync" for `Faults` and four lines, shows it.
- After a torn write, the line that adds a transcript may be glued to the part before it and
  unreadable, so that the next line, which renews it, gives it its place: behind one that was
  added in between. `ListedInOrder` with three transcripts, "short" for `Faults` and four
  lines shows it.

The other two are what `RecordsHaveBundles` and `KeepsServer` except:

- README.md:110 promises "atomic temporary directories so crashes never leave half-written
  bundles visible". For the death of a process that is what `RecordsHaveBundles` says.
  After a power failure it does not hold: the line of the record is synced (store.go:146)
  and the files of its bundle and their renaming are not (server.go:504-538), so that the
  record may name a directory that is still temporary, which the next start removes, or
  empty files.
- README.md:149 promises to "roll back automatically otherwise". The rollback tags the old
  image (self-update.sh:46) and starts it with the compose file of the new commit, which
  rsync has put in `APP_DIR` (self-update.sh:35). If it is that file which keeps a server
  from becoming healthy, the old one does not become healthy either, and the server is down
  until a commit with another file is pushed. `KeepsServer` without its last condition,
  with one push and neither kills nor faults, shows it.

Code facts that contradict no document, and so are modelled but not findings: an
`Add` whose sync fails removes the bundle, and the record may come back at the
next start without one; `Remove` deletes the bundle before it appends the
tombstone, so that visitors of a transcript being deleted get a 404 while
the dashboard lists it; a visitor is refused, though the link was good before and after,
when the transcript is changed between the redirect and the request that follows it.
The updater, killed between the swap and the rollback, has nothing healthy to go back to,
and the next run that fails has no rollback at all; and a branch set back to the
commit in the state file after such a kill is taken to be deployed (`rewound`).

One more that Auth shows, and no run of its own: `SetPassword` checks the current password
under one lock and replaces it under another (`CheckCurrent`, `SetPassword`), so that of
two overlapping changes the second replaces a password that nobody typed to it, while
manager.go:415 says that replacing requires it.

## 6. Assumptions on what is outside

- `fsync` of the registry's file makes its directory entry durable too; a file replaced by
  `WriteAtomic` without a sync of the directory may be lost to a power failure in
  Registry ("rewrite" runs to the directory's own sync), while power failures of the auth
  and settings files are not modelled: there a crash is the end of the process.
- A rename is atomic. A lock is fair to nobody and held for one step, or for the
  stages of one call.
- An operator may delete the setup-code file while the server is stopped
  (`LoseSetupFile`), since `Open` has a path for its absence.
- The times in records sort like the writes that drew them: `Compact` compares RFC3339Nano
  strings of the wall clock (store.go:366), which drop trailing zeros and follow a clock
  that is set back. `Sorted`, and with it `ListedInOrder`, assume that the clock is not set back
  between two exports, and that no two creation times are in one second with fractions of
  different lengths.
- What a power failure may undo in a bundle is that its files and its renaming are not there
  yet. That a directory which was removed is back is left out: no record is the worse for it.
- Random tokens, IDs and codes never repeat. A token of the environment that was revoked
  counts again after the next start (README.md:131); `AsAnswered` allows for it.

## 7. Not modelled

- *Health monitor* (`internal/health`): samples and counters for the dashboard's
  charts, behind one mutex; no other part reads them, and what could go wrong is a
  number on a screen.
- *Exporters and renderer* (`exporter`, `render`, `model`): sequential functions
  from messages to text; what is right about them is wording and layout. What other
  parts rely on, the number of bytes, is in Exports.
- *`Collect` and `rewrite`* of the media cache: which URLs of a message are assets and
  where their local names go. A model would be a table of the message's fields;
  MediaCache takes the assets as given, URLs shared or not.
- *Web pages* (`internal/web`): static files, and JavaScript in the browser.
- *The HTTP shell*: routing, headers, the origin check, client addresses and
  statistics; and the WebAuthn protocol, scrypt and cookie sealing, of which Auth and
  AccessControl use the outcome.
- *Signals*: a shutdown is a crash with nothing in flight.

## 8. Plan

Done, in this order: Registry with DurableMap; Auth; MediaCache with AssetBudget;
Exports, which composes AssetBudget; DiscordClient; Settings; Limiter; AccessControl;
SelfUpdate; `List`; the proofs of each; and the lemmas about sums with the proofs that
waited for them. What is left: whether `DamageIsLocal` can say more of what several torn
writes cost together, and a statement of what the listing still keeps after one.

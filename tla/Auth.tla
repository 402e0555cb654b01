--------------------------------- MODULE Auth ---------------------------------
(***************************************************************************)
(* internal/auth: who may use the dashboard. Store keeps the sign-in       *)
(* methods (a password, passkeys) in a file replaced atomically, and,      *)
(* until the first method claims the installation, the hash of a setup     *)
(* code that a second file holds in the clear. Manager keeps sessions and  *)
(* WebAuthn ceremonies in memory.                                          *)
(*                                                                         *)
(* Store and Manager have a lock each and a request takes them one after   *)
(* the other: a step of a request is what it does under one lock. Every    *)
(* request may fail at every step (a save, a token, an invalid answer).    *)
(***************************************************************************)
EXTENDS Naturals, FiniteSets

CONSTANTS Requests,        \* the requests in flight
          Sessions,        \* session tokens; as many as maxSessions
          Ceremonies,      \* ceremony tokens
          Passwords,       \* what an administrator types
          RelyingParties,  \* the values PASSKEY_RP_ID may have at a start
          None,
          MaxCeremonies,   \* maxCeremonies, for each of the two tables
          MaxKeys,         \* bound: passkeys ever registered
          MaxCodes,        \* bound: setup codes ever drawn
          MaxEpoch         \* bound: password changes in the life of a process

ASSUME AuthAssumption ==
    /\ MaxKeys \in Nat /\ MaxCodes \in Nat /\ MaxEpoch \in Nat /\ MaxCeremonies \in Nat
    /\ None \notin Passwords \cup Ceremonies
    /\ RelyingParties # {}

\* A passkey only works for the relying party it was created for.
Key == [id : 1..MaxKeys, rp : RelyingParties]

\* The auth file: code is the setup code it holds a hash of (0: no hash).
State == [rp : RelyingParties, code : 0..MaxCodes,
          password : Passwords \cup {None}, passkeys : SUBSET Key]

\* A session of a passkey, or (key 0) of the password typed at sign-in.
Session == [key : 0..MaxKeys, pass : Passwords \cup {None}, epoch : 0..MaxEpoch]

NoSession == [key |-> 0, pass |-> None, epoch |-> 0]

Stages == {"idle", "admitted",
           "loginTable", "setupTable", "additionalTable",   \* Begin... checked the store
           "assert", "attestSetup", "attestAdditional",     \* Finish... took the ceremony
           "update", "unlink", "verify", "session", "purge", "set", "clear", "bump"}

Request == [at : Stages, cer : Ceremonies \cup {None}, key : 0..MaxKeys,
            pass : Passwords \cup {None}]

VARIABLES
    disk,           \* the auth file
    setupFile,      \* the code in the setup-code file (0: there is no file)
    state,          \* Store.state
    phase,          \* "down", "loaded" (Open read the file), "reset", "hash", "up"
    rp,             \* the relying party ID this process was started with
    sessions,       \* Manager.sessions
    logins,         \* Manager.logins
    registrations,  \* Manager.registrations, by RegistrationKind
    epoch,          \* Manager.passwordEpoch
    rq,             \* what each request does next
    keys, codes     \* how many passkeys and setup codes were made

storeVars   == <<disk, setupFile, state, keys, codes>>
bootVars    == <<phase, rp>>
tableVars   == <<logins, registrations>>
managerVars == <<sessions, logins, registrations, epoch>>
vars == <<disk, setupFile, state, phase, rp, sessions, logins, registrations,
          epoch, rq, keys, codes>>

Blank(party) == [rp |-> party, code |-> 0, password |-> None, passkeys |-> {}]

Idle == [at |-> "idle", cer |-> None, key |-> 0, pass |-> None]

NoRegistrations == [setup |-> {}, additional |-> {}]

TypeOK ==
    /\ disk \in State /\ state \in State
    /\ setupFile \in 0..MaxCodes
    /\ phase \in {"down", "loaded", "reset", "hash", "up"}
    /\ rp \in RelyingParties
    /\ sessions \in [Sessions -> Session]
    /\ logins \subseteq Ceremonies
    /\ registrations \in [setup : SUBSET Ceremonies, additional : SUBSET Ceremonies]
    /\ epoch \in 0..MaxEpoch
    /\ rq \in [Requests -> Request]
    /\ keys \in 0..MaxKeys /\ codes \in 0..MaxCodes

Init ==
    /\ \E party \in RelyingParties :
          disk = Blank(party) /\ state = Blank(party) /\ rp = party
    /\ setupFile = 0 /\ phase = "down"
    /\ sessions = [s \in Sessions |-> NoSession]
    /\ logins = {} /\ registrations = NoRegistrations /\ epoch = 0
    /\ rq = [r \in Requests |-> Idle]
    /\ keys = 0 /\ codes = 0

-------------------------------------------------------------------------------
(* Open: one step for each file it replaces. An error ends the process, as a
   crash does. *)

\* anyCredentialLocked
Claimed(s) == s.password # None \/ s.passkeys # {}

\* There is no auth file yet: the first save, of an unclaimed state, has a code.
NoFile == ~ Claimed(disk) /\ disk.code = 0

\* Mutant of Open: the relying party of the file stays.
OpenKeepsParty(party) ==
    /\ phase = "down"
    /\ disk.passkeys # {} => disk.rp = party
    /\ phase' = "loaded" /\ rp' = party
    /\ state' = disk
    /\ UNCHANGED <<disk, setupFile, managerVars, rq, keys, codes>>

\* A start under another relying party is refused while there are passkeys.
Open(party) ==
    /\ phase = "down"
    /\ disk.passkeys # {} => disk.rp = party
    /\ phase' = "loaded" /\ rp' = party
    /\ state' = [disk EXCEPT !.rp = party]
    /\ UNCHANGED <<disk, setupFile, managerVars, rq, keys, codes>>

\* The relying party in memory may differ from the file's, until the next save.
OpenClaimed ==
    /\ phase = "loaded" /\ Claimed(state)
    /\ state' = [state EXCEPT !.code = 0]
    /\ disk' = IF state.code # 0 THEN state' ELSE disk
    /\ setupFile' \in {0, setupFile}
    /\ phase' = "up"
    /\ UNCHANGED <<rp, managerVars, rq, keys, codes>>

\* Mutant of OpenUnclaimed: any setup-code file is taken for the right one.
OpenUnverified ==
    /\ phase = "loaded" /\ ~ Claimed(state)
    /\ disk' = IF NoFile THEN disk ELSE state
    /\ phase' = IF setupFile # 0 /\ ~ NoFile THEN "up" ELSE "reset"
    /\ UNCHANGED <<setupFile, state, rp, managerVars, rq, keys, codes>>

OpenUnclaimed ==
    /\ phase = "loaded" /\ ~ Claimed(state)
    /\ disk' = IF NoFile THEN disk ELSE state
    /\ phase' = IF setupFile # 0 /\ setupFile = state.code THEN "up" ELSE "reset"
    /\ UNCHANGED <<setupFile, state, rp, managerVars, rq, keys, codes>>

\* resetSetupCodeLocked: the code's own file first, then its hash.
WriteSetupFile ==
    /\ phase = "reset" /\ codes < MaxCodes
    /\ codes' = codes + 1 /\ setupFile' = codes + 1
    /\ phase' = "hash"
    /\ UNCHANGED <<disk, state, rp, managerVars, rq, keys>>

\* Mutant of SaveSetupHash: the hash is of another code.
SaveOtherHash ==
    /\ phase = "hash"
    /\ state' = [state EXCEPT !.code = codes + 1]
    /\ disk' = state'
    /\ phase' = "up"
    /\ UNCHANGED <<setupFile, rp, managerVars, rq, keys, codes>>

SaveSetupHash ==
    /\ phase = "hash"
    /\ state' = [state EXCEPT !.code = codes]
    /\ disk' = state'
    /\ phase' = "up"
    /\ UNCHANGED <<setupFile, rp, managerVars, rq, keys, codes>>

\* The process ends or dies: sessions and ceremonies are gone.
Crash ==
    /\ phase # "down"
    /\ phase' = "down" /\ state' = Blank(rp)
    /\ sessions' = [s \in Sessions |-> NoSession]
    /\ logins' = {} /\ registrations' = NoRegistrations /\ epoch' = 0
    /\ rq' = [r \in Requests |-> Idle]
    /\ UNCHANGED <<disk, setupFile, rp, keys, codes>>

\* An operator deletes the setup-code file between two starts, which Open
\* allows for: the next start draws another code.
LoseSetupFile ==
    /\ phase = "down" /\ setupFile # 0
    /\ setupFile' = 0
    /\ UNCHANGED <<disk, state, bootVars, managerVars, rq, keys, codes>>

Boot == \/ \E party \in RelyingParties : Open(party)
        \/ LoseSetupFile \/ OpenClaimed \/ OpenUnclaimed \/ WriteSetupFile \/ SaveSetupHash \/ Crash

-------------------------------------------------------------------------------
(* The steps requests are made of. *)

\* The store's lock is held only across the removal of the setup-code file.
StoreFree == phase = "up" /\ \A r \in Requests : rq[r].at # "unlink"

At(r, stage) == phase = "up" /\ rq[r].at = stage

Goto(r, stage) == rq' = [rq EXCEPT ![r].at = stage]

Done(r) == rq' = [rq EXCEPT ![r] = Idle]

\* Mutant of Save: the state is assigned although the file may not be saved.
SaveIgnoringErrors(next) == disk' \in {disk, next} /\ state' = next

\* saveLocked and the assignment to Store.state that follows it.
Save(next) == disk' = next /\ state' = next

IdOf(s) == {k.id : k \in s.passkeys}

\* The request ends in an error: a save failed, an answer was not valid.
GiveUp(r) ==
    /\ phase = "up" /\ rq[r].at \notin {"idle", "unlink", "purge", "bump"}
    /\ Done(r)
    /\ UNCHANGED <<storeVars, bootVars, managerVars>>

\* Authenticated: the session is one of a method the store still has.
Honoured(s) ==
    /\ sessions[s] # NoSession
    /\ IF sessions[s].key = 0
       THEN sessions[s].epoch = epoch /\ state.password # None
       ELSE sessions[s].key \in IdOf(state)

\* protected: an administrator's request is let in, or its session is dropped.
Authenticated(r, s) ==
    /\ At(r, "idle") /\ StoreFree /\ sessions[s] # NoSession
    /\ IF Honoured(s)
       THEN Goto(r, "admitted") /\ UNCHANGED sessions
       ELSE sessions' = [sessions EXCEPT ![s] = NoSession] /\ UNCHANGED rq
    /\ UNCHANGED <<storeVars, bootVars, tableVars, epoch>>

\* createSession; in a full table the session takes the place of the oldest
\* one, which may be any (CreatedAt is drawn before the lock is taken).
CreateSession(r) ==
    /\ At(r, "session")
    /\ \E s \in Sessions :
          /\ sessions[s] # NoSession => \A t \in Sessions : sessions[t] # NoSession
          /\ sessions' = [sessions EXCEPT ![s] =
                            [key |-> rq[r].key, pass |-> rq[r].pass, epoch |-> epoch]]
    /\ Done(r)
    /\ UNCHANGED <<storeVars, bootVars, tableVars, epoch>>

\* Logout, and sweepLocked 24 hours (for a ceremony 5 minutes) later.
Forget ==
    /\ phase = "up"
    /\ \/ /\ \E s \in Sessions : /\ sessions[s] # NoSession
                                 /\ sessions' = [sessions EXCEPT ![s] = NoSession]
          /\ UNCHANGED tableVars
       \/ /\ \E c \in Ceremonies :
                /\ c \in logins \cup registrations.setup \cup registrations.additional
                /\ logins' = logins \ {c}
                /\ registrations' = [kind \in DOMAIN registrations |-> registrations[kind] \ {c}]
          /\ UNCHANGED sessions
    /\ UNCHANGED <<storeVars, bootVars, epoch, rq>>

\* A fresh token enters a table, which drops its oldest entry when it is full.
Fresh == Ceremonies \ (logins \cup registrations.setup \cup registrations.additional
                       \cup {rq[r].cer : r \in Requests})

Room(table) ==
    IF Cardinality(table) < MaxCeremonies THEN {table} ELSE {table \ {c} : c \in table}

-------------------------------------------------------------------------------
(* Claiming the installation with a password, and signing in with it. *)

\* Mutant of CompletePasswordSetup: the hash of the code is kept.
SetupKeepsCode(r, code, pass) ==
    /\ At(r, "idle") /\ StoreFree
    /\ ~ Claimed(state) /\ state.code # 0 /\ code = state.code
    /\ Save([state EXCEPT !.password = pass])
    /\ rq' = [rq EXCEPT ![r] = [Idle EXCEPT !.at = "unlink", !.pass = pass]]
    /\ UNCHANGED <<setupFile, keys, codes, bootVars, managerVars>>

\* CompletePasswordSetup, with the code the caller typed.
CompletePasswordSetup(r, code, pass) ==
    /\ At(r, "idle") /\ StoreFree
    /\ ~ Claimed(state) /\ state.code # 0 /\ code = state.code
    /\ Save([state EXCEPT !.password = pass, !.code = 0])
    /\ rq' = [rq EXCEPT ![r] = [Idle EXCEPT !.at = "unlink", !.pass = pass]]
    /\ UNCHANGED <<setupFile, keys, codes, bootVars, managerVars>>

\* os.Remove(setupPath), its error dropped, ends both kinds of setup; then the
\* password is verified again, or the passkey's session is created.
RemoveSetupFile(r) ==
    /\ At(r, "unlink")
    /\ setupFile' \in {0, setupFile}
    /\ Goto(r, IF rq[r].key = 0 THEN "verify" ELSE "session")
    /\ UNCHANGED <<disk, state, keys, codes, bootVars, managerVars>>

\* LoginPassword, up to createSession.
VerifyPassword(r, pass) ==
    /\ StoreFree
    /\ \/ At(r, "idle")
       \/ At(r, "verify") /\ pass = rq[r].pass
    /\ state.password # None /\ pass = state.password
    /\ rq' = [rq EXCEPT ![r] = [Idle EXCEPT !.at = "session", !.pass = pass]]
    /\ UNCHANGED <<storeVars, bootVars, managerVars>>

-------------------------------------------------------------------------------
(* Passkeys: ceremonies, which a Begin... call starts and a Finish... call
   consumes, with the store unlocked in between. *)

BeginLogin(r) ==
    /\ At(r, "idle") /\ StoreFree /\ state.passkeys # {}
    /\ Goto(r, "loginTable")
    /\ UNCHANGED <<storeVars, bootVars, managerVars>>

BeginSetup(r, code) ==
    /\ At(r, "idle") /\ StoreFree
    /\ ~ Claimed(state) /\ code # 0 /\ code = state.code
    /\ Goto(r, "setupTable")
    /\ UNCHANGED <<storeVars, bootVars, managerVars>>

BeginRegistration(r) ==
    /\ At(r, "admitted") /\ StoreFree /\ Claimed(state)
    /\ Goto(r, "additionalTable")
    /\ UNCHANGED <<storeVars, bootVars, managerVars>>

\* The second half of the three calls, under the manager's lock.
EnterTable(r) ==
    /\ \/ /\ At(r, "loginTable")
          /\ \E c \in Fresh, kept \in Room(logins) : logins' = kept \cup {c}
          /\ UNCHANGED registrations
       \/ \E kind \in {"setup", "additional"} :
             /\ At(r, IF kind = "setup" THEN "setupTable" ELSE "additionalTable")
             /\ \E c \in Fresh,
                   kept \in Room(registrations.setup \cup registrations.additional) :
                   registrations' = [k \in DOMAIN registrations |->
                        (registrations[k] \cap kept) \cup IF k = kind THEN {c} ELSE {}]
             /\ UNCHANGED logins
    /\ Done(r)
    /\ UNCHANGED <<storeVars, bootVars, sessions, epoch>>

\* Mutant of TakeLogin: the ceremony is read and stays until it expires.
PeekLogin(r, c) ==
    /\ At(r, "idle") /\ c \in logins
    /\ rq' = [rq EXCEPT ![r] = [Idle EXCEPT !.at = "assert", !.cer = c]]
    /\ UNCHANGED <<storeVars, bootVars, managerVars>>

\* takeLogin: whatever follows, the ceremony is not in the table any more.
TakeLogin(r, c) ==
    /\ At(r, "idle") /\ c \in logins
    /\ logins' = logins \ {c}
    /\ rq' = [rq EXCEPT ![r] = [Idle EXCEPT !.at = "assert", !.cer = c]]
    /\ UNCHANGED <<storeVars, bootVars, sessions, registrations, epoch>>

\* UserByCredential: the passkey is looked up for the answer to be verified with ...
UserByCredential(r, id) ==
    /\ At(r, "assert") /\ StoreFree /\ id \in IdOf(state)
    /\ rq' = [rq EXCEPT ![r] = [Idle EXCEPT !.at = "update", !.key = id]]
    /\ UNCHANGED <<storeVars, bootVars, managerVars>>

\* Mutant of UpdateCredential: the passkey is put where it was looked up.
UpdateLookedUp(r) ==
    /\ At(r, "update") /\ StoreFree
    /\ Save([state EXCEPT !.passkeys = @ \cup {[id |-> rq[r].key, rp |-> rp]}])
    /\ Goto(r, "session")
    /\ UNCHANGED <<setupFile, keys, codes, bootVars, managerVars>>

\* ... and updated, if it is still there, which saves the state.
UpdateCredential(r) ==
    /\ At(r, "update") /\ StoreFree /\ rq[r].key \in IdOf(state)
    /\ Save(state)
    /\ Goto(r, "session")
    /\ UNCHANGED <<setupFile, keys, codes, bootVars, managerVars>>

\* takeRegistration: a ceremony of the other kind is consumed all the same.
TakeRegistration(r, c) ==
    \E kind, expected \in {"setup", "additional"} :
        /\ At(r, IF expected = "setup" THEN "idle" ELSE "admitted")
        /\ c \in registrations[kind]
        /\ registrations' = [registrations EXCEPT ![kind] = @ \ {c}]
        /\ rq' = [rq EXCEPT ![r] =
                    IF kind # expected THEN Idle
                    ELSE [Idle EXCEPT !.cer = c, !.at =
                            IF kind = "setup" THEN "attestSetup" ELSE "attestAdditional"]]
        /\ UNCHANGED <<storeVars, bootVars, sessions, logins, epoch>>

\* AddCredential, of a passkey made for this process's relying party.
AddCredential(r) ==
    /\ StoreFree /\ keys < MaxKeys
    /\ keys' = keys + 1
    /\ LET added == [state EXCEPT !.passkeys = @ \cup {[id |-> keys + 1, rp |-> rp]}] IN
       \/ /\ At(r, "attestSetup") /\ ~ Claimed(state)
          /\ Save([added EXCEPT !.code = 0])
          /\ rq' = [rq EXCEPT ![r] = [Idle EXCEPT !.at = "unlink", !.key = keys + 1]]
       \/ /\ At(r, "attestAdditional")
          /\ ~ (state.passkeys = {} /\ state.code # 0)
          /\ Save(added)
          /\ Done(r)
    /\ UNCHANGED <<setupFile, codes, bootVars, managerVars>>

\* DeletePasskey: refused for the last sign-in method.
DeletePasskey(r, key) ==
    /\ At(r, "admitted") /\ StoreFree
    /\ key \in state.passkeys
    /\ state.passkeys # {key} \/ state.password # None
    /\ Save([state EXCEPT !.passkeys = @ \ {key}])
    /\ rq' = [rq EXCEPT ![r] = [Idle EXCEPT !.at = "purge", !.key = key.id]]
    /\ UNCHANGED <<setupFile, keys, codes, bootVars, managerVars>>

\* ... and its sessions are removed.
PurgeSessions(r) ==
    /\ At(r, "purge")
    /\ sessions' = [s \in Sessions |->
                      IF sessions[s].key = rq[r].key THEN NoSession ELSE sessions[s]]
    /\ Done(r)
    /\ UNCHANGED <<storeVars, bootVars, tableVars, epoch>>

-------------------------------------------------------------------------------
(* Changing and removing the password. *)

\* SetPassword: a password that is set has to be typed (None: left empty) ...
CheckCurrent(r, current, next) ==
    /\ At(r, "admitted") /\ StoreFree
    /\ state.password # None => current = state.password
    /\ rq' = [rq EXCEPT ![r] = [Idle EXCEPT !.at = "set", !.pass = next]]
    /\ UNCHANGED <<storeVars, bootVars, managerVars>>

\* ... before the new one is stored, under the lock taken again.
SetPassword(r) ==
    /\ At(r, "set") /\ StoreFree /\ Claimed(state)
    /\ Save([state EXCEPT !.password = rq[r].pass])
    /\ Goto(r, "bump")
    /\ UNCHANGED <<setupFile, keys, codes, bootVars, managerVars>>

\* ClearPassword, in the same two steps.
CheckClear(r, current) ==
    /\ At(r, "admitted") /\ StoreFree
    /\ state.password # None /\ current = state.password
    /\ rq' = [rq EXCEPT ![r] = [Idle EXCEPT !.at = "clear"]]
    /\ UNCHANGED <<storeVars, bootVars, managerVars>>

\* Mutant of DeletePassword: the passkeys were looked at before the lock.
DeletePasswordUnchecked(r) ==
    /\ At(r, "clear") /\ StoreFree
    /\ state.password # None
    /\ Save([state EXCEPT !.password = None])
    /\ Goto(r, "bump")
    /\ UNCHANGED <<setupFile, keys, codes, bootVars, managerVars>>

DeletePassword(r) ==
    /\ At(r, "clear") /\ StoreFree
    /\ state.password # None /\ state.passkeys # {}
    /\ Save([state EXCEPT !.password = None])
    /\ Goto(r, "bump")
    /\ UNCHANGED <<setupFile, keys, codes, bootVars, managerVars>>

\* bumpPasswordEpoch: no session of a password is left.
BumpPasswordEpoch(r) ==
    /\ At(r, "bump") /\ epoch < MaxEpoch
    /\ epoch' = epoch + 1
    /\ sessions' = [s \in Sessions |->
                      IF sessions[s].key = 0 THEN NoSession ELSE sessions[s]]
    /\ Done(r)
    /\ UNCHANGED <<storeVars, bootVars, tableVars>>

-------------------------------------------------------------------------------
Serve(r) ==
    \/ \E s \in Sessions : Authenticated(r, s)
    \/ CreateSession(r) \/ RemoveSetupFile(r) \/ GiveUp(r)
    \/ \E pass \in Passwords, code \in 1..codes : CompletePasswordSetup(r, code, pass)
    \/ \E pass \in Passwords : VerifyPassword(r, pass)
    \/ BeginLogin(r) \/ BeginRegistration(r) \/ EnterTable(r)
    \/ \E code \in 1..codes : BeginSetup(r, code)
    \/ \E c \in Ceremonies : TakeLogin(r, c) \/ TakeRegistration(r, c)
    \/ \E id \in 1..keys : UserByCredential(r, id)
    \/ UpdateCredential(r) \/ AddCredential(r)
    \/ \E key \in state.passkeys : DeletePasskey(r, key)
    \/ PurgeSessions(r)
    \/ \E current \in Passwords \cup {None}, next \in Passwords : CheckCurrent(r, current, next)
    \/ \E current \in Passwords : CheckClear(r, current)
    \/ SetPassword(r) \/ DeletePassword(r) \/ BumpPasswordEpoch(r)

Next == Boot \/ Forget \/ \E r \in Requests : Serve(r)

Spec == Init /\ [][Next]_vars

-------------------------------------------------------------------------------
(* Properties. *)

\* MethodRemains: once a first method has claimed the installation, the file
\* never loses its last one, whatever two administrators remove at a time and
\* wherever the process dies (DeletePassword, DeletePasskey, Open). So the setup
\* pages, which hand the dashboard to whoever holds a code, never open again.
MethodRemains == [][Claimed(disk) => Claimed(disk')]_vars

\* CodeDiesWithClaim: no file or memory of a claimed installation holds the hash
\* of a setup code (AddCredential, which reads the hash to tell the two kinds of
\* registration apart, would refuse the first passkey beside a password).
CodeDiesWithClaim ==
    /\ Claimed(disk) => disk.code = 0
    /\ Claimed(state) => state.code = 0

\* SetupCodeWorks: an unclaimed installation that serves has a setup-code file,
\* and it is the file whose code is accepted, wherever earlier starts died
\* between its two files (resetSetupCodeLocked, Open).
SetupCodeWorks ==
    phase = "up" /\ ~ Claimed(state) => setupFile # 0 /\ setupFile = state.code

\* MemoryIsDisk: a restart finds the sign-in methods the process serves with,
\* also after saves that failed (every method of Store saves, then assigns).
MemoryIsDisk ==
    phase = "up" => [state EXCEPT !.rp = disk.rp] = disk

\* KeysFitRelyingParty: every passkey in the file works for the relying party
\* the file names, so that the one start Open allows can use them all, also
\* when the process ran under another one before it had passkeys.
KeysFitRelyingParty == \A key \in disk.passkeys : key.rp = disk.rp

\* RemovedStaysOut: a passkey that was removed never comes back, and no session of
\* it is let in again, whatever sign-in with it was under way (FinishLogin looks it
\* up, verifies, updates it and creates the session, in steps), whoever else saves
\* the store, and across restarts (DeletePasskey, UpdateCredential, createSession).
RemovedStaysOut ==
    [][\A id \in 1..keys : id \notin IdOf(disk) =>
         /\ id \notin IdOf(disk')
         /\ phase' = "up" => \A s \in Sessions : sessions'[s].key = id => ~ Honoured(s)']_vars

\* CeremonyUsedOnce: a ceremony is answered by one request at most: the one that
\* took it out of its table (takeLogin, takeRegistration).
CeremonyUsedOnce ==
    \A r \in Requests : rq[r].cer # None =>
        /\ rq[r].cer \notin logins \cup registrations.setup \cup registrations.additional
        /\ \A other \in Requests \ {r} : rq[other].cer # rq[r].cer

\* SessionMatchesPassword: while no password change is being answered, a session
\* let in for a password is one of the password that is set.
SessionMatchesPassword ==
    (phase = "up" /\ \A r \in Requests : rq[r].at # "bump") =>
        \A s \in Sessions : Honoured(s) /\ sessions[s].key = 0 =>
            sessions[s].pass = state.password
===============================================================================

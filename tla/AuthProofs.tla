------------------------------ MODULE AuthProofs ------------------------------
(***************************************************************************)
(* What Auth keeps true for any number of requests, sessions, ceremonies,  *)
(* passwords and relying parties. The inductive invariant, AuthInv, ties   *)
(* the store's memory to its file and the stage of a start or of a request *)
(* to what that stage may assume of both.                                  *)
(***************************************************************************)
EXTENDS Auth, TLAPS

-------------------------------------------------------------------------------
(* Type correctness. *)

LEMMA NoneFacts == /\ MaxKeys \in Nat /\ MaxCodes \in Nat /\ MaxEpoch \in Nat
                   /\ None \notin Passwords /\ None \notin Ceremonies
  BY AuthAssumption

LEMMA BlankType == \A party \in RelyingParties : Blank(party) \in State
  BY NoneFacts DEF Blank, State

LEMMA IdleType == Idle \in Request /\ NoSession \in Session
  BY NoneFacts DEF Idle, Request, Stages, NoSession, Session

\* Changing one field of a request, or of the state, keeps its type.
LEMMA RequestFields ==
  ASSUME NEW q \in Request
  PROVE  /\ \A stage \in Stages : [q EXCEPT !.at = stage] \in Request
         /\ \A c \in Ceremonies : [q EXCEPT !.cer = c] \in Request
         /\ \A id \in 0..MaxKeys : [q EXCEPT !.key = id] \in Request
         /\ \A pass \in Passwords : [q EXCEPT !.pass = pass] \in Request
  BY DEF Request

LEMMA StateFields ==
  ASSUME NEW q \in State
  PROVE  /\ \A code \in 0..MaxCodes : [q EXCEPT !.code = code] \in State
         /\ [q EXCEPT !.code = 0] \in State
         /\ \A pass \in Passwords \cup {None} : [q EXCEPT !.password = pass] \in State
         /\ \A set \in SUBSET Key : [q EXCEPT !.passkeys = set] \in State
  BY NoneFacts DEF State

LEMMA TypeInit == Init => TypeOK
  BY BlankType, IdleType, NoneFacts DEF Init, TypeOK, NoRegistrations

\* Moving a request to another stage keeps its type.
LEMMA GotoType ==
  ASSUME TypeOK, NEW r \in Requests, NEW stage \in Stages, Goto(r, stage)
  PROVE  rq' \in [Requests -> Request]
<1>1. [rq[r] EXCEPT !.at = stage] \in Request
  BY DEF TypeOK, Request
<1> QED
  BY <1>1 DEF TypeOK, Goto

LEMMA DoneType ==
  ASSUME TypeOK, NEW r \in Requests, Done(r)
  PROVE  rq' \in [Requests -> Request]
  BY IdleType DEF TypeOK, Done

\* So does giving it a new record of the right type.
LEMMA RequestType ==
  ASSUME TypeOK, NEW r \in Requests, NEW record \in Request, rq' = [rq EXCEPT ![r] = record]
  PROVE  rq' \in [Requests -> Request]
  BY DEF TypeOK

LEMMA BootType == TypeOK /\ Boot => TypeOK'
<1> SUFFICES ASSUME TypeOK, Boot PROVE TypeOK'
  OBVIOUS
<1> USE NoneFacts
<1>1. ASSUME NEW party \in RelyingParties, Open(party) PROVE TypeOK'
  <2>1. state' \in State
    BY <1>1 DEF Open, TypeOK, State
  <2> QED
    BY <1>1, <2>1 DEF Open, TypeOK, managerVars
<1>2. CASE OpenClaimed
  <2>1. state' \in State /\ disk' \in State
    BY <1>2 DEF OpenClaimed, TypeOK, State
  <2> QED
    BY <1>2, <2>1 DEF OpenClaimed, TypeOK, managerVars
<1>3. CASE OpenUnclaimed
  BY <1>3 DEF OpenUnclaimed, TypeOK, managerVars
<1>4. CASE WriteSetupFile
  BY <1>4 DEF WriteSetupFile, TypeOK, managerVars
<1>5. CASE SaveSetupHash
  <2>1. state' \in State /\ disk' \in State
    BY <1>5 DEF SaveSetupHash, TypeOK, State
  <2> QED
    BY <1>5, <2>1 DEF SaveSetupHash, TypeOK, managerVars
<1>6. CASE Crash
  <2>1. state' \in State
    BY <1>6, BlankType DEF Crash, TypeOK
  <2>2. rq' \in [Requests -> Request] /\ sessions' \in [Sessions -> Session]
    BY <1>6, IdleType DEF Crash
  <2> QED
    BY <1>6, <2>1, <2>2 DEF Crash, TypeOK, NoRegistrations
<1>7. CASE LoseSetupFile
  BY <1>7 DEF LoseSetupFile, TypeOK, bootVars, managerVars
<1> QED
  BY <1>1, <1>2, <1>3, <1>4, <1>5, <1>6, <1>7 DEF Boot

\* A step that saves: the two parts of the type that change are the state's and
\* the request's.
LEMMA SaveType ==
  ASSUME TypeOK, NEW next \in State, Save(next), rq' \in [Requests -> Request],
         UNCHANGED <<setupFile, codes, bootVars, managerVars>>, keys' \in 0..MaxKeys
  PROVE  TypeOK'
  BY DEF TypeOK, Save, bootVars, managerVars

LEMMA ServeType == \A r \in Requests : TypeOK /\ Serve(r) => TypeOK'
<1> SUFFICES ASSUME NEW r \in Requests, TypeOK, Serve(r) PROVE TypeOK'
  OBVIOUS
<1> USE NoneFacts
<1>1. ASSUME NEW s \in Sessions, Authenticated(r, s) PROVE TypeOK'
  <2>1. rq' \in [Requests -> Request]
    BY <1>1, GotoType DEF Authenticated, TypeOK, Stages
  <2>2. sessions' \in [Sessions -> Session]
    BY <1>1, IdleType DEF Authenticated, TypeOK
  <2> QED
    BY <1>1, <2>1, <2>2 DEF Authenticated, TypeOK, storeVars, bootVars, tableVars
<1>2. CASE CreateSession(r)
  <2>1. [key |-> rq[r].key, pass |-> rq[r].pass, epoch |-> epoch] \in Session
    BY DEF TypeOK, Request, Session
  <2>2. sessions' \in [Sessions -> Session]
    BY <1>2, <2>1 DEF CreateSession, TypeOK
  <2>3. rq' \in [Requests -> Request]
    BY <1>2, DoneType DEF CreateSession
  <2> QED
    BY <1>2, <2>2, <2>3 DEF CreateSession, TypeOK, storeVars, bootVars, tableVars
<1>3. CASE RemoveSetupFile(r)
  <2>1. rq' \in [Requests -> Request]
    BY <1>3, GotoType DEF RemoveSetupFile, Stages
  <2> QED
    BY <1>3, <2>1 DEF RemoveSetupFile, TypeOK, bootVars, managerVars
<1>4. CASE GiveUp(r)
  BY <1>4, DoneType DEF GiveUp, TypeOK, storeVars, bootVars, managerVars
<1>5. ASSUME NEW pass \in Passwords, NEW code \in 1..codes, CompletePasswordSetup(r, code, pass)
      PROVE  TypeOK'
  <2>1. [state EXCEPT !.password = pass, !.code = 0] \in State
    <3>1. [state EXCEPT !.password = pass] \in State
      BY StateFields DEF TypeOK
    <3> QED
      BY <3>1, StateFields
  <2>2. [Idle EXCEPT !.at = "unlink", !.pass = pass] \in Request
    BY IdleType, RequestFields DEF Stages
  <2>3. rq' \in [Requests -> Request]
    BY <1>5, <2>2, RequestType DEF CompletePasswordSetup
  <2> QED
    BY <1>5, <2>1, <2>3, SaveType DEF CompletePasswordSetup, TypeOK
<1>6. ASSUME NEW pass \in Passwords, VerifyPassword(r, pass) PROVE TypeOK'
  <2>1. [Idle EXCEPT !.at = "session", !.pass = pass] \in Request
    BY IdleType, RequestFields DEF Stages
  <2>2. rq' \in [Requests -> Request]
    BY <1>6, <2>1, RequestType DEF VerifyPassword
  <2> QED
    BY <1>6, <2>2 DEF VerifyPassword, TypeOK, storeVars, bootVars, managerVars
<1>7. CASE BeginLogin(r) \/ BeginRegistration(r) \/ \E code \in 1..codes : BeginSetup(r, code)
  <2>1. rq' \in [Requests -> Request]
    BY <1>7, GotoType DEF BeginLogin, BeginRegistration, BeginSetup, Stages
  <2> QED
    BY <1>7, <2>1 DEF BeginLogin, BeginRegistration, BeginSetup, TypeOK, storeVars, bootVars,
                      managerVars
<1>8. CASE EnterTable(r)
  <2>1. rq' \in [Requests -> Request]
    BY <1>8, DoneType DEF EnterTable
  <2>2. logins' \subseteq Ceremonies
    BY <1>8 DEF EnterTable, TypeOK, Fresh, Room
  <2>3. registrations' \in [setup : SUBSET Ceremonies, additional : SUBSET Ceremonies]
    BY <1>8 DEF EnterTable, TypeOK, Fresh
  <2> QED
    BY <1>8, <2>1, <2>2, <2>3 DEF EnterTable, TypeOK, storeVars, bootVars
<1>9. ASSUME NEW c \in Ceremonies, TakeLogin(r, c) PROVE TypeOK'
  <2>1. [Idle EXCEPT !.at = "assert", !.cer = c] \in Request
    BY IdleType, RequestFields DEF Stages
  <2>2. rq' \in [Requests -> Request]
    BY <1>9, <2>1, RequestType DEF TakeLogin
  <2> QED
    BY <1>9, <2>2 DEF TakeLogin, TypeOK, storeVars, bootVars
<1>10. ASSUME NEW c \in Ceremonies, TakeRegistration(r, c) PROVE TypeOK'
  <2>1. [Idle EXCEPT !.cer = c, !.at = "attestSetup"] \in Request
        /\ [Idle EXCEPT !.cer = c, !.at = "attestAdditional"] \in Request
    BY IdleType, RequestFields DEF Stages
  <2>2. rq' \in [Requests -> Request]
    BY <1>10, <2>1, IdleType DEF TakeRegistration, TypeOK
  <2>3. registrations' \in [setup : SUBSET Ceremonies, additional : SUBSET Ceremonies]
    BY <1>10 DEF TakeRegistration, TypeOK
  <2> QED
    BY <1>10, <2>2, <2>3 DEF TakeRegistration, TypeOK, storeVars, bootVars
<1>11. ASSUME NEW id \in 1..keys, UserByCredential(r, id) PROVE TypeOK'
  <2>1. [Idle EXCEPT !.at = "update", !.key = id] \in Request
    <3>1. id \in 0..MaxKeys
      BY DEF TypeOK
    <3>2. [Idle EXCEPT !.at = "update"] \in Request
      BY IdleType, RequestFields DEF Stages
    <3> QED
      BY <3>1, <3>2, RequestFields
  <2>2. rq' \in [Requests -> Request]
    BY <1>11, <2>1, RequestType DEF UserByCredential
  <2> QED
    BY <1>11, <2>2 DEF UserByCredential, TypeOK, storeVars, bootVars, managerVars
<1>20. CASE UpdateCredential(r)
  <2>1. rq' \in [Requests -> Request]
    BY <1>20, GotoType DEF UpdateCredential, Stages
  <2> QED
    BY <1>20, <2>1, SaveType DEF UpdateCredential, TypeOK
<1>12. CASE AddCredential(r)
  <2> DEFINE added == [state EXCEPT !.passkeys = @ \cup {[id |-> keys + 1, rp |-> rp]}]
  <2>1. keys' \in 0..MaxKeys /\ keys + 1 \in 1..MaxKeys
    BY <1>12 DEF AddCredential, TypeOK
  <2>2. [id |-> keys + 1, rp |-> rp] \in Key
    BY <2>1 DEF Key, TypeOK
  <2>3. added \in State
    BY <2>2, StateFields DEF TypeOK, State
  <2>7. \A q \in State : [q EXCEPT !.code = 0] \in State
    BY StateFields
  <2>4. [Idle EXCEPT !.at = "unlink", !.key = keys + 1] \in Request
    <3>1. keys + 1 \in 0..MaxKeys
      BY <2>1
    <3>2. [Idle EXCEPT !.at = "unlink"] \in Request
      BY IdleType, RequestFields DEF Stages
    <3> QED
      BY <3>1, <3>2, RequestFields
  <2>5. rq' \in [Requests -> Request]
    BY <1>12, <2>4, RequestType, DoneType DEF AddCredential
  <2>6. Save(added) \/ Save([added EXCEPT !.code = 0])
    BY <1>12 DEF AddCredential
  <2> HIDE DEF added
  <2> QED
    BY <1>12, <2>1, <2>3, <2>5, <2>6, <2>7, SaveType DEF AddCredential
<1>13. ASSUME NEW key \in state.passkeys, DeletePasskey(r, key) PROVE TypeOK'
  <2>1. [state EXCEPT !.passkeys = @ \ {key}] \in State
    BY DEF TypeOK, State
  <2>2. key.id \in 1..MaxKeys
    BY DEF TypeOK, State, Key
  <2>3. [Idle EXCEPT !.at = "purge", !.key = key.id] \in Request
    <3>1. key.id \in 0..MaxKeys
      BY <2>2
    <3>2. [Idle EXCEPT !.at = "purge"] \in Request
      BY IdleType, RequestFields DEF Stages
    <3> QED
      BY <3>1, <3>2, RequestFields
  <2>4. rq' \in [Requests -> Request]
    BY <1>13, <2>3, RequestType DEF DeletePasskey
  <2> QED
    BY <1>13, <2>1, <2>4, SaveType DEF DeletePasskey, TypeOK
<1>14. CASE PurgeSessions(r)
  <2>1. rq' \in [Requests -> Request]
    BY <1>14, DoneType DEF PurgeSessions
  <2>2. sessions' \in [Sessions -> Session]
    BY <1>14, IdleType DEF PurgeSessions, TypeOK
  <2> QED
    BY <1>14, <2>1, <2>2 DEF PurgeSessions, TypeOK, storeVars, bootVars, tableVars
<1>15. ASSUME NEW current \in Passwords \cup {None}, NEW next \in Passwords,
              CheckCurrent(r, current, next)
       PROVE  TypeOK'
  <2>1. [Idle EXCEPT !.at = "set", !.pass = next] \in Request
    BY IdleType, RequestFields DEF Stages
  <2>2. rq' \in [Requests -> Request]
    BY <1>15, <2>1, RequestType DEF CheckCurrent
  <2> QED
    BY <1>15, <2>2 DEF CheckCurrent, TypeOK, storeVars, bootVars, managerVars
<1>16. ASSUME NEW current \in Passwords, CheckClear(r, current) PROVE TypeOK'
  <2>1. [Idle EXCEPT !.at = "clear"] \in Request
    BY IdleType, RequestFields DEF Stages
  <2>2. rq' \in [Requests -> Request]
    BY <1>16, <2>1, RequestType DEF CheckClear
  <2> QED
    BY <1>16, <2>2 DEF CheckClear, TypeOK, storeVars, bootVars, managerVars
<1>17. CASE SetPassword(r)
  <2>1. [state EXCEPT !.password = rq[r].pass] \in State
    BY DEF TypeOK, State, Request
  <2>2. rq' \in [Requests -> Request]
    BY <1>17, GotoType DEF SetPassword, Stages
  <2> QED
    BY <1>17, <2>1, <2>2, SaveType DEF SetPassword, TypeOK
<1>18. CASE DeletePassword(r)
  <2>1. [state EXCEPT !.password = None] \in State
    BY DEF TypeOK, State
  <2>2. rq' \in [Requests -> Request]
    BY <1>18, GotoType DEF DeletePassword, Stages
  <2> QED
    BY <1>18, <2>1, <2>2, SaveType DEF DeletePassword, TypeOK
<1>19. CASE BumpPasswordEpoch(r)
  <2>1. rq' \in [Requests -> Request]
    BY <1>19, DoneType DEF BumpPasswordEpoch
  <2>2. sessions' \in [Sessions -> Session]
    BY <1>19, IdleType DEF BumpPasswordEpoch, TypeOK
  <2> QED
    BY <1>19, <2>1, <2>2 DEF BumpPasswordEpoch, TypeOK, storeVars, bootVars, tableVars
<1> QED
  BY <1>1, <1>2, <1>3, <1>4, <1>5, <1>6, <1>7, <1>8, <1>9, <1>10, <1>11, <1>12, <1>13, <1>14,
     <1>15, <1>16, <1>17, <1>18, <1>19, <1>20 DEF Serve

LEMMA TypeNext == TypeOK /\ [Next]_vars => TypeOK'
<1> SUFFICES ASSUME TypeOK, [Next]_vars PROVE TypeOK'
  OBVIOUS
<1>1. CASE Forget
  <2>1. sessions' \in [Sessions -> Session]
    BY <1>1, IdleType DEF Forget, TypeOK
  <2>2. logins' \subseteq Ceremonies
        /\ registrations' \in [setup : SUBSET Ceremonies, additional : SUBSET Ceremonies]
    BY <1>1 DEF Forget, TypeOK, tableVars
  <2> QED
    BY <1>1, <2>1, <2>2 DEF Forget, TypeOK, storeVars, bootVars
<1>2. CASE UNCHANGED vars
  BY <1>2 DEF vars, TypeOK
<1> QED
  BY <1>1, <1>2, BootType, ServeType DEF Next

\* Type correctness of every state of Auth.
THEOREM TypeCorrect == Spec => []TypeOK
  BY TypeInit, TypeNext, PTL DEF Spec

-------------------------------------------------------------------------------
(* The store. FileInv relates memory and file at each stage of a start;      *)
(* StageInv is what the requests between two of their steps rely on.         *)

FileInv ==
    /\ phase # "down" =>
          /\ state.rp = rp
          /\ state.code = disk.code /\ state.password = disk.password
          /\ state.passkeys = disk.passkeys
          /\ disk.passkeys # {} => disk.rp = rp
    /\ phase = "down" => state.code = 0
    /\ Claimed(disk) => disk.code = 0
    /\ phase \in {"reset", "hash"} => ~ Claimed(disk)
    /\ phase = "hash" => setupFile = codes /\ codes # 0
    /\ phase = "up" /\ ~ Claimed(disk) => setupFile # 0 /\ setupFile = disk.code
    /\ \A key \in disk.passkeys : key.rp = disk.rp

StageInv ==
    \A r \in Requests :
        /\ rq[r].at = "unlink" => Claimed(disk)
        /\ rq[r].at = "set" => rq[r].pass # None

AuthInv == FileInv /\ StageInv

LEMMA AuthInit == Init => AuthInv
  BY NoneFacts DEF Init, AuthInv, FileInv, StageInv, Blank, Claimed, Idle

\* While the process runs, memory and file agree on what claims the installation.
LEMMA ClaimedAlike ==
  ASSUME FileInv, phase # "down"
  PROVE  Claimed(state) <=> Claimed(disk)
  BY DEF FileInv, Claimed

\* A step that saves a claimed state keeps FileInv: no setup code is left in it,
\* and each of its passkeys is of this process's relying party.
LEMMA SaveFile ==
  ASSUME FileInv, phase = "up", NEW next, Save(next), Claimed(next), next.code = 0,
         next.rp = rp, \A key \in next.passkeys : key.rp = rp, UNCHANGED <<phase, rp>>
  PROVE  FileInv' /\ Claimed(disk')
  BY DEF FileInv, Save, Claimed

\* A step that touches neither the file nor the start keeps FileInv.
LEMMA OtherFile ==
  ASSUME FileInv, UNCHANGED <<disk, state, setupFile, phase, rp, codes>>
  PROVE  FileInv' /\ (Claimed(disk) => Claimed(disk'))
  BY DEF FileInv, Claimed

\* While the setup-code file is being removed the installation is claimed.
LEMMA UnlinkFile ==
  ASSUME FileInv, Claimed(disk), phase = "up", UNCHANGED <<disk, state, phase, rp, codes>>
  PROVE  FileInv' /\ (Claimed(disk) => Claimed(disk'))
  BY DEF FileInv, Claimed

\* One request moves to a stage StageInv allows, and no claim is lost.
LEMMA MoveStage ==
  ASSUME TypeOK, StageInv, NEW r \in Requests, NEW record, rq' = [rq EXCEPT ![r] = record],
         Claimed(disk) => Claimed(disk'),
         record.at = "unlink" => Claimed(disk'), record.at = "set" => record.pass # None
  PROVE  StageInv'
  BY DEF TypeOK, StageInv

LEMMA DoneStage ==
  ASSUME TypeOK, StageInv, NEW r \in Requests, Done(r), Claimed(disk) => Claimed(disk')
  PROVE  StageInv'
  BY MoveStage DEF Done, Idle

LEMMA GotoStage ==
  ASSUME TypeOK, StageInv, NEW r \in Requests, NEW stage \in Stages \ {"unlink", "set"},
         Goto(r, stage), Claimed(disk) => Claimed(disk')
  PROVE  StageInv'
<1>1. [rq[r] EXCEPT !.at = stage].at = stage
  BY DEF TypeOK, Request
<1> QED
  BY <1>1, MoveStage DEF Goto

LEMMA BootInv ==
  ASSUME TypeOK, AuthInv, Boot
  PROVE  AuthInv' /\ (Claimed(disk) => Claimed(disk'))
<1> USE NoneFacts
<1>1. ASSUME NEW party \in RelyingParties, Open(party)
      PROVE  AuthInv' /\ (Claimed(disk) => Claimed(disk'))
  <2>1. /\ state'.rp = party /\ state'.code = disk.code
        /\ state'.password = disk.password /\ state'.passkeys = disk.passkeys
    BY <1>1 DEF Open, TypeOK, State
  <2> QED
    BY <1>1, <2>1 DEF Open, AuthInv, FileInv, StageInv, Claimed
<1>2. CASE OpenClaimed
  <2>1. state.code = 0
    BY <1>2, ClaimedAlike DEF OpenClaimed, AuthInv, FileInv
  <2>2. state' = state /\ disk' = disk
    BY <1>2, <2>1 DEF OpenClaimed, TypeOK, State
  <2>3. Claimed(disk)
    BY <1>2, ClaimedAlike DEF OpenClaimed, AuthInv
  <2> QED
    BY <1>2, <2>2, <2>3 DEF OpenClaimed, AuthInv, FileInv, StageInv, Claimed
<1>3. CASE OpenUnclaimed
  <2>1. ~ Claimed(disk)
    BY <1>3, ClaimedAlike DEF OpenUnclaimed, AuthInv
  <2>2. /\ disk'.code = disk.code /\ disk'.password = disk.password
        /\ disk'.passkeys = disk.passkeys
    BY <1>3 DEF OpenUnclaimed, AuthInv, FileInv
  <2>3. FileInv'
    BY <1>3, <2>1, <2>2 DEF OpenUnclaimed, AuthInv, FileInv, Claimed
  <2> QED
    BY <1>3, <2>1, <2>2, <2>3 DEF OpenUnclaimed, AuthInv, StageInv, Claimed
<1>4. CASE WriteSetupFile
  <2>1. codes' # 0
    BY <1>4 DEF WriteSetupFile, TypeOK
  <2> QED
    BY <1>4, <2>1 DEF WriteSetupFile, AuthInv, FileInv, StageInv, Claimed
<1>5. CASE SaveSetupHash
  <2>1. /\ state'.rp = state.rp /\ state'.code = codes
        /\ state'.password = state.password /\ state'.passkeys = state.passkeys
    BY <1>5 DEF SaveSetupHash, TypeOK, State
  <2>2. ~ Claimed(disk) /\ ~ Claimed(disk')
    BY <1>5, <2>1 DEF SaveSetupHash, AuthInv, FileInv, Claimed
  <2> QED
    BY <1>5, <2>1, <2>2 DEF SaveSetupHash, AuthInv, FileInv, StageInv, Claimed
<1>6. CASE Crash
  <2>1. state'.code = 0
    BY <1>6 DEF Crash, Blank
  <2>2. StageInv'
    BY <1>6 DEF Crash, StageInv, Idle
  <2> QED
    BY <1>6, <2>1, <2>2 DEF Crash, AuthInv, FileInv, Claimed
<1>7. CASE LoseSetupFile
  BY <1>7 DEF LoseSetupFile, AuthInv, FileInv, StageInv, Claimed, bootVars
<1> QED
  BY <1>1, <1>2, <1>3, <1>4, <1>5, <1>6, <1>7 DEF Boot

LEMMA ServeInv ==
  ASSUME TypeOK, AuthInv, NEW r \in Requests, Serve(r)
  PROVE  AuthInv' /\ (Claimed(disk) => Claimed(disk'))
<1> USE NoneFacts
<1> DEFINE Goal == AuthInv' /\ (Claimed(disk) => Claimed(disk'))
\* Facts about the state a request finds in memory.
<1>0. phase = "up" => /\ state.rp = rp
                      /\ Claimed(state) => state.code = 0
                      /\ \A key \in state.passkeys : key.rp = rp
  BY DEF AuthInv, FileInv, Claimed
<1>1. CASE \/ \E s \in Sessions : Authenticated(r, s)
           \/ CreateSession(r) \/ GiveUp(r) \/ BeginLogin(r) \/ BeginRegistration(r)
           \/ EnterTable(r) \/ PurgeSessions(r) \/ BumpPasswordEpoch(r)
           \/ \E code \in 1..codes : BeginSetup(r, code)
  <2>1. UNCHANGED <<disk, state, setupFile, phase, rp, codes>>
    BY <1>1 DEF Authenticated, CreateSession, GiveUp, BeginLogin, BeginRegistration, EnterTable,
                PurgeSessions, BumpPasswordEpoch, BeginSetup, storeVars, bootVars
  <2>2. \/ Done(r) \/ UNCHANGED rq
        \/ \E stage \in Stages \ {"unlink", "set"} : Goto(r, stage)
    BY <1>1 DEF Authenticated, CreateSession, GiveUp, BeginLogin, BeginRegistration, EnterTable,
                PurgeSessions, BumpPasswordEpoch, BeginSetup, Stages
  <2>3. FileInv' /\ (Claimed(disk) => Claimed(disk'))
    BY <2>1, OtherFile DEF AuthInv
  <2>4. CASE UNCHANGED rq
    BY <2>1, <2>3, <2>4 DEF AuthInv, StageInv, Claimed
  <2> QED
    BY <2>2, <2>3, <2>4, DoneStage, GotoStage DEF AuthInv
<1>2. CASE RemoveSetupFile(r)
  <2>1. /\ Claimed(disk) /\ phase = "up" /\ UNCHANGED <<disk, state, phase, rp, codes>>
        /\ (Goto(r, "verify") \/ Goto(r, "session"))
    BY <1>2 DEF RemoveSetupFile, At, AuthInv, StageInv, bootVars
  <2>2. FileInv' /\ (Claimed(disk) => Claimed(disk'))
    BY <2>1, UnlinkFile DEF AuthInv
  <2> QED
    BY <2>1, <2>2, GotoStage DEF AuthInv, Stages
<1>3. ASSUME NEW pass \in Passwords, NEW code \in 1..codes, CompletePasswordSetup(r, code, pass)
      PROVE  Goal
  <2> DEFINE next == [state EXCEPT !.password = pass, !.code = 0]
  <2>1. /\ next.password = pass /\ next.code = 0 /\ next.rp = state.rp
        /\ next.passkeys = state.passkeys
    BY DEF TypeOK, State
  <2>2. Save(next) /\ phase = "up" /\ UNCHANGED <<phase, rp>>
    BY <1>3 DEF CompletePasswordSetup, At, bootVars
  <2>3. Claimed(next)
    BY <2>1 DEF Claimed
  <2>4. [Idle EXCEPT !.at = "unlink", !.pass = pass].at = "unlink"
    BY DEF Idle
  <2> HIDE DEF next
  <2>5. FileInv' /\ Claimed(disk')
    BY <1>0, <2>1, <2>2, <2>3, SaveFile DEF AuthInv
  <2> QED
    BY <1>3, <2>4, <2>5, MoveStage DEF CompletePasswordSetup, AuthInv
<1>4. CASE \/ \E pass \in Passwords : VerifyPassword(r, pass)
           \/ \E id \in 1..keys : UserByCredential(r, id)
           \/ \E c \in Ceremonies : TakeLogin(r, c) \/ TakeRegistration(r, c)
           \/ \E current \in Passwords \cup {None}, pass \in Passwords :
                 CheckCurrent(r, current, pass)
           \/ \E current \in Passwords : CheckClear(r, current)
  <2>1. UNCHANGED <<disk, state, setupFile, phase, rp, codes>>
    BY <1>4 DEF VerifyPassword, UserByCredential, TakeLogin, TakeRegistration, CheckCurrent, CheckClear,
                storeVars, bootVars
  <2> DEFINE Harmless(record) == record.at # "unlink" /\ (record.at = "set" => record.pass # None)
  <2> DEFINE Moves == \E record : rq' = [rq EXCEPT ![r] = record] /\ Harmless(record)
  <2>2. Moves
    <3>1. ASSUME NEW pass \in Passwords, VerifyPassword(r, pass) PROVE Moves
      <4>1. Harmless([Idle EXCEPT !.at = "session", !.pass = pass])
        BY DEF Idle
      <4> QED
        BY <3>1, <4>1 DEF VerifyPassword
    <3>2. ASSUME NEW c \in Ceremonies, TakeLogin(r, c) PROVE Moves
      <4>1. Harmless([Idle EXCEPT !.at = "assert", !.cer = c])
        BY DEF Idle
      <4> QED
        BY <3>2, <4>1 DEF TakeLogin
    <3>3. ASSUME NEW c \in Ceremonies, TakeRegistration(r, c) PROVE Moves
      <4>1. /\ Harmless(Idle)
            /\ Harmless([Idle EXCEPT !.cer = c, !.at = "attestSetup"])
            /\ Harmless([Idle EXCEPT !.cer = c, !.at = "attestAdditional"])
        BY DEF Idle
      <4> HIDE DEF Harmless
      <4> QED
        BY <3>3, <4>1 DEF TakeRegistration
    <3>4. ASSUME NEW current \in Passwords \cup {None}, NEW pass \in Passwords,
                 CheckCurrent(r, current, pass)
          PROVE  Moves
      <4>1. Harmless([Idle EXCEPT !.at = "set", !.pass = pass])
        BY DEF Idle
      <4> QED
        BY <3>4, <4>1 DEF CheckCurrent
    <3>5. ASSUME NEW current \in Passwords, CheckClear(r, current) PROVE Moves
      <4>1. Harmless([Idle EXCEPT !.at = "clear"])
        BY DEF Idle
      <4> QED
        BY <3>5, <4>1 DEF CheckClear
    <3>6. ASSUME NEW id \in 1..keys, UserByCredential(r, id) PROVE Moves
      <4>1. Harmless([Idle EXCEPT !.at = "update", !.key = id])
        BY DEF Idle
      <4> QED
        BY <3>6, <4>1 DEF UserByCredential
    <3> HIDE DEF Moves
    <3> QED
      BY <1>4, <3>1, <3>2, <3>3, <3>4, <3>5, <3>6
  <2>3. FileInv' /\ (Claimed(disk) => Claimed(disk'))
    BY <2>1, OtherFile DEF AuthInv
  <2> QED
    BY <2>2, <2>3, MoveStage DEF AuthInv
<1>5. CASE UpdateCredential(r)
  <2>1. Save(state) /\ phase = "up" /\ Claimed(state) /\ UNCHANGED <<phase, rp>>
    BY <1>5 DEF UpdateCredential, At, bootVars, IdOf, Claimed
  <2>2. FileInv' /\ Claimed(disk')
    BY <1>0, <2>1, SaveFile DEF AuthInv
  <2> QED
    BY <1>5, <2>2, GotoStage DEF UpdateCredential, AuthInv, Stages
<1>6. CASE AddCredential(r)
  <2> DEFINE added == [state EXCEPT !.passkeys = @ \cup {[id |-> keys + 1, rp |-> rp]}]
  <2>1. /\ added.password = state.password /\ added.code = state.code /\ added.rp = state.rp
        /\ added.passkeys = state.passkeys \cup {[id |-> keys + 1, rp |-> rp]}
    BY DEF TypeOK, State
  <2>2. phase = "up" /\ UNCHANGED <<phase, rp>>
    BY <1>6 DEF AddCredential, StoreFree, bootVars
  <2>3. Claimed(added) /\ \A key \in added.passkeys : key.rp = rp
    <3>1. [id |-> keys + 1, rp |-> rp].rp = rp
      OBVIOUS
    <3> HIDE DEF added
    <3> QED
      BY <1>0, <2>1, <2>2, <3>1 DEF Claimed
  <2>4. CASE At(r, "attestSetup")
    <3> DEFINE next == [added EXCEPT !.code = 0]
    <3>1. /\ next.password = added.password /\ next.code = 0 /\ next.rp = added.rp
          /\ next.passkeys = added.passkeys
      BY DEF TypeOK, State
    <3>2. Save(next) /\ rq' = [rq EXCEPT ![r] = [Idle EXCEPT !.at = "unlink", !.key = keys + 1]]
      BY <1>6, <2>4 DEF AddCredential, At
    <3>3. Claimed(next)
      BY <2>3, <3>1 DEF Claimed
    <3> HIDE DEF next, added
    <3>4. FileInv' /\ Claimed(disk')
      BY <1>0, <2>1, <2>2, <2>3, <3>1, <3>2, <3>3, SaveFile DEF AuthInv
    <3>5. [Idle EXCEPT !.at = "unlink", !.key = keys + 1].at = "unlink"
      BY DEF Idle
    <3> QED
      BY <3>2, <3>4, <3>5, MoveStage DEF AuthInv
  <2>5. CASE At(r, "attestAdditional")
    <3>1. Save(added) /\ Done(r) /\ ~ (state.passkeys = {} /\ state.code # 0)
      BY <1>6, <2>5 DEF AddCredential, At
    <3>2. state.code = 0
      BY <1>0, <2>2, <3>1 DEF Claimed
    <3> HIDE DEF added
    <3>3. FileInv' /\ Claimed(disk')
      BY <1>0, <2>1, <2>2, <2>3, <3>1, <3>2, SaveFile DEF AuthInv
    <3> QED
      BY <3>1, <3>3, DoneStage DEF AuthInv
  <2> QED
    BY <1>6, <2>4, <2>5 DEF AddCredential
<1>7. ASSUME NEW key \in state.passkeys, DeletePasskey(r, key) PROVE Goal
  <2> DEFINE next == [state EXCEPT !.passkeys = @ \ {key}]
  <2>1. /\ next.password = state.password /\ next.code = state.code /\ next.rp = state.rp
        /\ next.passkeys = state.passkeys \ {key}
    BY DEF TypeOK, State
  <2>2. Save(next) /\ phase = "up" /\ UNCHANGED <<phase, rp>>
    BY <1>7 DEF DeletePasskey, At, bootVars
  <2>3. Claimed(next) /\ Claimed(state)
    BY <1>7, <2>1 DEF DeletePasskey, Claimed
  <2>4. [Idle EXCEPT !.at = "purge", !.key = key.id].at = "purge"
    BY DEF Idle
  <2> HIDE DEF next
  <2>5. FileInv' /\ Claimed(disk')
    BY <1>0, <2>1, <2>2, <2>3, SaveFile DEF AuthInv
  <2> QED
    BY <1>7, <2>4, <2>5, MoveStage DEF DeletePasskey, AuthInv
<1>8. CASE SetPassword(r)
  <2> DEFINE next == [state EXCEPT !.password = rq[r].pass]
  <2>1. /\ next.password = rq[r].pass /\ next.code = state.code /\ next.rp = state.rp
        /\ next.passkeys = state.passkeys
    BY DEF TypeOK, State
  <2>2. Save(next) /\ phase = "up" /\ UNCHANGED <<phase, rp>> /\ Claimed(state)
    BY <1>8 DEF SetPassword, At, bootVars
  <2>3. Claimed(next)
    BY <1>8, <2>1 DEF SetPassword, At, AuthInv, StageInv, Claimed
  <2> HIDE DEF next
  <2>4. FileInv' /\ Claimed(disk')
    BY <1>0, <2>1, <2>2, <2>3, SaveFile DEF AuthInv
  <2> QED
    BY <1>8, <2>4, GotoStage DEF SetPassword, AuthInv, Stages
<1>9. CASE DeletePassword(r)
  <2> DEFINE next == [state EXCEPT !.password = None]
  <2>1. /\ next.code = state.code /\ next.rp = state.rp /\ next.passkeys = state.passkeys
    BY DEF TypeOK, State
  <2>2. Save(next) /\ phase = "up" /\ UNCHANGED <<phase, rp>> /\ Claimed(state)
    BY <1>9 DEF DeletePassword, At, bootVars, Claimed
  <2>3. Claimed(next)
    BY <1>9, <2>1 DEF DeletePassword, Claimed
  <2> HIDE DEF next
  <2>4. FileInv' /\ Claimed(disk')
    BY <1>0, <2>1, <2>2, <2>3, SaveFile DEF AuthInv
  <2> QED
    BY <1>9, <2>4, GotoStage DEF DeletePassword, AuthInv, Stages
<1> QED
  BY <1>1, <1>2, <1>3, <1>4, <1>5, <1>6, <1>7, <1>8, <1>9 DEF Serve

LEMMA AuthNext == TypeOK /\ AuthInv /\ [Next]_vars => AuthInv' /\ (Claimed(disk) => Claimed(disk'))
<1> SUFFICES ASSUME TypeOK, AuthInv, [Next]_vars
             PROVE  AuthInv' /\ (Claimed(disk) => Claimed(disk'))
  OBVIOUS
<1>1. CASE Forget \/ UNCHANGED vars
  <2>1. UNCHANGED <<disk, state, setupFile, phase, rp, codes, rq>>
    BY <1>1 DEF Forget, vars, storeVars, bootVars
  <2>2. FileInv' /\ (Claimed(disk) => Claimed(disk'))
    BY <2>1, OtherFile DEF AuthInv
  <2> QED
    BY <2>1, <2>2 DEF AuthInv, StageInv, Claimed
<1> QED
  BY <1>1, BootInv, ServeInv DEF Next

\* What the runs check follows from AuthInv.
LEMMA AuthConsequences ==
  ASSUME TypeOK, AuthInv
  PROVE  /\ CodeDiesWithClaim /\ SetupCodeWorks /\ MemoryIsDisk /\ KeysFitRelyingParty
<1>1. CodeDiesWithClaim
  BY DEF CodeDiesWithClaim, AuthInv, FileInv, Claimed
<1>2. SetupCodeWorks
  BY DEF SetupCodeWorks, AuthInv, FileInv, Claimed
<1>3. ASSUME phase = "up" PROVE [state EXCEPT !.rp = disk.rp] = disk
  BY <1>3 DEF AuthInv, FileInv, TypeOK, State
<1> QED
  BY <1>1, <1>2, <1>3 DEF MemoryIsDisk, KeysFitRelyingParty, AuthInv, FileInv

\* A claimed installation keeps a sign-in method, whatever its administrators
\* remove concurrently and wherever the process dies.
THEOREM MethodAlwaysRemains == Spec => MethodRemains
<1>1. TypeOK /\ AuthInv /\ [Next]_vars => [Claimed(disk) => Claimed(disk')]_vars
  BY AuthNext
<1> QED
  BY <1>1, TypeInit, TypeNext, AuthInit, AuthNext, PTL DEF Spec, MethodRemains

\* Nothing holds the hash of a setup code once the installation is claimed.
THEOREM CodeAlwaysDies == Spec => []CodeDiesWithClaim
  BY TypeInit, TypeNext, AuthInit, AuthNext, AuthConsequences, PTL DEF Spec

\* An unclaimed installation that serves accepts the code of its setup-code file.
THEOREM SetupCodeAlwaysWorks == Spec => []SetupCodeWorks
  BY TypeInit, TypeNext, AuthInit, AuthNext, AuthConsequences, PTL DEF Spec

\* A restart finds the sign-in methods the process served with.
THEOREM MemoryAlwaysOnDisk == Spec => []MemoryIsDisk
  BY TypeInit, TypeNext, AuthInit, AuthNext, AuthConsequences, PTL DEF Spec

\* The passkeys of the file all work for the relying party it names.
THEOREM KeysAlwaysFit == Spec => []KeysFitRelyingParty
  BY TypeInit, TypeNext, AuthInit, AuthNext, AuthConsequences, PTL DEF Spec

\* No step brings a passkey back: the file gains at most the one made by the step.
LEMMA KeysGrow ==
  ASSUME TypeOK, AuthInv, [Next]_vars
  PROVE  disk'.passkeys \subseteq disk.passkeys \cup {[id |-> keys + 1, rp |-> rp]}
<1> DEFINE Goal == disk'.passkeys \subseteq disk.passkeys \cup {[id |-> keys + 1, rp |-> rp]}
<1>1. phase # "down" => state.passkeys = disk.passkeys
  BY DEF AuthInv, FileInv
<1>2. CASE UNCHANGED disk
  BY <1>2
<1>3. ASSUME NEW next, Save(next), phase = "up",
             next.passkeys \subseteq state.passkeys \cup {[id |-> keys + 1, rp |-> rp]}
      PROVE  Goal
  BY <1>1, <1>3 DEF Save
<1>4. CASE Boot
  <2>1. CASE OpenClaimed \/ OpenUnclaimed \/ SaveSetupHash
    <3>1. /\ phase # "down"
          /\ [state EXCEPT !.code = 0].passkeys = state.passkeys
          /\ [state EXCEPT !.code = codes].passkeys = state.passkeys
      BY <2>1 DEF OpenClaimed, OpenUnclaimed, SaveSetupHash, TypeOK, State
    <3> QED
      BY <1>1, <2>1, <3>1 DEF OpenClaimed, OpenUnclaimed, SaveSetupHash
  <2> QED
    BY <1>2, <1>4, <2>1 DEF Boot, Open, LoseSetupFile, WriteSetupFile, Crash
<1>5. ASSUME NEW r \in Requests, Serve(r) PROVE Goal
  <2> DEFINE added == [state EXCEPT !.passkeys = @ \cup {[id |-> keys + 1, rp |-> rp]}]
  <2>1. ASSUME NEW pass \in Passwords, NEW code \in 1..codes, CompletePasswordSetup(r, code, pass)
        PROVE  Goal
    <3>1. [state EXCEPT !.password = pass, !.code = 0].passkeys = state.passkeys
      BY DEF TypeOK, State
    <3> QED
      BY <1>3, <2>1, <3>1 DEF CompletePasswordSetup, At
  <2>2. CASE UpdateCredential(r)
    BY <1>3, <2>2 DEF UpdateCredential, At
  <2>3. CASE AddCredential(r)
    <3>1. /\ added.passkeys = state.passkeys \cup {[id |-> keys + 1, rp |-> rp]}
          /\ [added EXCEPT !.code = 0].passkeys = added.passkeys
      BY DEF TypeOK, State
    <3>2. Save(added) \/ Save([added EXCEPT !.code = 0])
      BY <2>3 DEF AddCredential
    <3>3. phase = "up"
      BY <2>3 DEF AddCredential, StoreFree
    <3> HIDE DEF added
    <3> QED
      BY <1>3, <3>1, <3>2, <3>3
  <2>4. ASSUME NEW key \in state.passkeys, DeletePasskey(r, key) PROVE Goal
    <3>1. [state EXCEPT !.passkeys = @ \ {key}].passkeys = state.passkeys \ {key}
      BY DEF TypeOK, State
    <3> QED
      BY <1>3, <2>4, <3>1 DEF DeletePasskey, At
  <2>5. CASE SetPassword(r) \/ DeletePassword(r)
    <3>1. /\ [state EXCEPT !.password = rq[r].pass].passkeys = state.passkeys
          /\ [state EXCEPT !.password = None].passkeys = state.passkeys
      BY DEF TypeOK, State
    <3> QED
      BY <1>3, <2>5, <3>1 DEF SetPassword, DeletePassword, At
  <2>6. CASE \/ \E s \in Sessions : Authenticated(r, s)
             \/ CreateSession(r) \/ RemoveSetupFile(r) \/ GiveUp(r)
             \/ \E pass \in Passwords : VerifyPassword(r, pass)
             \/ BeginLogin(r) \/ BeginRegistration(r) \/ EnterTable(r)
             \/ \E code \in 1..codes : BeginSetup(r, code)
             \/ \E c \in Ceremonies : TakeLogin(r, c) \/ TakeRegistration(r, c)
             \/ \E id \in 1..keys : UserByCredential(r, id)
             \/ PurgeSessions(r)
             \/ \E current \in Passwords \cup {None}, pass \in Passwords :
                   CheckCurrent(r, current, pass)
             \/ \E current \in Passwords : CheckClear(r, current)
             \/ BumpPasswordEpoch(r)
    BY <1>2, <2>6 DEF Authenticated, CreateSession, RemoveSetupFile, GiveUp, VerifyPassword,
         BeginLogin, BeginRegistration, EnterTable, BeginSetup, TakeLogin, TakeRegistration,
         UserByCredential, PurgeSessions, CheckCurrent, CheckClear, BumpPasswordEpoch, storeVars
  <2> HIDE DEF Goal
  <2> QED
    BY <1>5, <2>1, <2>2, <2>3, <2>4, <2>5, <2>6 DEF Serve
<1> QED
  BY <1>2, <1>4, <1>5 DEF Next, Forget, storeVars, vars

\* RemovedStaysOut: for all requests, sessions and ceremonies, a removed passkey never
\* comes back, nor is a session of it let in, whatever was under way with it.
THEOREM RemovedAlwaysStaysOut == Spec => RemovedStaysOut
<1> DEFINE Out ==
      \A id \in 1..keys : id \notin IdOf(disk) =>
         /\ id \notin IdOf(disk')
         /\ phase' = "up" => \A s \in Sessions : sessions'[s].key = id => ~ Honoured(s)'
<1>1. TypeOK /\ AuthInv /\ [Next]_vars /\ AuthInv' => Out
  <2> SUFFICES ASSUME TypeOK, AuthInv, [Next]_vars, AuthInv',
                      NEW id \in 1..keys, id \notin IdOf(disk)
               PROVE  /\ id \notin IdOf(disk')
                      /\ phase' = "up" =>
                           \A s \in Sessions : sessions'[s].key = id => ~ Honoured(s)'
    OBVIOUS
  <2>1. id # keys + 1 /\ id # 0
    BY DEF TypeOK
  <2>2. id \notin IdOf(disk')
    <3>1. [id |-> keys + 1, rp |-> rp].id = keys + 1
      OBVIOUS
    <3> QED
      BY <2>1, <3>1, KeysGrow DEF IdOf
  <2>3. ASSUME phase' = "up", NEW s \in Sessions, sessions'[s].key = id PROVE ~ Honoured(s)'
    <3>1. IdOf(state') = IdOf(disk')
      BY <2>3 DEF AuthInv, FileInv, IdOf
    <3> QED
      BY <2>1, <2>2, <2>3, <3>1 DEF Honoured
  <2> QED
    BY <2>2, <2>3
<1>2. TypeOK /\ AuthInv /\ [Next]_vars => [Out]_vars
  BY <1>1, AuthNext
<1> QED
  BY <1>2, TypeInit, TypeNext, AuthInit, AuthNext, PTL DEF Spec, RemovedStaysOut

-------------------------------------------------------------------------------
(* Ceremonies: a token is in one place, a table or the request that took it. *)

TableInv ==
    /\ logins \cap (registrations.setup \cup registrations.additional) = {}
    /\ registrations.setup \cap registrations.additional = {}
    /\ CeremonyUsedOnce

LEMMA TableInit == Init => TableInv
  BY DEF Init, TableInv, CeremonyUsedOnce, NoRegistrations, Idle

\* Requests that keep or drop their ceremony, and tables that only lose theirs.
LEMMA TableShrinks ==
  ASSUME TableInv, \A q \in Requests : rq'[q].cer \in {rq[q].cer, None},
         logins' \subseteq logins,
         registrations'.setup \subseteq registrations.setup,
         registrations'.additional \subseteq registrations.additional
  PROVE  TableInv'
  BY DEF TableInv, CeremonyUsedOnce

\* A step of request r that takes no ceremony keeps the one it has, or drops it.
LEMMA KeepsOrDrops ==
  ASSUME TypeOK, NEW r \in Requests, NEW record,
         rq' = [rq EXCEPT ![r] = record], record.cer \in {rq[r].cer, None}
  PROVE  \A q \in Requests : rq'[q].cer \in {rq[q].cer, None}
  BY DEF TypeOK

LEMMA GotoKeeps ==
  ASSUME TypeOK, NEW r \in Requests, NEW stage, Goto(r, stage)
  PROVE  \A q \in Requests : rq'[q].cer \in {rq[q].cer, None}
<1>1. [rq[r] EXCEPT !.at = stage].cer = rq[r].cer
  BY DEF TypeOK, Request
<1> QED
  BY <1>1, KeepsOrDrops DEF Goto

LEMMA DoneDrops ==
  ASSUME TypeOK, NEW r \in Requests, Done(r)
  PROVE  \A q \in Requests : rq'[q].cer \in {rq[q].cer, None}
  BY KeepsOrDrops DEF Done, Idle

\* A request takes a ceremony out of its table.
LEMMA Takes ==
  ASSUME TypeOK, TableInv, NEW r \in Requests, NEW c \in Ceremonies, NEW record,
         rq' = [rq EXCEPT ![r] = record], record.cer \in {c, None},
         c \in logins \cup registrations.setup \cup registrations.additional,
         logins' = logins \ {c}, registrations'.setup = registrations.setup \ {c},
         registrations'.additional = registrations.additional \ {c}
  PROVE  TableInv'
<1>1. \A q \in Requests : rq[q].cer # c
  BY NoneFacts DEF TableInv, CeremonyUsedOnce
<1>2. \A q \in Requests : rq'[q].cer = IF q = r THEN record.cer ELSE rq[q].cer
  BY DEF TypeOK
<1>3. CeremonyUsedOnce'
  BY <1>1, <1>2 DEF TableInv, CeremonyUsedOnce
<1> QED
  BY <1>3 DEF TableInv

LEMMA TableServe ==
  ASSUME TypeOK, TableInv, NEW r \in Requests, Serve(r)
  PROVE  TableInv'
<1> DEFINE Loses == \A q \in Requests : rq'[q].cer \in {rq[q].cer, None}
<1>1. CASE EnterTable(r)
  <2>1. Loses
    BY <1>1, DoneDrops DEF EnterTable
  <2>2. PICK c \in Fresh :
           \/ /\ logins' \subseteq logins \cup {c}
              /\ UNCHANGED registrations
           \/ /\ registrations'.setup \subseteq registrations.setup \cup {c}
              /\ registrations'.additional \subseteq registrations.additional
              /\ UNCHANGED logins
           \/ /\ registrations'.setup \subseteq registrations.setup
              /\ registrations'.additional \subseteq registrations.additional \cup {c}
              /\ UNCHANGED logins
    <3>1. CASE At(r, "loginTable") /\ UNCHANGED registrations
      BY <1>1, <3>1 DEF EnterTable, Room, At
    <3>2. CASE UNCHANGED logins
      BY <1>1, <3>2 DEF EnterTable, At, TypeOK
    <3> QED
      BY <1>1, <3>1, <3>2 DEF EnterTable
  <2>3. /\ c \notin logins \cup registrations.setup \cup registrations.additional
        /\ \A q \in Requests : rq[q].cer # c
    BY <2>2 DEF Fresh
  <2>4. CeremonyUsedOnce'
    BY <2>1, <2>2, <2>3 DEF TableInv, CeremonyUsedOnce
  <2> QED
    BY <2>2, <2>3, <2>4 DEF TableInv
<1>2. ASSUME NEW c \in Ceremonies, TakeLogin(r, c) PROVE TableInv'
  <2>1. [Idle EXCEPT !.at = "assert", !.cer = c].cer = c
    BY DEF Idle
  <2>2. /\ c \in logins /\ logins' = logins \ {c} /\ registrations' = registrations
        /\ rq' = [rq EXCEPT ![r] = [Idle EXCEPT !.at = "assert", !.cer = c]]
    BY <1>2 DEF TakeLogin
  <2>3. c \notin registrations.setup \cup registrations.additional
    BY <2>2 DEF TableInv
  <2> QED
    BY <2>1, <2>2, <2>3, Takes
<1>3. ASSUME NEW c \in Ceremonies, TakeRegistration(r, c) PROVE TableInv'
  <2>1. /\ Idle.cer = None
        /\ [Idle EXCEPT !.cer = c, !.at = "attestSetup"].cer = c
        /\ [Idle EXCEPT !.cer = c, !.at = "attestAdditional"].cer = c
    BY DEF Idle
  <2>2. PICK kind \in {"setup", "additional"} :
           /\ c \in registrations[kind]
           /\ registrations' = [registrations EXCEPT ![kind] = @ \ {c}]
    BY <1>3 DEF TakeRegistration
  <2>3. /\ c \in registrations.setup \cup registrations.additional
        /\ c \notin logins /\ logins' = logins \ {c}
        /\ registrations'.setup = registrations.setup \ {c}
        /\ registrations'.additional = registrations.additional \ {c}
    BY <1>3, <2>2 DEF TakeRegistration, TableInv, TypeOK
  <2>4. \E record : rq' = [rq EXCEPT ![r] = record] /\ record.cer \in {c, None}
    BY <1>3, <2>1 DEF TakeRegistration
  <2> QED
    BY <2>3, <2>4, Takes
<1>4. CASE UNCHANGED tableVars /\ Loses
  BY <1>4, TableShrinks DEF tableVars
<1>5. CASE \/ \E s \in Sessions : Authenticated(r, s)
           \/ RemoveSetupFile(r) \/ BeginLogin(r) \/ BeginRegistration(r)
           \/ \E code \in 1..codes : BeginSetup(r, code)
           \/ UpdateCredential(r) \/ SetPassword(r) \/ DeletePassword(r)
           \/ CreateSession(r) \/ GiveUp(r) \/ PurgeSessions(r) \/ BumpPasswordEpoch(r)
  <2>1. UNCHANGED tableVars
    BY <1>5 DEF Authenticated, RemoveSetupFile, BeginLogin, BeginRegistration, BeginSetup,
                UpdateCredential, SetPassword, DeletePassword, CreateSession, GiveUp, PurgeSessions,
                BumpPasswordEpoch, managerVars, tableVars
  <2>2. Done(r) \/ UNCHANGED rq \/ \E stage : Goto(r, stage)
    BY <1>5 DEF Authenticated, RemoveSetupFile, BeginLogin, BeginRegistration, BeginSetup,
                UpdateCredential, SetPassword, DeletePassword, CreateSession, GiveUp, PurgeSessions,
                BumpPasswordEpoch
  <2>3. Loses
    BY <2>2, DoneDrops, GotoKeeps
  <2> QED
    BY <1>4, <2>1, <2>3
<1>6. CASE \/ \E pass \in Passwords, code \in 1..codes : CompletePasswordSetup(r, code, pass)
           \/ \E pass \in Passwords : VerifyPassword(r, pass)
           \/ \E id \in 1..keys : UserByCredential(r, id)
           \/ AddCredential(r)
           \/ \E key \in state.passkeys : DeletePasskey(r, key)
           \/ \E current \in Passwords \cup {None}, pass \in Passwords :
                 CheckCurrent(r, current, pass)
           \/ \E current \in Passwords : CheckClear(r, current)
  <2>1. UNCHANGED tableVars
    BY <1>6 DEF CompletePasswordSetup, VerifyPassword, UserByCredential, AddCredential,
                DeletePasskey, CheckCurrent, CheckClear, managerVars, tableVars
  <2> DEFINE Restarts == \E record : rq' = [rq EXCEPT ![r] = record] /\ record.cer = None
  <2>2. ASSUME NEW stage, NEW id, NEW pass
        PROVE  /\ [Idle EXCEPT !.at = stage, !.pass = pass].cer = None
               /\ [Idle EXCEPT !.at = stage, !.key = id].cer = None
               /\ [Idle EXCEPT !.at = stage].cer = None
    BY DEF Idle
  <2>3. Restarts \/ Done(r)
    <3>1. ASSUME NEW pass \in Passwords, NEW code \in 1..codes,
                 CompletePasswordSetup(r, code, pass)
          PROVE  Restarts
      BY <2>2, <3>1 DEF CompletePasswordSetup
    <3>2. ASSUME NEW pass \in Passwords, VerifyPassword(r, pass) PROVE Restarts
      <4>1. [Idle EXCEPT !.at = "session", !.pass = pass].cer = None
        BY <2>2
      <4> QED
        BY <3>2, <4>1 DEF VerifyPassword
    <3>3. ASSUME NEW id \in 1..keys, UserByCredential(r, id) PROVE Restarts
      <4>1. [Idle EXCEPT !.at = "update", !.key = id].cer = None
        BY <2>2
      <4> QED
        BY <3>3, <4>1 DEF UserByCredential
    <3>4. ASSUME AddCredential(r) PROVE Restarts \/ Done(r)
      <4>1. [Idle EXCEPT !.at = "unlink", !.key = keys + 1].cer = None
        BY <2>2
      <4> QED
        BY <3>4, <4>1 DEF AddCredential
    <3>5. ASSUME NEW key \in state.passkeys, DeletePasskey(r, key) PROVE Restarts
      <4>1. [Idle EXCEPT !.at = "purge", !.key = key.id].cer = None
        BY <2>2
      <4> QED
        BY <3>5, <4>1 DEF DeletePasskey
    <3>6. ASSUME NEW current \in Passwords \cup {None}, NEW pass \in Passwords,
                 CheckCurrent(r, current, pass)
          PROVE  Restarts
      <4>1. [Idle EXCEPT !.at = "set", !.pass = pass].cer = None
        BY <2>2
      <4> QED
        BY <3>6, <4>1 DEF CheckCurrent
    <3>7. ASSUME NEW current \in Passwords, CheckClear(r, current) PROVE Restarts
      <4>1. [Idle EXCEPT !.at = "clear"].cer = None
        BY <2>2
      <4> QED
        BY <3>7, <4>1 DEF CheckClear
    <3> HIDE DEF Restarts
    <3> QED
      BY <1>6, <3>1, <3>2, <3>3, <3>4, <3>5, <3>6, <3>7
  <2>4. Loses
    BY <2>3, DoneDrops, KeepsOrDrops
  <2> QED
    BY <1>4, <2>1, <2>4
<1> HIDE DEF Loses
<1> QED
  BY <1>1, <1>2, <1>3, <1>5, <1>6 DEF Serve

LEMMA TableNext == TypeOK /\ TableInv /\ [Next]_vars => TableInv'
<1> SUFFICES ASSUME TypeOK, TableInv, [Next]_vars PROVE TableInv'
  OBVIOUS
<1>1. CASE Forget
  <2>1. /\ logins' \subseteq logins /\ rq' = rq
        /\ registrations'.setup \subseteq registrations.setup
        /\ registrations'.additional \subseteq registrations.additional
    BY <1>1 DEF Forget, TypeOK, tableVars
  <2> QED
    BY <2>1, TableShrinks
<1>2. CASE Crash
  BY <1>2, TableShrinks DEF Crash, NoRegistrations, Idle
<1>3. CASE \/ \E party \in RelyingParties : Open(party)
           \/ OpenClaimed \/ OpenUnclaimed \/ WriteSetupFile \/ SaveSetupHash
           \/ LoseSetupFile \/ UNCHANGED vars
  <2>1. UNCHANGED <<logins, registrations, rq>>
    BY <1>3 DEF Open, OpenClaimed, OpenUnclaimed, WriteSetupFile, SaveSetupHash, LoseSetupFile, vars,
                managerVars
  <2> QED
    BY <2>1, TableShrinks
<1> QED
  BY <1>1, <1>2, <1>3, TableServe DEF Next, Boot

\* No ceremony is answered by two requests, nor again after the first answer.
THEOREM CeremonyAlwaysUsedOnce == Spec => []CeremonyUsedOnce
<1>1. TableInv => CeremonyUsedOnce
  BY DEF TableInv
<1> QED
  BY <1>1, TypeInit, TypeNext, TableInit, TableNext, PTL DEF Spec
===============================================================================

----------------------------- MODULE AccessControl -----------------------------
(***************************************************************************)
(* internal/server/server.go, lookup to sendFile: visitors open the links  *)
(* of a transcript while administrators renew it, change its visibility or *)
(* delete it. A request reads the record once, under the registry's lock;  *)
(* what it decides from it, and the file it opens, come later.             *)
(*                                                                         *)
(* A visit is a request for the page, or for a file of the bundle (media   *)
(* or download), and the request that follows it when a link that carries  *)
(* the key is exchanged for a cookie. The visits of one browser share its  *)
(* cookie, which it has as soon as the answer is decided.                  *)
(***************************************************************************)
EXTENDS Integers

CONSTANTS Tabs,         \* of one browser: each has a visit in progress, or none
          Days,         \* ExpiryDays
          Grace,        \* the shortest life of a cookie (60 seconds)
          MaxMoments,   \* bound: on the clock
          MaxChanges,   \* bound: administrators' changes
          Absent        \* no record, no cookie

ASSUME AccessAssumption ==
    /\ Days \in Nat /\ Grace \in Nat
    /\ MaxMoments \in Nat /\ MaxChanges \in Nat

Moments == 0..MaxMoments
Deadlines == 0..(MaxMoments + Days + Grace)

\* An access key is the number of the change that drew it. 0: none.
AccessKeys == 0..MaxChanges

Transcript == [public : BOOLEAN, key : AccessKeys, expires : Deadlines]

Cookie == [key : AccessKeys, until : Deadlines]

ASSUME AbsentAssumption == Absent \notin Transcript /\ Absent \notin Cookie

Files == {"page", "asset"}

\* What a visit asks for and presents, how far it is, and what it has read. History: at
\* some moment of it the transcript was open to it; at some moment it was not; something
\* was changed during it, or during a visit that it overlaps.
Visit == [at : {"asked", "read", "redirected", "allowed"},
          file : Files, link : AccessKeys, cookie : AccessKeys, followed : BOOLEAN,
          read : Transcript \cup {Absent},
          granted : BOOLEAN, denied : BOOLEAN, disturbed : BOOLEAN]

\* No visit yet, or how the last one ended.
Ended(answer) == [at |-> answer]

VARIABLES
    moment,    \* time.Now
    record,    \* the transcript in the registry, or Absent
    bundle,    \* its files
    removing,  \* Remove holds Registry.mu
    changes,
    jar,       \* the browser's cookie for the transcript
    visit      \* visit[tab]

accessVars == <<moment, record, bundle, removing, changes, jar, visit>>

\* The first record may be private without a key, as the registry may hold one.
AccessInit ==
    /\ moment = 0
    /\ record \in [public : BOOLEAN, key : {0}, expires : {0}]
    /\ bundle = Files /\ removing = FALSE /\ changes = 0
    /\ jar = Absent
    /\ visit = [t \in Tabs |-> Ended("none")]

-------------------------------------------------------------------------------

Under(v) == v.at \in {"asked", "read", "redirected", "allowed"}

\* requireAccess, of the record r: for what the request presents.
MayRead(r, query, cookie) == r.public \/ (r.key # 0 /\ r.key \in {query, cookie})

HasExpired(r) == r.expires < moment

\* What the transcript is at this moment to a visit with this link and cookie.
OpenTo(v) ==
    /\ record # Absent /\ v.file \in bundle /\ ~HasExpired(record)
    /\ record.public \/ (record.key # 0 /\ record.key \in {v.link, v.cookie})

\* The visits, with what this moment adds to their histories.
Noted ==
    [t \in Tabs |->
        IF Under(visit[t])
        THEN [visit[t] EXCEPT !.granted = @ \/ OpenTo(visit[t]), !.denied = @ \/ ~OpenTo(visit[t])]
        ELSE visit[t]]

Disturbed == [t \in Tabs |-> IF Under(visit[t]) THEN [Noted[t] EXCEPT !.disturbed = TRUE]
                                                ELSE visit[t]]

Presented == IF jar = Absent \/ jar.until < moment THEN 0 ELSE jar.key

\* The visit goes on, or ends with an answer: the record it has read is not used again.
Moved(v, place) ==
    IF place \in {"served", "refused"} THEN Ended(place)
    ELSE [v EXCEPT !.at = place, !.read = Absent]

Turn(t, to) == visit' = [Noted EXCEPT ![t] = Moved(@, to)]

-------------------------------------------------------------------------------
(* A visit. *)

\* Any link that was ever answered to an administrator, or one without a key.
Ask(t, file, link) ==
    /\ ~Under(visit[t])
    /\ visit' = [Noted EXCEPT ![t] =
          [at |-> "asked", file |-> file, link |-> link, cookie |-> Presented,
           followed |-> FALSE, read |-> Absent, granted |-> FALSE, denied |-> FALSE,
           disturbed |-> \E u \in Tabs : Under(visit[u]) /\ visit[u].disturbed]]
    /\ UNCHANGED <<moment, record, bundle, removing, changes, jar>>

\* Registry.Get.
Get(t) ==
    /\ visit[t].at = "asked" /\ ~removing
    /\ \/ record = Absent /\ Turn(t, "refused")
       \/ record # Absent /\ visit' = [Noted EXCEPT ![t] = [@ EXCEPT !.at = "read", !.read = record]]
    /\ UNCHANGED <<moment, record, bundle, removing, changes, jar>>

\* The key in the address: a redirect has taken it away.
Query(t) == IF visit[t].followed THEN 0 ELSE visit[t].link

Allowed(t) == MayRead(visit[t].read, Query(t), visit[t].cookie)

FromQuery(t) ==
    LET r == visit[t].read IN ~r.public /\ r.key # 0 /\ r.key = Query(t)

Reject(t) ==
    /\ visit[t].at = "read" /\ ~Allowed(t)
    /\ Turn(t, "refused")
    /\ UNCHANGED <<moment, record, bundle, removing, changes, jar>>

Later(a, b) == IF a < b THEN b ELSE a

CookieOf(r) == [key |-> r.key, until |-> Later(r.expires, moment + Grace)]

\* (a plausible bug) A transcript is handed out though its link has expired.
AdmitExpired(t) ==
    /\ visit[t].at = "read" /\ Allowed(t)
    /\ Turn(t, IF FromQuery(t) /\ visit[t].file = "page" THEN "redirected" ELSE "allowed")
    /\ jar' = IF FromQuery(t) THEN CookieOf(visit[t].read) ELSE jar
    /\ UNCHANGED <<moment, record, bundle, removing, changes>>

\* The key in the address is exchanged for a cookie; the page is asked for once more.
Admit(t) ==
    /\ visit[t].at = "read" /\ Allowed(t)
    /\ Turn(t, IF FromQuery(t) /\ visit[t].file = "page" THEN "redirected"
               ELSE IF HasExpired(visit[t].read) THEN "refused" ELSE "allowed")
    /\ jar' = IF FromQuery(t) THEN CookieOf(visit[t].read) ELSE jar
    /\ UNCHANGED <<moment, record, bundle, removing, changes>>

\* The browser follows the redirect, with the cookie it has then.
Follow(t) ==
    /\ visit[t].at = "redirected"
    /\ visit' = [Noted EXCEPT ![t] = [@ EXCEPT !.at = "asked", !.followed = TRUE, !.cookie = Presented]]
    /\ UNCHANGED <<moment, record, bundle, removing, changes, jar>>

\* sendFile: an open file is served whole, whatever becomes of its name.
SendFile(t) ==
    /\ visit[t].at = "allowed"
    /\ Turn(t, IF visit[t].file \in bundle THEN "served" ELSE "refused")
    /\ UNCHANGED <<moment, record, bundle, removing, changes, jar>>

-------------------------------------------------------------------------------
(* Administrators. Readers wait while the registry appends, so that a change is *)
(* one step to them, but for the files of a transcript that is deleted.        *)

Change ==
    /\ record # Absent /\ ~removing /\ changes < MaxChanges
    /\ changes' = changes + 1
    /\ visit' = Disturbed

Renew ==
    /\ Change
    /\ record' = [record EXCEPT !.expires = moment + Days]
    /\ UNCHANGED <<moment, bundle, removing, jar>>

\* Going private draws a new key every time; going public drops it.
SetVisibility(public) ==
    /\ Change
    /\ record' = [record EXCEPT !.public = public, !.key = IF public THEN 0 ELSE changes + 1]
    /\ UNCHANGED <<moment, bundle, removing, jar>>

Remove ==
    /\ Change
    /\ removing' = TRUE
    /\ UNCHANGED <<moment, record, bundle, jar>>

RemoveFile(file) ==
    /\ removing /\ file \in bundle
    /\ bundle' = bundle \ {file} /\ visit' = Disturbed
    /\ UNCHANGED <<moment, record, removing, changes, jar>>

\* RemoveAll or the tombstone fails: the record stays, without some of its files.
RemoveFails ==
    /\ removing
    /\ removing' = FALSE /\ visit' = Noted
    /\ UNCHANGED <<moment, record, bundle, changes, jar>>

RemoveEnds ==
    /\ removing /\ bundle = {}
    /\ removing' = FALSE /\ record' = Absent /\ visit' = Disturbed
    /\ UNCHANGED <<moment, bundle, changes, jar>>

TimePasses ==
    /\ moment < MaxMoments
    /\ moment' = moment + 1 /\ visit' = Noted
    /\ UNCHANGED <<record, bundle, removing, changes, jar>>

-------------------------------------------------------------------------------

AccessNext ==
    \/ \E t \in Tabs :
          \/ \E file \in Files, link \in 0..changes : Ask(t, file, link)
          \/ Get(t) \/ Reject(t) \/ Admit(t) \/ Follow(t) \/ SendFile(t)
    \/ Renew \/ \E public \in BOOLEAN : SetVisibility(public)
    \/ Remove \/ \E file \in Files : RemoveFile(file) \/ RemoveFails \/ RemoveEnds
    \/ TimePasses

AccessSpec == AccessInit /\ [][AccessNext]_accessVars

AccessTypeOK ==
    /\ moment \in Moments /\ changes \in AccessKeys /\ removing \in BOOLEAN
    /\ record \in Transcript \cup {Absent} /\ bundle \subseteq Files
    /\ jar \in Cookie \cup {Absent}
    /\ visit \in [Tabs -> Visit \cup {Ended(a) : a \in {"none", "served", "refused"}}]

\* A visitor is answered as the transcript was at a moment of the visit (server.go:556).
\* What is served was there, its link had not expired, and it was public or had the key
\* that the visitor brought: a link that was withdrawn, or a transcript that was deleted,
\* before the visit began opens nothing. And who is refused was to be refused at a moment
\* of the visit, unless the transcript was changed meanwhile: the exchange of the key for
\* a cookie (README.md:77) keeps no one out whose link is good.
AnsweredAsOfAMoment ==
    [][ \A t \in Tabs : Under(visit[t]) =>
           /\ visit'[t].at = "served" => Noted[t].granted
           /\ visit'[t].at = "refused" => Noted[t].denied \/ Noted[t].disturbed ]_accessVars

===============================================================================

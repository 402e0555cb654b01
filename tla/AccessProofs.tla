----------------------------- MODULE AccessProofs -----------------------------
(***************************************************************************)
(* Visitors are answered as of a moment of their visit, for any number of  *)
(* tabs, changes and moments.                                              *)
(***************************************************************************)
EXTENDS MCAccess, AuthProofs, TLAPS

\* What an administrator does disturbs every visit under way, and every visit that begins
\* while one of these is: so that all visits under way are disturbed, or none is.
Uniform ==
    \A t, u \in Tabs :
        Under(visit[t]) /\ Under(visit[u]) => visit[t].disturbed = visit[u].disturbed

\* What a visit has read is the record still, unless it was disturbed.
ReadIsRecord(v) ==
    v.at = "read" => v.read \in Transcript /\ (v.disturbed = FALSE => v.read = record)

\* A visit that may get a file from here has been open at some moment: when it read.
GrantKnown(v) ==
    v.file \in bundle =>
        /\ v.at = "read" /\ ~HasExpired(v.read) /\ MayRead(v.read, v.link, v.cookie)
              => v.granted = TRUE
        /\ v.at = "allowed" => v.granted = TRUE

\* A visit that read what it may not read was closed at that moment.
DenialKnown(v) ==
    v.at = "read" /\ v.denied = FALSE => MayRead(v.read, v.link, v.cookie)

\* The key in the address is in the jar before the browser follows the redirect ...
KeyExchanged(v) ==
    v.at = "redirected" /\ v.disturbed = FALSE =>
        /\ record \in Transcript /\ record.key # 0
        /\ jar \in Cookie /\ jar.key = record.key /\ record.expires <= jar.until

\* ... which then presents it, unless both have expired.
CookieHeld(v) ==
    v.at \in {"asked", "read"} /\ v.followed = TRUE /\ v.disturbed = FALSE /\ v.denied = FALSE
        => record \in Transcript /\ record.key # 0 /\ v.cookie = record.key

Sound(v) ==
    ReadIsRecord(v) /\ GrantKnown(v) /\ DenialKnown(v) /\ KeyExchanged(v) /\ CookieHeld(v)

Inv == AccessTypeOK /\ Uniform /\ \A t \in Tabs : Under(visit[t]) => Sound(visit[t])

Answers == {Ended(a) : a \in {"none", "served", "refused"}}

-------------------------------------------------------------------------------
(* What a step adds to the visits under way. *)

LEMMA UnderIsVisit ==
    ASSUME AccessTypeOK, NEW t \in Tabs
    PROVE  /\ Under(visit[t]) => visit[t] \in Visit
           /\ ~Under(visit[t]) => visit[t] \in Answers
BY DEF AccessTypeOK, Under, Ended, Visit, Answers

LEMMA VisitIsUnder == ASSUME NEW v \in Visit PROVE Under(v)
BY DEF Visit, Under

LEMMA AnswerIsNot == ASSUME NEW v \in Answers PROVE ~Under(v)
BY DEF Answers, Ended, Under

\* w is v a step later.
Continues(v, w) ==
    /\ w.at = v.at /\ w.file = v.file /\ w.link = v.link /\ w.cookie = v.cookie
    /\ w.followed = v.followed /\ w.read = v.read
    /\ v.granted = TRUE => w.granted = TRUE
    /\ w.denied = FALSE => v.denied = FALSE
    /\ w.disturbed = FALSE => v.disturbed = FALSE

LEMMA NotedVisit ==
    ASSUME AccessTypeOK, NEW t \in Tabs
    PROVE  /\ Under(visit[t]) =>
                /\ Noted[t] \in Visit /\ Continues(visit[t], Noted[t])
                /\ Noted[t].disturbed = visit[t].disturbed
                /\ OpenTo(visit[t]) => Noted[t].granted = TRUE
                /\ ~OpenTo(visit[t]) => Noted[t].denied = TRUE
           /\ ~Under(visit[t]) => Noted[t] = visit[t]
<1>1. CASE Under(visit[t])
  <2> DEFINE v == visit[t]
             w == [v EXCEPT !.granted = v.granted \/ OpenTo(v), !.denied = v.denied \/ ~OpenTo(v)]
  <2>1. v \in Visit
    BY <1>1, UnderIsVisit
  <2>2. Noted[t] = w
    BY <1>1 DEF Noted
  <2>3. v.granted \in BOOLEAN /\ v.denied \in BOOLEAN /\ OpenTo(v) \in BOOLEAN
    BY <2>1 DEF Visit, OpenTo
  <2>4. w \in Visit
    BY <2>1, <2>3 DEF Visit
  <2>5. /\ w.at = v.at /\ w.file = v.file /\ w.link = v.link /\ w.cookie = v.cookie
        /\ w.followed = v.followed /\ w.read = v.read /\ w.disturbed = v.disturbed
        /\ w.granted = (v.granted \/ OpenTo(v)) /\ w.denied = (v.denied \/ ~OpenTo(v))
    BY <2>1 DEF Visit
  <2>6. Continues(v, w)
    BY <2>3, <2>5 DEF Continues
  <2> HIDE DEF w, v
  <2>7. (OpenTo(v) => w.granted = TRUE) /\ (~OpenTo(v) => w.denied = TRUE)
    BY <2>3, <2>5
  <2> QED
    BY <1>1, <2>2, <2>4, <2>5, <2>6, <2>7 DEF v
<1>2. CASE ~Under(visit[t])
  BY <1>2 DEF Noted
<1> QED
  BY <1>1, <1>2

LEMMA DisturbedVisit ==
    ASSUME AccessTypeOK, NEW t \in Tabs
    PROVE  /\ Under(visit[t]) =>
                /\ Disturbed[t] \in Visit /\ Continues(visit[t], Disturbed[t])
                /\ Disturbed[t].disturbed = TRUE
           /\ ~Under(visit[t]) => Disturbed[t] = visit[t]
<1>1. CASE Under(visit[t])
  <2> DEFINE w == [Noted[t] EXCEPT !.disturbed = TRUE]
  <2>1. Disturbed[t] = w
    BY <1>1 DEF Disturbed
  <2>2. Noted[t] \in Visit /\ Continues(visit[t], Noted[t])
    BY <1>1, NotedVisit
  <2>3. w \in Visit /\ w.disturbed = TRUE
    BY <2>2 DEF Visit
  <2>4. Continues(visit[t], w)
    BY <2>2 DEF Visit, Continues
  <2> QED
    BY <1>1, <2>1, <2>3, <2>4
<1>2. CASE ~Under(visit[t])
  BY <1>2 DEF Disturbed
<1> QED
  BY <1>1, <1>2

\* A visit that only goes on stays sound: the files become fewer, time passes, the record
\* stays unless the visit is disturbed, and so does the cookie's key.
LEMMA Persists ==
    ASSUME AccessTypeOK, NEW t \in Tabs, Under(visit[t]), Sound(visit[t]),
           Continues(visit[t], visit'[t]),
           bundle' \subseteq bundle, moment' \in Nat, moment <= moment',
           visit'[t].disturbed = FALSE => record' = record,
           visit'[t].at = "redirected" /\ visit'[t].disturbed = FALSE =>
              jar' = jar \/ (jar' \in Cookie /\ jar'.key = record.key /\ record.expires <= jar'.until)
    PROVE  Sound(visit[t])'
<1>1. visit[t] \in Visit
  BY UnderIsVisit
<1>2. ReadIsRecord(visit[t])'
  BY DEF ReadIsRecord, Sound, Continues
<1>3. GrantKnown(visit[t])'
  <2>1. visit[t].at = "read" => visit[t].read \in Transcript
    BY DEF Sound, ReadIsRecord
  <2>2. visit[t].at = "read" /\ HasExpired(visit[t].read) => HasExpired(visit[t].read)'
    BY <2>1 DEF HasExpired, Continues, AccessTypeOK, Transcript, Moments, Deadlines
  <2> QED
    BY <2>2 DEF GrantKnown, Sound, Continues, MayRead
<1>4. DenialKnown(visit[t])'
  BY DEF DenialKnown, Sound, Continues, MayRead
<1>5. KeyExchanged(visit[t])'
  BY DEF KeyExchanged, Sound, Continues
<1>6. CookieHeld(visit[t])'
  BY DEF CookieHeld, Sound, Continues
<1> QED
  BY <1>2, <1>3, <1>4, <1>5, <1>6 DEF Sound

LEMMA VisitTypes ==
    ASSUME AccessTypeOK
    PROVE  Noted \in [Tabs -> Visit \cup Answers] /\ Disturbed \in [Tabs -> Visit \cup Answers]
<1>1. \A t \in Tabs : Noted[t] \in Visit \cup Answers /\ Disturbed[t] \in Visit \cup Answers
  BY UnderIsVisit, NotedVisit, DisturbedVisit
<1>2. \E f : Noted = [t \in Tabs |-> f[t]]
  <2> DEFINE f == [t \in Tabs |-> Noted[t]]
  <2>1. Noted = [t \in Tabs |-> f[t]]
    BY DEF Noted
  <2> QED
    BY <2>1
<1>3. \E f : Disturbed = [t \in Tabs |-> f[t]]
  <2> DEFINE f == [t \in Tabs |-> Disturbed[t]]
  <2>1. Disturbed = [t \in Tabs |-> f[t]]
    BY DEF Disturbed
  <2> QED
    BY <2>1
<1> QED
  BY <1>1, <1>2, <1>3

\* How one visit gets on while the others wait.
LEMMA Acts ==
    ASSUME Inv, NEW t \in Tabs, NEW w \in Visit \cup Answers, visit' = [Noted EXCEPT ![t] = w],
           UNCHANGED <<moment, record, bundle, removing, changes>>,
           jar' \in Cookie \cup {Absent},
           \A u \in Tabs :
              visit[u].at = "redirected" /\ visit[u].disturbed = FALSE =>
                 jar' = jar \/ (/\ jar' \in Cookie /\ jar'.key = record.key
                               /\ record.expires <= jar'.until),
           w \in Visit =>
              \A u \in Tabs \ {t} : Under(visit[u]) => w.disturbed = visit[u].disturbed,
           w \in Visit => Sound(visit[t])'
    PROVE  Inv'
<1>1. AccessTypeOK
  BY DEF Inv
<1>2. /\ visit' \in [Tabs -> Visit \cup Answers] /\ visit'[t] = w
      /\ \A u \in Tabs \ {t} : visit'[u] = Noted[u]
  BY <1>1, VisitTypes
<1>3. AccessTypeOK'
  BY <1>1, <1>2 DEF AccessTypeOK, Answers
<1>4. Under(w) <=> w \in Visit
  BY VisitIsUnder, AnswerIsNot
<1>5. ASSUME NEW u \in Tabs \ {t}
      PROVE  /\ Under(visit'[u]) <=> Under(visit[u])
             /\ Under(visit[u]) => visit'[u].disturbed = visit[u].disturbed
                                  /\ Continues(visit[u], visit'[u])
  BY <1>1, <1>2, NotedVisit, VisitIsUnder
<1>6. Uniform'
  <2> SUFFICES ASSUME NEW u \in Tabs, NEW v \in Tabs, Under(visit'[u]), Under(visit'[v])
               PROVE  visit'[u].disturbed = visit'[v].disturbed
    BY DEF Uniform, Under
  <2> QED
    BY <1>2, <1>4, <1>5 DEF Inv, Uniform
<1>7. ASSUME NEW u \in Tabs, Under(visit'[u]) PROVE Sound(visit[u])'
  <2>1. CASE u = t
    BY <1>2, <1>4, <1>7, <2>1
  <2>2. CASE u # t
    <3>1. Under(visit[u]) /\ Continues(visit[u], visit'[u])
          /\ visit'[u].disturbed = visit[u].disturbed
      BY <1>5, <1>7, <2>2
    <3>2. Sound(visit[u])
      BY <3>1 DEF Inv
    <3>3. moment' \in Nat /\ moment <= moment'
      BY <1>1 DEF AccessTypeOK, Moments
    <3>4. visit'[u].at = "redirected" /\ visit'[u].disturbed = FALSE =>
             jar' = jar \/ (/\ jar' \in Cookie /\ jar'.key = record.key
                           /\ record.expires <= jar'.until)
      BY <3>1 DEF Continues
    <3> QED
      BY <1>1, <3>1, <3>2, <3>3, <3>4, Persists
  <2> QED
    BY <2>1, <2>2
<1> QED
  BY <1>3, <1>6, <1>7 DEF Inv, Under

\* How all visits get on while time passes, or the transcript is changed.
LEMMA Waits ==
    ASSUME Inv, UNCHANGED jar, bundle' \subseteq bundle, moment' \in Moments, moment <= moment',
           record' \in Transcript \cup {Absent}, changes' \in AccessKeys, removing' \in BOOLEAN,
           visit' = Disturbed \/ (visit' = Noted /\ UNCHANGED record)
    PROVE  Inv'
<1>1. AccessTypeOK
  BY DEF Inv
<1>2. visit' \in [Tabs -> Visit \cup Answers]
  BY <1>1, VisitTypes
<1>3. AccessTypeOK'
  BY <1>1, <1>2 DEF AccessTypeOK, Answers
<1>4. ASSUME NEW u \in Tabs
      PROVE  /\ Under(visit'[u]) <=> Under(visit[u])
             /\ Under(visit[u]) =>
                   /\ Continues(visit[u], visit'[u])
                   /\ visit' = Disturbed => visit'[u].disturbed = TRUE
                   /\ visit' = Noted => visit'[u].disturbed = visit[u].disturbed
  <2>1. CASE Under(visit[u])
    BY <1>1, <2>1, NotedVisit, DisturbedVisit, VisitIsUnder
  <2>2. CASE ~Under(visit[u])
    BY <1>1, <2>2, NotedVisit, DisturbedVisit
  <2> QED
    BY <2>1, <2>2
<1>5. Uniform'
  <2> SUFFICES ASSUME NEW u \in Tabs, NEW v \in Tabs, Under(visit'[u]), Under(visit'[v])
               PROVE  visit'[u].disturbed = visit'[v].disturbed
    BY DEF Uniform, Under
  <2> QED
    BY <1>4 DEF Inv, Uniform
<1>6. ASSUME NEW u \in Tabs, Under(visit'[u]) PROVE Sound(visit[u])'
  <2>1. Under(visit[u]) /\ Continues(visit[u], visit'[u]) /\ Sound(visit[u])
    BY <1>4, <1>6 DEF Inv
  <2>2. visit'[u].disturbed = FALSE => record' = record
    BY <1>4, <2>1
  <2>3. moment' \in Nat
    BY DEF Moments
  <2> QED
    BY <1>1, <2>1, <2>2, <2>3, Persists
<1> QED
  BY <1>3, <1>5, <1>6 DEF Inv, Under

-------------------------------------------------------------------------------
(* Visits. *)

LEMMA Moving ==
    ASSUME NEW v \in Visit
    PROVE  /\ \A place \in {"served", "refused"} :
                 Moved(v, place) \in Answers /\ Moved(v, place).at = place
           /\ \A place \in {"redirected", "allowed"} :
                 LET w == Moved(v, place) IN
                 /\ w \in Visit /\ w.at = place /\ w.read = Absent
                 /\ w.file = v.file /\ w.link = v.link /\ w.followed = v.followed
                 /\ w.granted = v.granted /\ w.denied = v.denied /\ w.disturbed = v.disturbed
BY DEF Moved, Visit, Answers, Ended

\* A visit that ends leaves the others as they are.
LEMMA Ends ==
    ASSUME Inv, NEW t \in Tabs, Under(visit[t]), NEW place \in {"served", "refused"},
           Turn(t, place), UNCHANGED <<moment, record, bundle, removing, changes, jar>>
    PROVE  Inv' /\ visit'[t].at = place
<1>1. AccessTypeOK
  BY DEF Inv
<1> DEFINE w == Moved(Noted[t], place)
<1>2. w \in Answers /\ w.at = place
  <2>1. Noted[t] \in Visit
    BY <1>1, NotedVisit
  <2> QED
    BY <2>1, Moving
<1>3. visit' = [Noted EXCEPT ![t] = w]
  BY DEF Turn
<1>4. w \notin Visit
  BY <1>2 DEF Visit
<1>5. jar' \in Cookie \cup {Absent}
  BY <1>1 DEF AccessTypeOK
<1> HIDE DEF w
<1>6. Inv'
  BY <1>2, <1>3, <1>4, <1>5, Acts
<1>7. visit'[t] = w
  BY <1>1, <1>3, VisitTypes
<1> QED
  BY <1>2, <1>6, <1>7

LEMMA PresentedKey == ASSUME AccessTypeOK PROVE Presented \in AccessKeys
BY AccessAssumption DEF AccessTypeOK, Presented, Cookie, AccessKeys

LEMMA AskInv ==
    ASSUME Inv, NEW t \in Tabs, NEW file \in Files, NEW link \in 0..changes, Ask(t, file, link)
    PROVE  Inv'
<1>1. AccessTypeOK
  BY DEF Inv
<1> DEFINE late == \E u \in Tabs : Under(visit[u]) /\ visit[u].disturbed
           w == [at |-> "asked", file |-> file, link |-> link, cookie |-> Presented,
                 followed |-> FALSE, read |-> Absent, granted |-> FALSE, denied |-> FALSE,
                 disturbed |-> late]
<1>2. visit' = [Noted EXCEPT ![t] = w]
  BY DEF Ask
<1>3. link \in AccessKeys
  BY <1>1, AccessAssumption DEF AccessTypeOK, AccessKeys
<1>4. w \in Visit
  BY <1>1, <1>3, PresentedKey DEF Visit
<1>5. \A u \in Tabs \ {t} : Under(visit[u]) => w.disturbed = visit[u].disturbed
  <2> SUFFICES ASSUME NEW u \in Tabs, Under(visit[u]) PROVE late = visit[u].disturbed
    OBVIOUS
  <2>1. \A v \in Tabs : Under(visit[v]) => visit[v].disturbed = visit[u].disturbed
    BY DEF Inv, Uniform
  <2>2. visit[u].disturbed \in BOOLEAN
    BY <1>1, UnderIsVisit DEF Visit
  <2> QED
    BY <2>1, <2>2
<1>6. visit'[t] = w
  BY <1>1, <1>2, VisitTypes
<1>7. w.at = "asked" /\ w.followed = FALSE
  OBVIOUS
<1>8. jar' = jar /\ jar' \in Cookie \cup {Absent}
      /\ UNCHANGED <<moment, record, bundle, removing, changes>>
  BY <1>1 DEF Ask, AccessTypeOK
<1> HIDE DEF w
<1>9. Sound(visit[t])'
  BY <1>6, <1>7 DEF Sound, ReadIsRecord, GrantKnown, DenialKnown, KeyExchanged, CookieHeld
<1> QED
  BY <1>2, <1>4, <1>5, <1>8, <1>9, Acts

LEMMA GetInv == ASSUME Inv, NEW t \in Tabs, Get(t) PROVE Inv'
<1>1. AccessTypeOK /\ visit[t].at = "asked" /\ Under(visit[t]) /\ visit[t] \in Visit
  BY UnderIsVisit DEF Inv, Get, Under
<1>2. CASE record = Absent /\ Turn(t, "refused")
  BY <1>1, <1>2, Ends DEF Get
<1>3. CASE /\ record # Absent
           /\ visit' = [Noted EXCEPT ![t] = [@ EXCEPT !.at = "read", !.read = record]]
  <2> DEFINE v == Noted[t]
             w == [v EXCEPT !.at = "read", !.read = record]
  <2>1. v \in Visit /\ Continues(visit[t], v) /\ v.disturbed = visit[t].disturbed
        /\ (OpenTo(visit[t]) => v.granted = TRUE) /\ (v.denied = FALSE => OpenTo(visit[t]))
    BY <1>1, NotedVisit
  <2>2. record \in Transcript
    BY <1>1, <1>3 DEF AccessTypeOK
  <2>3. /\ w \in Visit /\ w.at = "read" /\ w.read = record
        /\ w.file = v.file /\ w.link = v.link /\ w.cookie = v.cookie /\ w.followed = v.followed
        /\ w.granted = v.granted /\ w.denied = v.denied /\ w.disturbed = v.disturbed
    BY <2>1, <2>2 DEF Visit
  <2>4. visit' = [Noted EXCEPT ![t] = w]
    BY <1>3
  <2>5. visit'[t] = w
    BY <1>1, <2>4, VisitTypes
  <2>6. \A u \in Tabs \ {t} : Under(visit[u]) => w.disturbed = visit[u].disturbed
    BY <1>1, <2>1, <2>3 DEF Inv, Uniform
  <2>7. /\ jar' = jar /\ jar' \in Cookie \cup {Absent}
        /\ UNCHANGED <<moment, record, bundle, removing, changes>>
    BY <1>1 DEF Get, AccessTypeOK
  <2> HIDE DEF w, v
  <2>8. Sound(visit[t])'
    <3>1. ReadIsRecord(visit[t])'
      BY <2>2, <2>3, <2>5, <2>7 DEF ReadIsRecord
    <3>2. GrantKnown(visit[t])'
      <4>1. w.file = visit[t].file /\ w.link = visit[t].link /\ w.cookie = visit[t].cookie
        BY <2>1, <2>3 DEF Continues
      <4>2. w.file \in bundle /\ ~HasExpired(record) /\ MayRead(record, w.link, w.cookie)
               => OpenTo(visit[t])
        BY <1>3, <4>1 DEF OpenTo, MayRead
      <4> QED
        BY <2>1, <2>3, <2>5, <2>7, <4>2 DEF GrantKnown, HasExpired, MayRead
    <3>3. DenialKnown(visit[t])'
      BY <2>1, <2>3, <2>5 DEF DenialKnown, OpenTo, MayRead, Continues
    <3>4. KeyExchanged(visit[t])'
      BY <2>3, <2>5 DEF KeyExchanged
    <3>5. CookieHeld(visit[t])'
      <4>1. CookieHeld(visit[t])
        BY <1>1 DEF Inv, Sound
      <4> QED
        BY <1>1, <2>1, <2>3, <2>5, <2>7, <4>1 DEF CookieHeld, Continues
    <3> QED
      BY <3>1, <3>2, <3>3, <3>4, <3>5 DEF Sound
  <2> QED
    BY <2>3, <2>4, <2>6, <2>7, <2>8, Acts
<1> QED
  BY <1>2, <1>3 DEF Get

\* A visit that cannot go on from what it has read was closed, or is disturbed.
LEMMA Excused ==
    ASSUME Inv, NEW t \in Tabs, visit[t].at = "read", ~Allowed(t) \/ HasExpired(visit[t].read)
    PROVE  Noted[t].denied = TRUE \/ Noted[t].disturbed = TRUE
<1> DEFINE v == visit[t]
<1>1. AccessTypeOK /\ Under(v) /\ v \in Visit /\ Sound(v)
  BY UnderIsVisit DEF Inv, Under
<1>2. /\ Noted[t] \in Visit /\ Continues(v, Noted[t]) /\ Noted[t].disturbed = v.disturbed
      /\ ~OpenTo(v) => Noted[t].denied = TRUE
  BY <1>1, NotedVisit
<1>3. v.disturbed \in BOOLEAN /\ v.denied \in BOOLEAN /\ v.followed \in BOOLEAN
      /\ Noted[t].denied \in BOOLEAN
  BY <1>1, <1>2 DEF Visit
<1>4. ASSUME v.disturbed = FALSE, Noted[t].denied = FALSE PROVE FALSE
  <2>1. v.read = record /\ record \in Transcript
    BY <1>1, <1>4 DEF Sound, ReadIsRecord
  <2>2. v.denied = FALSE /\ OpenTo(v)
    BY <1>2, <1>4 DEF Continues
  <2>3. ~HasExpired(v.read)
    BY <2>1, <2>2 DEF OpenTo
  <2>4. MayRead(v.read, v.link, v.cookie)
    BY <1>1, <2>2 DEF Sound, DenialKnown
  <2>5. CASE v.followed = FALSE
    <3>1. Query(t) = v.link
      BY <2>5 DEF Query
    <3> QED
      BY <2>3, <2>4, <3>1 DEF Allowed
  <2>6. CASE v.followed = TRUE
    <3>1. record.key # 0 /\ v.cookie = record.key
      BY <1>1, <1>4, <2>2, <2>6 DEF Sound, CookieHeld
    <3> QED
      BY <2>1, <2>3, <3>1 DEF Allowed, MayRead
  <2> QED
    BY <1>3, <2>5, <2>6
<1> QED
  BY <1>2, <1>3, <1>4

LEMMA RejectInv == ASSUME Inv, NEW t \in Tabs, Reject(t) PROVE Inv'
BY Ends DEF Reject, Under

\* The cookie an undisturbed visit leaves is of the record as it is.
LEMMA CookieFits ==
    ASSUME Inv, NEW t \in Tabs, visit[t].at = "read"
    PROVE  LET c == CookieOf(visit[t].read) IN
           /\ c \in Cookie
           /\ visit[t].disturbed = FALSE =>
                 record \in Transcript /\ c.key = record.key /\ record.expires <= c.until
<1> DEFINE r == visit[t].read
<1>1. AccessTypeOK /\ r \in Transcript /\ (visit[t].disturbed = FALSE => r = record)
  BY DEF Inv, Under, Sound, ReadIsRecord
<1>2. r.expires \in Deadlines /\ moment \in Moments /\ r.key \in AccessKeys
  BY <1>1 DEF AccessTypeOK, Transcript
<1>3. Later(r.expires, moment + Grace) \in Deadlines
      /\ r.expires <= Later(r.expires, moment + Grace)
  BY <1>2, AccessAssumption DEF Later, Deadlines, Moments
<1> HIDE DEF r
<1> QED
  BY <1>1, <1>2, <1>3 DEF CookieOf, Cookie, r

LEMMA AdmitInv == ASSUME Inv, NEW t \in Tabs, Admit(t) PROVE Inv'
<1> DEFINE v == visit[t]
           c == CookieOf(v.read)
<1>1. AccessTypeOK /\ v.at = "read" /\ Under(v) /\ v \in Visit /\ Sound(v) /\ Allowed(t)
  BY UnderIsVisit DEF Inv, Under, Admit
<1>2. c \in Cookie
      /\ (v.disturbed = FALSE =>
             record \in Transcript /\ c.key = record.key /\ record.expires <= c.until)
  BY <1>1, CookieFits
<1>3. v.read \in Transcript /\ (v.disturbed = FALSE => v.read = record)
  BY <1>1 DEF Sound, ReadIsRecord
<1>4. UNCHANGED <<moment, record, bundle, removing, changes>>
      /\ jar' = IF FromQuery(t) THEN c ELSE jar
  BY DEF Admit
<1>5. jar' \in Cookie \cup {Absent}
  BY <1>1, <1>2, <1>4 DEF AccessTypeOK
<1>6. ASSUME NEW u \in Tabs, visit[u].at = "redirected", visit[u].disturbed = FALSE
      PROVE  jar' = jar \/ (jar' \in Cookie /\ jar'.key = record.key /\ record.expires <= jar'.until)
  <2>1. v.disturbed = FALSE
    BY <1>1, <1>6 DEF Inv, Uniform, Under
  <2> QED
    BY <1>2, <1>4, <2>1
<1>7. /\ Noted[t] \in Visit /\ Continues(v, Noted[t]) /\ Noted[t].disturbed = v.disturbed
  BY <1>1, NotedVisit
<1> HIDE DEF c
<1>8. CASE Turn(t, "refused")
  <2> DEFINE w == Moved(Noted[t], "refused")
  <2>1. w \in Answers /\ w \notin Visit
    BY <1>7, Moving, AnswerIsNot, VisitIsUnder
  <2>2. visit' = [Noted EXCEPT ![t] = w]
    BY <1>8 DEF Turn
  <2> HIDE DEF w
  <2> QED
    BY <1>4, <1>5, <1>6, <2>1, <2>2, Acts
<1>9. ASSUME NEW place \in {"redirected", "allowed"}, Turn(t, place),
             place = "redirected" <=> FromQuery(t) /\ v.file = "page",
             place = "allowed" => ~HasExpired(v.read)
      PROVE  Inv'
  <2> DEFINE w == Moved(Noted[t], place)
  <2>1. /\ w \in Visit /\ w.at = place /\ w.file = v.file
        /\ w.disturbed = v.disturbed /\ (v.granted = TRUE => w.granted = TRUE)
    BY <1>7, Moving DEF Continues
  <2>2. visit' = [Noted EXCEPT ![t] = w]
    BY <1>9 DEF Turn
  <2>3. visit'[t] = w
    BY <1>1, <2>2, VisitTypes
  <2>4. \A u \in Tabs \ {t} : Under(visit[u]) => w.disturbed = visit[u].disturbed
    BY <1>1, <2>1 DEF Inv, Uniform
  <2> HIDE DEF w
  <2>5. GrantKnown(visit[t])'
    <3>1. CASE place = "redirected"
      BY <2>1, <2>3, <3>1 DEF GrantKnown
    <3>2. CASE place = "allowed"
      <4>1. MayRead(v.read, v.link, v.cookie)
        BY <1>1 DEF Allowed, MayRead, Query
      <4>2. v.file \in bundle => v.granted = TRUE
        BY <1>1, <1>9, <3>2, <4>1 DEF Sound, GrantKnown
      <4> QED
        BY <1>4, <2>1, <2>3, <3>2, <4>2 DEF GrantKnown
    <3> QED
      BY <3>1, <3>2
  <2>6. KeyExchanged(visit[t])'
    <3> SUFFICES ASSUME place = "redirected", v.disturbed = FALSE
                 PROVE  record \in Transcript /\ record.key # 0
                        /\ c \in Cookie /\ c.key = record.key /\ record.expires <= c.until
                        /\ jar' = c
      BY <1>4, <2>1, <2>3 DEF KeyExchanged
    <3>1. FromQuery(t)
      BY <1>9
    <3> QED
      BY <1>2, <1>3, <1>4, <3>1 DEF FromQuery
  <2>7. Sound(visit[t])'
    BY <2>1, <2>3, <2>5, <2>6 DEF Sound, ReadIsRecord, DenialKnown, CookieHeld
  <2> QED
    BY <1>4, <1>5, <1>6, <2>1, <2>2, <2>4, <2>7, Acts
<1> QED
  BY <1>8, <1>9 DEF Admit

LEMMA FollowInv == ASSUME Inv, NEW t \in Tabs, Follow(t) PROVE Inv'
<1> DEFINE v == visit[t]
           n == Noted[t]
           w == [n EXCEPT !.at = "asked", !.followed = TRUE, !.cookie = Presented]
<1>1. AccessTypeOK /\ v.at = "redirected" /\ Under(v) /\ v \in Visit /\ Sound(v)
  BY UnderIsVisit DEF Inv, Under, Follow
<1>2. /\ n \in Visit /\ n.disturbed = v.disturbed /\ (n.denied = FALSE => OpenTo(v))
  BY <1>1, NotedVisit
<1>3. /\ w \in Visit /\ w.at = "asked" /\ w.cookie = Presented
      /\ w.denied = n.denied /\ w.disturbed = n.disturbed
  BY <1>1, <1>2, PresentedKey DEF Visit
<1>4. visit' = [Noted EXCEPT ![t] = w]
      /\ UNCHANGED <<moment, record, bundle, removing, changes, jar>>
  BY DEF Follow
<1>5. visit'[t] = w
  BY <1>1, <1>4, VisitTypes
<1>6. \A u \in Tabs \ {t} : Under(visit[u]) => w.disturbed = visit[u].disturbed
  BY <1>1, <1>2, <1>3 DEF Inv, Uniform
<1>7. jar' \in Cookie \cup {Absent}
  BY <1>1, <1>4 DEF AccessTypeOK
<1> HIDE DEF w, n
<1>8. CookieHeld(visit[t])'
  <2> SUFFICES ASSUME v.disturbed = FALSE, OpenTo(v)
               PROVE  record \in Transcript /\ record.key # 0 /\ Presented = record.key
    BY <1>2, <1>3, <1>4, <1>5 DEF CookieHeld
  <2>1. /\ record \in Transcript /\ record.key # 0
        /\ jar \in Cookie /\ jar.key = record.key /\ record.expires <= jar.until
    BY <1>1 DEF Sound, KeyExchanged
  <2>2. ~(jar.until < moment)
    <3>1. ~(record.expires < moment)
      BY DEF OpenTo, HasExpired
    <3>2. record.expires \in Int /\ jar.until \in Int /\ moment \in Int
      BY <1>1, <2>1 DEF AccessTypeOK, Moments, Transcript, Cookie, Deadlines
    <3> QED
      BY <2>1, <3>1, <3>2
  <2>3. jar # Absent
    BY <2>1, AbsentAssumption
  <2> QED
    BY <2>1, <2>2, <2>3 DEF Presented
<1>9. Sound(visit[t])'
  BY <1>3, <1>5, <1>8 DEF Sound, ReadIsRecord, GrantKnown, DenialKnown, KeyExchanged
<1> QED
  BY <1>3, <1>4, <1>6, <1>7, <1>9, Acts

LEMMA SendFileInv == ASSUME Inv, NEW t \in Tabs, SendFile(t) PROVE Inv'
BY Ends DEF SendFile, Under

-------------------------------------------------------------------------------
(* Administrators, and the clock. *)

LEMMA RenewInv == ASSUME Inv, Renew PROVE Inv'
<1>1. AccessTypeOK /\ record \in Transcript
  BY DEF Inv, Renew, Change, AccessTypeOK
<1>2. moment + Days \in Deadlines /\ changes' \in AccessKeys
  BY <1>1, AccessAssumption DEF Renew, Change, AccessTypeOK, Moments, Deadlines, AccessKeys
<1>3. record' \in Transcript
  BY <1>1, <1>2 DEF Renew, Transcript
<1>4. moment' \in Moments /\ moment <= moment'
  BY <1>1 DEF Renew, AccessTypeOK, Moments
<1> QED
  BY <1>1, <1>2, <1>3, <1>4, Waits DEF Renew, Change, AccessTypeOK

LEMMA SetVisibilityInv ==
    ASSUME Inv, NEW public \in BOOLEAN, SetVisibility(public) PROVE Inv'
<1>1. AccessTypeOK /\ record \in Transcript
  BY DEF Inv, SetVisibility, Change, AccessTypeOK
<1>2. changes + 1 \in AccessKeys /\ 0 \in AccessKeys
  BY <1>1, AccessAssumption DEF SetVisibility, Change, AccessTypeOK, AccessKeys
<1>3. record' \in Transcript
  BY <1>1, <1>2 DEF SetVisibility, Transcript
<1>4. moment' \in Moments /\ moment <= moment'
  BY <1>1 DEF SetVisibility, AccessTypeOK, Moments
<1> QED
  BY <1>1, <1>2, <1>3, <1>4, Waits DEF SetVisibility, Change, AccessTypeOK

LEMMA RemoveInv == ASSUME Inv, Remove PROVE Inv'
<1>1. AccessTypeOK
  BY DEF Inv
<1>2. changes' \in AccessKeys
  BY <1>1, AccessAssumption DEF Remove, Change, AccessTypeOK, AccessKeys
<1>3. moment' \in Moments /\ moment <= moment'
  BY <1>1 DEF Remove, AccessTypeOK, Moments
<1> QED
  BY <1>1, <1>2, <1>3, Waits DEF Remove, Change, AccessTypeOK

LEMMA RemovingInv ==
    ASSUME Inv, (\E file \in Files : RemoveFile(file)) \/ RemoveFails \/ RemoveEnds PROVE Inv'
<1>1. AccessTypeOK
  BY DEF Inv
<1>2. moment \in Moments /\ moment <= moment /\ changes \in AccessKeys
  BY <1>1 DEF AccessTypeOK, Moments
<1>3. CASE \E file \in Files : RemoveFile(file)
  BY <1>1, <1>2, <1>3, Waits DEF RemoveFile, AccessTypeOK
<1>4. CASE RemoveFails
  BY <1>1, <1>2, <1>4, Waits DEF RemoveFails, AccessTypeOK
<1>5. CASE RemoveEnds
  BY <1>1, <1>2, <1>5, Waits DEF RemoveEnds, AccessTypeOK
<1> QED
  BY <1>3, <1>4, <1>5

LEMMA TimePassesInv == ASSUME Inv, TimePasses PROVE Inv'
<1>1. AccessTypeOK
  BY DEF Inv
<1>2. moment' \in Moments /\ moment <= moment'
  BY <1>1, AccessAssumption DEF TimePasses, AccessTypeOK, Moments
<1> QED
  BY <1>1, <1>2, Waits DEF TimePasses, AccessTypeOK

LEMMA StutterInv == ASSUME Inv, UNCHANGED accessVars PROVE Inv'
BY DEF Inv, accessVars, AccessTypeOK, Uniform, Sound, ReadIsRecord, GrantKnown, DenialKnown,
       KeyExchanged, CookieHeld, Under, HasExpired, MayRead

LEMMA InitInv == ASSUME AccessInit PROVE Inv
<1>1. AccessTypeOK
  <2>1. 0 \in AccessKeys /\ 0 \in Deadlines /\ 0 \in Moments
    BY AccessAssumption DEF Moments, AccessKeys, Deadlines
  <2>2. record \in Transcript
    BY <2>1 DEF AccessInit, Transcript
  <2>3. visit \in [Tabs -> {Ended("none")}]
    BY DEF AccessInit
  <2>4. bundle \subseteq Files /\ removing \in BOOLEAN
    BY DEF AccessInit
  <2> QED
    BY <2>1, <2>2, <2>3, <2>4 DEF AccessInit, AccessTypeOK
<1>2. \A t \in Tabs : ~Under(visit[t])
  BY DEF AccessInit, Under, Ended
<1> QED
  BY <1>1, <1>2 DEF Inv, Uniform

THEOREM Invariant == AccessSpec => []Inv
<1>1. AccessInit => Inv
  BY InitInv
<1>2. Inv /\ [AccessNext]_accessVars => Inv'
  BY AskInv, GetInv, RejectInv, AdmitInv, FollowInv, SendFileInv, RenewInv, SetVisibilityInv,
     RemoveInv, RemovingInv, TimePassesInv, StutterInv DEF AccessNext
<1> QED
  BY <1>1, <1>2, PTL DEF AccessSpec

-------------------------------------------------------------------------------

\* Every variable keeps its type, for any tabs and bounds.
THEOREM AccessTypeCorrect == AccessSpec => []AccessTypeOK
<1>1. Inv => AccessTypeOK
  BY DEF Inv
<1> QED
  BY <1>1, Invariant, PTL

-------------------------------------------------------------------------------
(* What a step answers. *)

Justified(t) ==
    /\ visit'[t].at = "served" => Noted[t].granted = TRUE
    /\ visit'[t].at = "refused" => Noted[t].denied = TRUE \/ Noted[t].disturbed = TRUE

\* A visit that waits is not answered.
LEMMA WaitingUnanswered ==
    ASSUME Inv, NEW t \in Tabs, Under(visit[t]), visit'[t] \in {Noted[t], Disturbed[t], visit[t]}
    PROVE  Justified(t)
<1>1. Noted[t].at = visit[t].at /\ Disturbed[t].at = visit[t].at
  <2>1. Continues(visit[t], Noted[t]) /\ Continues(visit[t], Disturbed[t])
    BY NotedVisit, DisturbedVisit DEF Inv
  <2> QED
    BY <2>1 DEF Continues
<1>2. visit'[t].at = visit[t].at
  BY <1>1
<1> QED
  BY <1>2 DEF Justified, Under

LEMMA OthersWait ==
    ASSUME Inv, NEW t \in Tabs, NEW w, visit' = [Noted EXCEPT ![t] = w], NEW u \in Tabs \ {t}
    PROVE  visit'[u] = Noted[u]
BY VisitTypes DEF Inv

\* The file is not there: the transcript is closed to the visit at that moment.
LEMMA NoFileFollows ==
    ASSUME Inv, NEW t \in Tabs, Under(visit[t]), record = Absent \/ visit[t].file \notin bundle
    PROVE  Noted[t].denied = TRUE
BY NotedVisit DEF Inv, OpenTo

\* Only a visit that reads it, checks it or sends a file is answered.
LEMMA GetAnswers ==
    ASSUME Inv, NEW t \in Tabs, Get(t), NEW u \in Tabs, Under(visit[u]) PROVE Justified(u)
<1>1. AccessTypeOK /\ Under(visit[t])
  BY DEF Inv, Get, Under
<1>2. CASE u # t
  BY <1>2, OthersWait, WaitingUnanswered DEF Get, Turn
<1>3. CASE u = t /\ record = Absent /\ Turn(t, "refused")
  <2>1. visit'[t].at = "refused"
    BY <1>1, <1>3, Ends DEF Get
  <2> QED
    BY <1>1, <1>3, <2>1, NoFileFollows DEF Justified
<1>4. CASE /\ u = t
           /\ visit' = [Noted EXCEPT ![t] = [@ EXCEPT !.at = "read", !.read = record]]
  <2>1. visit'[t] = [Noted[t] EXCEPT !.at = "read", !.read = record]
    BY <1>1, <1>4, VisitTypes
  <2>2. Noted[t] \in Visit
    BY <1>1, NotedVisit
  <2>3. visit'[t].at = "read"
    BY <2>1, <2>2 DEF Visit
  <2> QED
    BY <1>4, <2>3 DEF Justified
<1> QED
  BY <1>2, <1>3, <1>4 DEF Get

LEMMA RejectAnswers ==
    ASSUME Inv, NEW t \in Tabs, Reject(t), NEW u \in Tabs, Under(visit[u]) PROVE Justified(u)
<1>1. CASE u # t
  BY <1>1, OthersWait, WaitingUnanswered DEF Reject, Turn
<1>2. CASE u = t
  <2>1. visit'[t].at = "refused"
    BY <1>2, Ends DEF Reject
  <2> QED
    BY <1>2, <2>1, Excused DEF Reject, Justified
<1> QED
  BY <1>1, <1>2

LEMMA AdmitAnswers ==
    ASSUME Inv, NEW t \in Tabs, Admit(t), NEW u \in Tabs, Under(visit[u]) PROVE Justified(u)
<1>1. AccessTypeOK /\ visit[t].at = "read" /\ Under(visit[t])
  BY DEF Inv, Admit, Under
<1>2. CASE u # t
  BY <1>2, OthersWait, WaitingUnanswered DEF Admit, Turn
<1>3. CASE u = t
  <2> DEFINE goal(place) == visit'[t] = Moved(Noted[t], place)
  <2>1. goal("redirected") \/ goal("allowed")
        \/ (goal("refused") /\ HasExpired(visit[t].read))
    BY <1>1, VisitTypes DEF Admit, Turn
  <2>2. Noted[t] \in Visit
    BY <1>1, NotedVisit
  <2>3. CASE goal("redirected") \/ goal("allowed")
    BY <1>3, <2>2, <2>3, Moving DEF Justified
  <2>4. CASE goal("refused") /\ HasExpired(visit[t].read)
    <3>1. visit'[t].at = "refused"
      BY <2>2, <2>4, Moving
    <3>2. Noted[t].denied = TRUE \/ Noted[t].disturbed = TRUE
      BY <1>1, <2>4, Excused
    <3> QED
      BY <1>3, <3>1, <3>2 DEF Justified
  <2> QED
    BY <2>1, <2>3, <2>4
<1> QED
  BY <1>2, <1>3

LEMMA SendFileAnswers ==
    ASSUME Inv, NEW t \in Tabs, SendFile(t), NEW u \in Tabs, Under(visit[u]) PROVE Justified(u)
<1>1. AccessTypeOK /\ visit[t].at = "allowed" /\ Under(visit[t])
  BY DEF Inv, SendFile, Under
<1>2. CASE u # t
  BY <1>2, OthersWait, WaitingUnanswered DEF SendFile, Turn
<1>3. CASE u = t /\ visit[t].file \in bundle
  <2>1. Turn(t, "served")
    BY <1>3 DEF SendFile
  <2>2. visit'[t].at = "served"
    BY <1>1, <2>1, Ends DEF SendFile
  <2>3. visit[t].granted = TRUE
    BY <1>1, <1>3 DEF Inv, Sound, GrantKnown
  <2>4. Noted[t].granted = TRUE
    BY <1>1, <2>3, NotedVisit DEF Continues
  <2> QED
    BY <1>3, <2>2, <2>4 DEF Justified
<1>4. CASE u = t /\ visit[t].file \notin bundle
  <2>1. Turn(t, "refused")
    BY <1>4 DEF SendFile
  <2>2. visit'[t].at = "refused"
    BY <1>1, <2>1, Ends DEF SendFile
  <2> QED
    BY <1>1, <1>4, <2>2, NoFileFollows DEF Justified
<1> QED
  BY <1>2, <1>3, <1>4

LEMMA FollowAnswers ==
    ASSUME Inv, NEW t \in Tabs, Follow(t), NEW u \in Tabs, Under(visit[u]) PROVE Justified(u)
<1>1. AccessTypeOK /\ Under(visit[t])
  BY DEF Inv, Follow, Under
<1>2. CASE u # t
  BY <1>2, OthersWait, WaitingUnanswered DEF Follow
<1>3. CASE u = t
  <2>1. visit'[t] = [Noted[t] EXCEPT !.at = "asked", !.followed = TRUE, !.cookie = Presented]
    BY <1>1, VisitTypes DEF Follow
  <2>2. Noted[t] \in Visit
    BY <1>1, NotedVisit
  <2>3. visit'[t].at = "asked"
    BY <2>1, <2>2 DEF Visit
  <2> QED
    BY <1>3, <2>3 DEF Justified
<1> QED
  BY <1>2, <1>3

LEMMA StepAnswers ==
    ASSUME Inv, [AccessNext]_accessVars, NEW u \in Tabs, Under(visit[u]) PROVE Justified(u)
<1>1. ASSUME NEW t \in Tabs, NEW file \in Files, NEW link \in 0..changes, Ask(t, file, link)
      PROVE  Justified(u)
  <2>1. u # t
    BY <1>1 DEF Ask
  <2> QED
    BY <1>1, <2>1, OthersWait, WaitingUnanswered DEF Ask
<1>2. ASSUME \/ Renew \/ \E public \in BOOLEAN : SetVisibility(public) \/ Remove
             \/ \E file \in Files : RemoveFile(file)
             \/ RemoveFails \/ RemoveEnds \/ TimePasses
      PROVE  Justified(u)
  <2>1. visit' = Noted \/ visit' = Disturbed
    BY <1>2 DEF Renew, SetVisibility, Remove, Change, RemoveFile, RemoveFails, RemoveEnds,
                TimePasses
  <2> QED
    BY <2>1, WaitingUnanswered
<1>3. ASSUME UNCHANGED accessVars PROVE Justified(u)
  BY <1>3, WaitingUnanswered DEF accessVars
<1> QED
  BY <1>1, <1>2, <1>3, GetAnswers, RejectAnswers, AdmitAnswers, FollowAnswers, SendFileAnswers
     DEF AccessNext

\* Whoever is answered is answered as of a moment of the visit, in any number of tabs and
\* whatever administrators do meanwhile.
THEOREM AlwaysAnswered == AccessSpec => AnsweredAsOfAMoment
<1> DEFINE Answer ==
       \A t \in Tabs : Under(visit[t]) =>
          /\ visit'[t].at = "served" => Noted[t].granted
          /\ visit'[t].at = "refused" => Noted[t].denied \/ Noted[t].disturbed
<1>1. Inv /\ [AccessNext]_accessVars => [Answer]_accessVars
  <2> SUFFICES ASSUME Inv, [AccessNext]_accessVars, NEW t \in Tabs, Under(visit[t])
               PROVE  /\ visit'[t].at = "served" => Noted[t].granted
                      /\ visit'[t].at = "refused" => Noted[t].denied \/ Noted[t].disturbed
    OBVIOUS
  <2>1. Justified(t)
    BY StepAnswers
  <2> QED
    BY <2>1 DEF Justified
<1> QED
  BY <1>1, Invariant, PTL DEF AccessSpec, AnsweredAsOfAMoment


-------------------------------------------------------------------------------
(* The dashboard and the visits together. *)

\* A behaviour of the two is a behaviour of each.
LEMMA AccessParts == AllSpec => Spec /\ AccessSpec
<1>1. AllInit => Init /\ AccessInit
  BY DEF AllInit
<1>2. [AllNext]_<<vars, accessVars, part>> => [Next]_vars /\ [AccessNext]_accessVars
  BY DEF AllNext
<1> QED
  BY <1>1, <1>2, PTL DEF AllSpec, Spec, AccessSpec

\* AccessTypesOK: whichever of the two a behaviour moves, both keep their types: the
\* account with its requests, the visits with the transcript they ask for.
THEOREM AllTypeCorrect == AllSpec => []AccessTypesOK
<1>1. TypeOK /\ AccessTypeOK => AccessTypesOK
  BY DEF AccessTypesOK
<1> QED
  BY <1>1, AccessParts, TypeCorrect, AccessTypeCorrect, PTL
===============================================================================

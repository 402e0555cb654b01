------------------------------- MODULE ApiProofs -------------------------------
(***************************************************************************)
(* A request to the API, for all constants: what one export fetches from   *)
(* Discord, for any channel, limits and number of workers (PagesInv,       *)
(* LookupInv); the settings by which the request is let in, for all        *)
(* tokens, failures and deaths (UpdateInv); and the limiter, for all keys, *)
(* limits and windows, changed at any time (LimiterInv).                   *)
(***************************************************************************)
EXTENDS MCApi, SequenceTheorems, SumProofs, TLAPS

-----------------------------------------------------------------------------
(* Type correctness. *)

LEMMA ConstantFacts ==
  /\ MaxPosts \in Nat /\ Limit \in Nat \ {0} /\ PageSize \in Nat \ {0}
  /\ Attempts \in Nat \ {0} /\ MaxLookup \in Nat /\ Answers \subseteq Nat
  /\ None \notin Messages /\ None \notin Authors
  /\ "messages" \notin Workers /\ "channel" \notin Workers /\ "roles" \notin Workers
  BY DiscordAssumption

\* A call that waits for a delay has an attempt left; an idle handler makes no call.
Waiting ==
    /\ \A c \in Callers : call[c].at = "delayed" => call[c].attempt < Attempts
    /\ fetched # "no" => call["messages"].at = "none"
    /\ channel # "no" => call["channel"].at = "none"
    /\ at # "fetching" => fetched # "no" /\ channel # "no"

TypeInv == TypeOK /\ Waiting

\* The calls that get can make of one.
LEMMA CallTypes ==
  /\ NoCall \in Call
  /\ \A c \in Callers : Sent(c) \in Call
  /\ \A r \in Call : /\ [r EXCEPT !.at = "delayed"] \in Call
                     /\ r.attempt < Attempts => \A t \in BOOLEAN :
                          [at |-> "sent", attempt |-> r.attempt + 1, timely |-> t] \in Call
<1>1. 1 \in 1..Attempts
  BY ConstantFacts
<1>2. \A c \in Callers : (~Done(c)) \in BOOLEAN
  OBVIOUS
<1>3. \A c \in Callers : Sent(c) \in Call
  BY <1>1, <1>2 DEF Sent, Call
<1>4. NoCall \in Call
  BY <1>1 DEF NoCall, Call
<1>5. \A r \in Call : [r EXCEPT !.at = "delayed"] \in Call
  BY DEF Call
<1>6. ASSUME NEW r \in Call, r.attempt < Attempts, NEW t \in BOOLEAN
      PROVE  [at |-> "sent", attempt |-> r.attempt + 1, timely |-> t] \in Call
  BY <1>6, ConstantFacts DEF Call
<1> QED
  BY <1>3, <1>4, <1>5, <1>6

\* Where a caller's call goes, when another record replaces it.
LEMMA CallUpdate ==
  ASSUME call \in [Callers -> Call], NEW c \in Callers, NEW r \in Call,
         call' = [call EXCEPT ![c] = r]
  PROVE  /\ call' \in [Callers -> Call] /\ call'[c] = r
         /\ \A d \in Callers : d # c => call'[d] = call[d]
  OBVIOUS

LEMMA Records == NoCall.at = "none" /\ \A c \in Callers : Sent(c).at = "sent"
  BY DEF NoCall, Sent

LEMMA TypeInit == Init => TypeInv
<1> SUFFICES ASSUME Init PROVE TypeInv
  OBVIOUS
<1> USE ConstantFacts DEF Init
<1>1. call \in [Callers -> Call]
  BY CallTypes
<1>2. posted \in 0..MaxPosts /\ stable \subseteq alive /\ alive \subseteq 1..posted
  BY DEF Messages
<1>3. all \in Seq(Messages) /\ Len(all) <= Limit
  OBVIOUS
<1>4. \A w \in Workers : looksUp[w] = None /\ call[w].at = "none"
  BY DEF Callers, NoCall
<1>5. looksUp \in [Workers -> Authors \cup {None}]
  OBVIOUS
<1>6. TypeOK
  BY <1>1, <1>2, <1>3, <1>4, <1>5 DEF TypeOK
<1>7. Waiting
  BY DEF Waiting, Sent, NoCall, Callers
<1> QED
  BY <1>6, <1>7 DEF TypeInv

LEMMA AliveFacts == TypeInv => alive \subseteq Messages /\ Messages \subseteq Int
<1> SUFFICES ASSUME TypeInv PROVE alive \subseteq 1..MaxPosts /\ 1..MaxPosts \subseteq Int
  BY DEF Messages
<1>1. posted \in 0..MaxPosts /\ alive \subseteq 1..posted /\ MaxPosts \in Nat
  BY DiscordAssumption DEF TypeInv, TypeOK
<1> QED
  BY <1>1

\* A page, and what it makes of the messages fetched so far.
LEMMA PageFacts ==
  ASSUME TypeInv, NEW page \in Pages
  PROVE  /\ page \in Seq(Messages) /\ Len(page) <= batchSize
         /\ Len(all) + Len(page) <= Limit
         /\ \A i \in 1..Len(page) : page[i] \in Older
         /\ \A i, j \in 1..Len(page) : i < j => page[i] > page[j]
         /\ \A m \in Older : \/ \E i \in 1..Len(page) : page[i] = m
                             \/ /\ Len(page) = batchSize
                                /\ \A i \in 1..Len(page) : m < page[i]
         /\ all \o page \in Seq(Messages)
         /\ Len(all \o page) = Len(all) + Len(page)
         /\ \A i \in 1..Len(all) + Len(page) :
              (all \o page)[i] = IF i <= Len(all) THEN all[i] ELSE page[i - Len(all)]
<1>1. batchSize \in Nat /\ Len(all) + batchSize <= Limit /\ batchSize <= PageSize
      /\ Len(all) \in Nat
  BY ConstantFacts DEF TypeInv, TypeOK, batchSize
<1>2. Older \subseteq Messages
  BY AliveFacts DEF Older
<1>3. PICK n \in 0..batchSize : page \in [1..n -> Older]
  BY DEF Pages
<1>4. page \in Seq(Messages) /\ Len(page) = n /\ DOMAIN page = 1..n
  BY <1>1, <1>2, <1>3
<1>5. \A i, j \in 1..n : i < j => page[i] > page[j]
  BY <1>4 DEF Pages
<1>6. \A m \in Older : \/ \E i \in 1..n : page[i] = m
                       \/ n = batchSize /\ \A i \in 1..n : m < page[i]
  BY <1>4 DEF Pages, Range
<1>7. all \in Seq(Messages)
  BY DEF TypeInv, TypeOK
<1>8. /\ all \o page \in Seq(Messages)
      /\ Len(all \o page) = Len(all) + Len(page)
      /\ \A i \in 1..Len(all) + Len(page) :
           (all \o page)[i] = IF i <= Len(all) THEN all[i] ELSE page[i - Len(all)]
  BY <1>4, <1>7, ConcatProperties
<1>9. Len(page) <= batchSize /\ Len(all) + Len(page) <= Limit
  BY <1>1, <1>3, <1>4, ConstantFacts
<1>10. \A i \in 1..Len(page) : page[i] \in Older
  BY <1>3, <1>4
<1> QED
  BY <1>4, <1>5, <1>6, <1>8, <1>9, <1>10

LEMMA TypePages ==
  ASSUME TypeInv, GetPage
  PROVE  TypeInv'
<1> USE DEF GetPage, TypeInv
<1>1. PICK page \in Pages : /\ all' = all \o page
                            /\ before' = IF page = <<>> THEN before ELSE page[Len(page)]
                            /\ NextPageOrOk(page)
  OBVIOUS
<1>2. /\ all' \in Seq(Messages) /\ Len(all') <= Limit /\ fetched' \in {"no", "ok"}
  BY <1>1, PageFacts DEF NextPageOrOk
<1>3. before' \in Messages \cup {None}
  <2>1. CASE page = <<>>
    BY <2>1, <1>1 DEF TypeOK
  <2>2. CASE page # <<>>
    <3>1. page \in Seq(Messages) /\ Len(page) \in 1..Len(page)
      BY <2>2, PageFacts
    <3> QED
      BY <3>1, <2>2, <1>1
  <2> QED
    BY <2>1, <2>2
<1>4. PICK r \in {Sent("messages"), NoCall} : call' = [call EXCEPT !["messages"] = r]
  BY <1>1 DEF NextPageOrOk, Send, Idle
<1>5. "messages" \in Callers /\ r \in Call /\ r.at # "delayed"
  BY <1>4, CallTypes, Records DEF Callers
<1>6. /\ call' \in [Callers -> Call] /\ call'["messages"] = r
      /\ \A c \in Callers : c # "messages" => call'[c] = call[c]
  BY <1>4, <1>5, CallUpdate DEF TypeOK
<1>7. TypeOK'
  <2>1. \A w \in Workers : (looksUp'[w] = None) = (call'[w].at = "none")
    BY <1>6, ConstantFacts DEF TypeOK, Callers, lookup
  <2> QED
    BY <1>2, <1>3, <1>6, <2>1 DEF TypeOK, world, lookup
<1>8. fetched' # "no" => call'["messages"].at = "none"
  BY <1>1, <1>6, <1>5 DEF NextPageOrOk, Idle, NoCall, TypeOK, Callers
<1>9. at = "fetching"
  BY DEF Waiting, Answered
<1>10. Waiting'
  BY <1>5, <1>6, <1>8, <1>9 DEF Waiting, Callers, Answered
<1> QED
  BY <1>7, <1>10

\* Ending a call, and the two steps of get's loop, keep the types.
LEMMA TypeIdle ==
  ASSUME TypeInv, NEW c \in Callers, Idle(c)
  PROVE  /\ call' \in [Callers -> Call] /\ call'[c].at = "none"
         /\ \A d \in Callers : d # c => call'[d] = call[d]
  BY CallUpdate, CallTypes, Records DEF TypeInv, TypeOK, Idle

LEMMA TypeBackoff ==
  ASSUME TypeInv, NEW c \in Callers, Backoff(c)
  PROVE  TypeInv'
<1> USE DEF TypeInv
<1>1. PICK r \in Call : /\ call' = [call EXCEPT ![c] = r] /\ r.at # "none"
                        /\ r.at = "delayed" => r.attempt < Attempts
                        /\ UNCHANGED <<world, at, ctxDone, pages, channel, roles, lookup>>
  <2>1. call[c] \in Call
    BY DEF TypeOK
  <2>2. CASE RateLimited(c)
    <3> DEFINE r == [call[c] EXCEPT !.at = "delayed"]
    <3>1. r \in Call /\ r.at = "delayed" /\ r.attempt = call[c].attempt
      BY <2>1, CallTypes DEF Call
    <3>2. call' = [call EXCEPT ![c] = r]
      BY <2>2 DEF RateLimited
    <3> HIDE DEF r
    <3> QED
      BY <3>1, <3>2, <2>2 DEF RateLimited
  <2>3. CASE Retry(c)
    <3> DEFINE r == [at |-> "sent", attempt |-> call[c].attempt + 1, timely |-> ~Done(c)]
    <3>1. r \in Call
      BY <2>1, <2>3, CallTypes DEF Waiting, Retry
    <3>2. r.at = "sent"
      OBVIOUS
    <3>3. call' = [call EXCEPT ![c] = r]
      BY <2>3 DEF Retry
    <3> HIDE DEF r
    <3> QED
      BY <3>1, <3>2, <3>3, <2>3 DEF Retry
  <2> QED
    BY <2>2, <2>3 DEF Backoff
<1>2. /\ call' \in [Callers -> Call] /\ call'[c] = r
      /\ \A d \in Callers : d # c => call'[d] = call[d]
  BY <1>1, CallUpdate DEF TypeOK
<1>3. call[c].at # "none"
  BY DEF Backoff, RateLimited, Retry
<1>4. TypeOK'
  <2>1. \A w \in Workers : (looksUp'[w] = None) = (call'[w].at = "none")
    BY <1>1, <1>2, <1>3 DEF TypeOK, Callers, lookup
  <2> QED
    BY <1>1, <1>2, <2>1 DEF TypeOK, world, pages, lookup
<1>5. Waiting'
  BY <1>1, <1>2, <1>3 DEF Waiting, Callers, pages
<1> QED
  BY <1>4, <1>5

LEMMA TypeFetch ==
  ASSUME TypeInv, FetchFails \/ GetChannel \/ GetRoles
  PROVE  TypeInv'
<1> USE DEF TypeInv
<1>1. "messages" \in Callers /\ "channel" \in Callers /\ "roles" \in Callers
  BY DEF Callers
<1>2. CASE FetchFails
  <2>1. /\ call' \in [Callers -> Call] /\ call'["messages"].at = "none"
        /\ \A d \in Callers : d # "messages" => call'[d] = call[d]
    BY <1>1, <1>2, TypeIdle DEF FetchFails
  <2>2. \A w \in Workers : w \in Callers /\ w # "messages"
    BY ConstantFacts DEF Callers
  <2>3. TypeOK'
    BY <1>2, <2>1, <2>2 DEF TypeOK, FetchFails, world, lookup
  <2>4. Waiting'
    BY <1>1, <1>2, <2>1 DEF Waiting, FetchFails
  <2> QED
    BY <2>3, <2>4
<1>3. CASE GetChannel
  <2>1. /\ call' \in [Callers -> Call] /\ call'["channel"].at = "none"
        /\ \A d \in Callers : d # "channel" => call'[d] = call[d]
    BY <1>1, <1>3, TypeIdle DEF GetChannel
  <2>2. \A w \in Workers : w \in Callers /\ w # "channel"
    BY ConstantFacts DEF Callers
  <2>3. TypeOK'
    BY <1>3, <2>1, <2>2 DEF TypeOK, GetChannel, world, pages, lookup
  <2>4. Waiting'
    BY <1>1, <1>3, <2>1 DEF Waiting, GetChannel, pages
  <2> QED
    BY <2>3, <2>4
<1>4. CASE GetRoles
  <2>1. /\ call' \in [Callers -> Call] /\ call'["roles"].at = "none"
        /\ \A d \in Callers : d # "roles" => call'[d] = call[d]
    BY <1>1, <1>4, TypeIdle DEF GetRoles
  <2>2. \A w \in Workers : w \in Callers /\ w # "roles"
    BY ConstantFacts DEF Callers
  <2>3. TypeOK'
    BY <1>4, <2>1, <2>2 DEF TypeOK, GetRoles, world, pages, lookup
  <2>4. Waiting'
    BY <1>1, <1>4, <2>1 DEF Waiting, GetRoles, pages
  <2> QED
    BY <2>3, <2>4
<1> QED
  BY <1>2, <1>3, <1>4

LEMMA AuthorFacts == TypeInv => AuthorIDs \subseteq Authors
<1> SUFFICES ASSUME TypeInv PROVE AuthorIDs \subseteq Authors
  OBVIOUS
<1>1. Range(all) \subseteq Messages
  BY DEF Range, TypeInv, TypeOK
<1> QED
  BY <1>1 DEF AuthorIDs, Authors

LEMMA TypeJoin ==
  ASSUME TypeInv, Join
  PROVE  TypeInv'
<1> USE DEF TypeInv
<1>1. "roles" \in Callers /\ \A w \in Workers : w \in Callers /\ w # "roles"
  BY ConstantFacts DEF Callers
<1>2. /\ call' \in [Callers -> Call]
      /\ \A d \in Callers : d # "roles" => call'[d] = call[d]
      /\ call'["roles"].at = "delayed" => call'["roles"].attempt < Attempts
  <2>1. CASE UNCHANGED call
    BY <2>1, <1>1 DEF TypeOK, Waiting
  <2>2. CASE Send("roles")
    BY <2>2, <1>1, CallUpdate, CallTypes, Records DEF Send, TypeOK
  <2> QED
    BY <2>1, <2>2 DEF Join
<1>3. unsent' \subseteq Authors /\ sending' \in BOOLEAN /\ gone' \subseteq Workers
  BY AuthorFacts DEF Join, TypeOK
<1>4. posted' \in 0..MaxPosts /\ stable' \subseteq alive' /\ alive' \subseteq 1..posted'
  BY ConstantFacts DEF Join
<1>5. at' \in {"joining", "bundle", "failed"}
  BY DEF Join
<1>6. \A w \in Workers : (looksUp'[w] = None) = (call'[w].at = "none")
  BY <1>1, <1>2 DEF TypeOK, Join
<1>7. TypeOK'
  BY <1>2, <1>3, <1>4, <1>5, <1>6 DEF TypeOK, Join, pages
<1>8. Waiting'
  BY <1>1, <1>2 DEF Waiting, Join, pages, Callers
<1> QED
  BY <1>7, <1>8

LEMMA TypeMembers ==
  ASSUME TypeInv, NEW w \in Workers, Member(w) \/ NoMember(w)
  PROVE  TypeInv'
<1> USE DEF TypeInv
<1>1. w \in Callers
  BY DEF Callers
<1>2. /\ call' \in [Callers -> Call] /\ call'[w].at = "none"
      /\ \A d \in Callers : d # w => call'[d] = call[d]
  BY <1>1, TypeIdle DEF Member, NoMember
<1>3. /\ looksUp' = [looksUp EXCEPT ![w] = None] /\ looksUp[w] \in Authors
      /\ UNCHANGED <<world, at, ctxDone, pages, channel, roles, unsent, sending, gone>>
  BY DEF TypeOK, Member, NoMember
<1>4. looksUp' \in [Workers -> Authors \cup {None}]
  BY <1>3 DEF TypeOK
<1>5. \A v \in Workers : (looksUp'[v] = None) = (call'[v].at = "none")
  BY <1>2, <1>3 DEF TypeOK, Callers
<1>6. /\ result' \subseteq Authors /\ lost' \subseteq Authors /\ cancelled' \in BOOLEAN
      /\ received' \in Nat
  <2>1. CASE Member(w)
    <3>1. PICK bytes \in Answers :
            \/ received' = received + bytes /\ result' = result \cup {looksUp[w]}
               /\ UNCHANGED cancelled
            \/ cancelled' = TRUE /\ UNCHANGED <<received, result>>
      BY <2>1 DEF Member
    <3>2. bytes \in Nat /\ received \in Nat
      BY ConstantFacts DEF TypeOK
    <3>3. received' \in Nat
      BY <3>1, <3>2
    <3>4. result' \subseteq Authors
      BY <1>3, <3>1 DEF TypeOK
    <3>5. cancelled' \in BOOLEAN
      BY <3>1 DEF TypeOK
    <3>6. lost' \subseteq Authors
      BY <2>1 DEF TypeOK, Member
    <3> QED
      BY <3>3, <3>4, <3>5, <3>6
  <2>2. CASE NoMember(w)
    BY <1>3, <2>2 DEF TypeOK, NoMember
  <2> QED
    BY <2>1, <2>2
<1>7. TypeOK'
  BY <1>2, <1>3, <1>4, <1>5, <1>6 DEF TypeOK, world, pages
<1>8. Waiting'
  BY <1>1, <1>2, <1>3, ConstantFacts DEF Waiting, pages, Callers
<1> QED
  BY <1>7, <1>8

LEMMA TypeTake ==
  ASSUME TypeInv, NEW w \in Workers, Take(w)
  PROVE  TypeInv'
<1> USE DEF TypeInv
<1>1. w \in Callers
  BY DEF Callers
<1>2. /\ call' \in [Callers -> Call] /\ call'[w].at = "sent"
      /\ \A d \in Callers : d # w => call'[d] = call[d]
  BY <1>1, CallUpdate, CallTypes, Records DEF Take, Send, TypeOK
<1>3. PICK a \in unsent : /\ unsent' = unsent \ {a}
                          /\ looksUp' = [looksUp EXCEPT ![w] = a]
  BY DEF Take
<1>4. a \in Authors /\ a # None
  BY ConstantFacts DEF TypeOK
<1>5. looksUp' \in [Workers -> Authors \cup {None}] /\ unsent' \subseteq Authors
  BY <1>3, <1>4 DEF TypeOK
<1>6. \A v \in Workers : (looksUp'[v] = None) = (call'[v].at = "none")
  BY <1>2, <1>3, <1>4 DEF TypeOK, Callers
<1>7. TypeOK'
  BY <1>2, <1>5, <1>6 DEF TypeOK, Take, world, pages
<1>8. Waiting'
  BY <1>1, <1>2, ConstantFacts DEF Waiting, Take, pages, Callers
<1> QED
  BY <1>7, <1>8

LEMMA TypeRest ==
  ASSUME TypeInv,
         \/ CloseJobs \/ Attach \/ ContextEnds \/ Post \/ UNCHANGED vars
         \/ \E w \in Workers : Exit(w)
         \/ \E m \in Messages : Delete(m)
  PROVE  TypeInv'
<1> USE DEF TypeInv, world, pages, lookup
<1>1. CASE CloseJobs \/ Attach \/ ContextEnds \/ UNCHANGED vars \/ \E w \in Workers : Exit(w)
  <2>1. CASE CloseJobs
    <3>1. TypeOK'
      BY <2>1 DEF TypeOK, CloseJobs
    <3>2. Waiting'
      BY <2>1 DEF Waiting, CloseJobs
    <3> QED
      BY <3>1, <3>2
  <2>2. CASE Attach
    <3>1. TypeOK'
      BY <2>2 DEF TypeOK, Attach
    <3>2. Waiting'
      BY <2>2 DEF Waiting, Attach
    <3> QED
      BY <3>1, <3>2
  <2>3. CASE ContextEnds
    <3>1. TypeOK'
      BY <2>3 DEF TypeOK, ContextEnds
    <3>2. Waiting'
      BY <2>3 DEF Waiting, ContextEnds
    <3> QED
      BY <3>1, <3>2
  <2>4. CASE UNCHANGED vars
    <3>1. TypeOK'
      BY <2>4 DEF TypeOK, vars
    <3>2. Waiting'
      BY <2>4 DEF Waiting, vars
    <3> QED
      BY <3>1, <3>2
  <2>5. CASE \E w \in Workers : Exit(w)
    <3>1. TypeOK'
      BY <2>5 DEF TypeOK, Exit
    <3>2. Waiting'
      BY <2>5 DEF Waiting, Exit
    <3> QED
      BY <3>1, <3>2
  <2> QED
    BY <1>1, <2>1, <2>2, <2>3, <2>4, <2>5
<1>2. CASE Post \/ \E m \in Messages : Delete(m)
  <2>1. /\ posted' \in 0..MaxPosts /\ stable' \subseteq alive' /\ alive' \subseteq 1..posted'
    <3>1. posted \in 0..MaxPosts /\ stable \subseteq alive /\ alive \subseteq 1..posted
          /\ MaxPosts \in Nat
      BY ConstantFacts DEF TypeOK
    <3>2. CASE Post
      <4>1. posted' = posted + 1 /\ alive' = alive \cup {posted'} /\ stable' = stable
            /\ posted < MaxPosts
        BY <3>2 DEF Post
      <4>2. posted' \in 0..MaxPosts /\ \A m \in 1..posted : m \in 1..posted'
        BY <3>1, <4>1
      <4>3. posted' \in 1..posted'
        BY <3>1, <4>1
      <4> QED
        BY <3>1, <4>1, <4>2, <4>3
    <3>3. CASE \E m \in Messages : Delete(m)
      BY <3>1, <3>3 DEF Delete
    <3> QED
      BY <1>2, <3>2, <3>3
  <2>2. UNCHANGED <<at, ctxDone, call, pages, channel, roles, lookup>>
    BY <1>2 DEF Post, Delete
  <2>3. TypeOK'
    BY <2>1, <2>2 DEF TypeOK
  <2>4. Waiting'
    BY <2>2 DEF Waiting
  <2> QED
    BY <2>3, <2>4
<1> QED
  BY <1>1, <1>2

LEMMA TypeNext == TypeInv /\ [Next]_vars => TypeInv'
<1> SUFFICES ASSUME TypeInv, [Next]_vars PROVE TypeInv'
  OBVIOUS
<1>1. \A w \in Workers : w \in Callers
  BY DEF Callers
<1>2. "messages" \in Callers /\ "channel" \in Callers /\ "roles" \in Callers
  BY DEF Callers
<1> QED
  BY <1>1, <1>2, TypePages, TypeBackoff, TypeFetch, TypeJoin, TypeMembers, TypeTake, TypeRest
     DEF Next, FetchMessages, FetchChannel, FetchRoles, Worker

\* The variables keep their types, so no request is tried more than Attempts times,
\* for any limits, authors and workers.
THEOREM TypeCorrect == Spec => []TypeOK
<1>1. TypeInv => TypeOK
  BY DEF TypeInv
<1> QED
  BY <1>1, TypeInit, TypeNext, PTL DEF Spec

-----------------------------------------------------------------------------
(* The pages: before is the oldest message fetched, and whatever was in the *)
(* channel all the time is either fetched or older than it.                 *)

Fetched(m) == \E i \in 1..Len(all) : all[i] = m

PagesInv ==
    /\ \A i, j \in 1..Len(all) : i < j => all[i] > all[j]
    /\ before = None => Len(all) = 0
    /\ before # None => Len(all) > 0 /\ before = all[Len(all)]
    /\ fetched = "no" => Len(all) < Limit
    /\ fetched = "no" => \A m \in stable : Fetched(m) \/ before = None \/ m < before
    /\ fetched = "ok" =>
         \A m \in stable : Fetched(m) \/ (Len(all) = Limit /\ m < all[Limit])

LEMMA PagesInit == Init => PagesInv
  BY ConstantFacts DEF Init, PagesInv

LEMMA PagesGet ==
  ASSUME TypeInv, PagesInv, GetPage
  PROVE  PagesInv'
<1>1. PICK page \in Pages : /\ all' = all \o page
                            /\ before' = IF page = <<>> THEN before ELSE page[Len(page)]
                            /\ NextPageOrOk(page)
  BY DEF GetPage
<1> DEFINE n == Len(all)
           k == Len(page)
<1>2. /\ page \in Seq(Messages) /\ all \in Seq(Messages) /\ n \in Nat /\ k \in Nat
      /\ stable \subseteq alive /\ stable' = stable
  BY PageFacts DEF TypeInv, TypeOK, GetPage, world
<1>3. /\ \A i \in 1..k : page[i] \in Older /\ page[i] \in Int
      /\ \A i, j \in 1..k : i < j => page[i] > page[j]
      /\ \A m \in Older : \/ \E i \in 1..k : page[i] = m
                          \/ k = batchSize /\ \A i \in 1..k : m < page[i]
      /\ n + k <= Limit
  BY PageFacts, AliveFacts DEF Older
<1>4. /\ Len(all') = n + k
      /\ \A i \in 1..n : i \in 1..(n + k) /\ all'[i] = all[i] /\ all[i] \in Int
      /\ \A i \in 1..k : n + i \in 1..(n + k) /\ all'[n + i] = page[i]
      /\ \A i \in 1..(n + k) : i \notin 1..n => i - n \in 1..k /\ all'[i] = page[i - n]
  BY <1>1, <1>2, PageFacts, AliveFacts
<1>5. fetched = "no"
  BY DEF GetPage, Answered, TypeInv, Waiting
<1>6. n < Limit /\ batchSize \in Nat /\ batchSize > 0
  BY <1>2, <1>5, ConstantFacts DEF PagesInv, batchSize
<1>7. page = <<>> <=> k = 0
  BY <1>2
<1> HIDE DEF n, k
<1>8. \A i, j \in 1..(n + k) : i < j => all'[i] > all'[j]
  <2> SUFFICES ASSUME NEW i \in 1..(n + k), NEW j \in 1..(n + k), i < j
               PROVE  all'[i] > all'[j]
    OBVIOUS
  <2>1. CASE j \in 1..n
    BY <1>2, <1>4, <2>1 DEF PagesInv, n
  <2>2. CASE i \notin 1..n
    <3>1. i - n \in 1..k /\ j - n \in 1..k /\ i - n < j - n
      BY <1>2, <1>4, <2>2
    <3> QED
      BY <1>2, <1>3, <1>4, <2>2, <3>1
  <2>3. CASE i \in 1..n /\ j \notin 1..n
    <3>1. n > 0 /\ before # None /\ before = all[n] /\ n \in 1..n
      BY <1>2, <2>3 DEF PagesInv, n
    <3>2. all[i] >= all[n]
      BY <1>2, <1>4, <2>3, <3>1 DEF PagesInv, n
    <3>3. j - n \in 1..k /\ all'[j] = page[j - n] /\ page[j - n] < before
      BY <1>3, <1>4, <2>3, <3>1 DEF Older
    <3> QED
      BY <1>3, <1>4, <2>3, <3>1, <3>2, <3>3
  <2> QED
    BY <1>2, <2>1, <2>2, <2>3
<1>9. /\ before' = None => n + k = 0
      /\ before' # None => n + k > 0 /\ before' = all'[n + k]
  <2>1. CASE k = 0
    BY <1>1, <1>2, <1>4, <1>7, <2>1 DEF PagesInv, n
  <2>2. CASE k # 0
    <3>1. k \in 1..k /\ page[k] \in Messages /\ before' = page[k]
      BY <1>1, <1>2, <1>7, <2>2 DEF k
    <3> QED
      BY <1>2, <1>4, <3>1, ConstantFacts
  <2> QED
    BY <2>1, <2>2
<1>10. \A m \in stable : \/ \E i \in 1..(n + k) : all'[i] = m
                         \/ /\ k = batchSize /\ before' # None /\ m < before'
                            /\ before' = all'[n + k]
  <2> SUFFICES ASSUME NEW m \in stable,
                      ~ \E i \in 1..(n + k) : all'[i] = m
               PROVE  k = batchSize /\ before' # None /\ m < before' /\ before' = all'[n + k]
    OBVIOUS
  <2>1. ~Fetched(m)
    BY <1>4 DEF Fetched, n
  <2>2. m \in Older
    BY <1>2, <1>5, <2>1 DEF PagesInv, Older
  <2>3. ~ \E i \in 1..k : page[i] = m
    BY <1>4
  <2>4. k = batchSize /\ k \in 1..k /\ m < page[k]
    BY <1>2, <1>3, <1>6, <2>2, <2>3
  <2>5. before' = page[k] /\ page[k] \in Messages
    BY <1>1, <1>2, <1>6, <1>7, <2>4 DEF k
  <2> QED
    BY <1>4, <2>4, <2>5, ConstantFacts
<1>11. \/ fetched' = "no" /\ n + k < Limit
       \/ fetched' = "ok" /\ (k < batchSize \/ n + k = Limit)
  BY <1>1 DEF NextPageOrOk, n, k
<1> QED
  BY <1>2, <1>4, <1>6, <1>8, <1>9, <1>10, <1>11 DEF PagesInv, Fetched

LEMMA PagesNext == TypeInv /\ PagesInv /\ [Next]_vars => PagesInv'
<1> SUFFICES ASSUME TypeInv, PagesInv, [Next]_vars PROVE PagesInv'
  OBVIOUS
<1>1. CASE GetPage
  BY <1>1, PagesGet
<1>2. CASE FetchFails
  BY <1>2 DEF FetchFails, PagesInv
<1>3. CASE UNCHANGED pages /\ stable' \subseteq stable
  BY <1>3 DEF pages, PagesInv, Fetched
<1>4. ASSUME NEW c \in Callers, Backoff(c)
      PROVE  UNCHANGED pages /\ stable' \subseteq stable
  BY <1>4 DEF Backoff, RateLimited, Retry, world
<1>5. ASSUME NEW w \in Workers, Worker(w)
      PROVE  UNCHANGED pages /\ stable' \subseteq stable
  BY <1>4, <1>5 DEF Worker, Take, Member, NoMember, Exit, world, Callers
<1> QED
  BY <1>1, <1>2, <1>3, <1>4, <1>5
     DEF Next, FetchMessages, FetchChannel, FetchRoles, GetChannel, GetRoles, Join, CloseJobs,
         Attach, ContextEnds, Post, Delete, vars, world, pages, Callers

\* No message is fetched twice, and they come newest first, whatever is posted and
\* deleted between the pages, for any limit and any size of a page.
THEOREM AlwaysNewestFirst == Spec => []NewestFirst
<1>1. TypeInv /\ PagesInv => NewestFirst
  BY DEF TypeInv, TypeOK, PagesInv, NewestFirst
<1> QED
  BY <1>1, TypeInit, TypeNext, PagesInit, PagesNext, PTL DEF Spec

\* Nor is one skipped that was in the channel all the time, but for the limit.
THEOREM NothingEverSkipped == Spec => []NothingSkipped
<1>1. TypeInv /\ PagesInv => NothingSkipped
  BY DEF TypeInv, TypeOK, PagesInv, Fetched, NothingSkipped, Range
<1> QED
  BY <1>1, TypeInit, TypeNext, PagesInit, PagesNext, PTL DEF Spec

-----------------------------------------------------------------------------
(* The lookup: an author is in one place, and in some place until the lookup *)
(* is cancelled; who is gone holds nobody.                                   *)

InOnePlace ==
    /\ \A v, w \in Workers : looksUp[v] = looksUp[w] => v = w \/ looksUp[v] = None
    /\ \A w \in Workers : looksUp[w] \notin unsent \cup result \cup lost
    /\ \A a \in unsent : a \notin result \cup lost
    /\ \A a \in result : a \notin lost

InSomePlace ==
    \A a \in AuthorIDs : \/ a \in unsent \cup result \cup lost
                         \/ \E w \in Workers : looksUp[w] = a

NobodyElse ==
    /\ unsent \subseteq AuthorIDs /\ result \subseteq AuthorIDs /\ lost \subseteq AuthorIDs
    /\ \A w \in Workers : looksUp[w] # None => looksUp[w] \in AuthorIDs

Progress ==
    /\ at = "fetching" => /\ unsent = {} /\ result = {} /\ lost = {} /\ ~sending
                          /\ \A w \in Workers : looksUp[w] = None
    /\ at = "joining" => /\ ~cancelled => InSomePlace
                         /\ sending \/ unsent = {} \/ cancelled \/ ctxDone
    /\ at = "bundle" => \/ channel # "guild" \/ ctxDone \/ cancelled
                        \/ \A a \in AuthorIDs : a \in result \cup lost
    /\ at # "joining" => ~sending /\ \A w \in Workers : looksUp[w] = None
    /\ \A w \in gone : looksUp[w] = None

LookupInv == InOnePlace /\ NobodyElse /\ Progress

LEMMA LookupInit == Init => LookupInv
  BY DEF Init, LookupInv, InOnePlace, NobodyElse, Progress

\* Once the fetch is over, the messages and the channel stay.
LEMMA AllStays ==
  ASSUME TypeInv, [Next]_vars, at # "fetching"
  PROVE  all' = all /\ channel' = channel
<1>1. /\ call["messages"].at = "none" /\ call["channel"].at = "none"
  BY DEF TypeInv, Waiting
<1>2. ~GetPage /\ ~FetchFails /\ ~GetChannel
  BY <1>1 DEF GetPage, FetchFails, GetChannel, Answered, Failed
<1>3. ASSUME NEW c \in Callers, Backoff(c)
      PROVE  all' = all /\ channel' = channel
  BY <1>3 DEF Backoff, RateLimited, Retry, pages
<1>4. ASSUME NEW w \in Workers, Worker(w)
      PROVE  all' = all /\ channel' = channel
  BY <1>3, <1>4 DEF Worker, Take, Member, NoMember, Exit, pages, Callers
<1> QED
  BY <1>2, <1>3, <1>4
     DEF Next, FetchMessages, FetchChannel, FetchRoles, GetRoles, Join, CloseJobs, Attach,
         ContextEnds, Post, Delete, vars, pages, Callers

\* A step that leaves the lookup alone.
LEMMA LookupKept ==
  ASSUME TypeInv, LookupInv, UNCHANGED <<lookup, at>>,
         ctxDone => ctxDone',
         at # "fetching" => all' = all /\ channel' = channel
  PROVE  LookupInv'
<1>1. CASE at = "fetching"
  BY <1>1 DEF LookupInv, InOnePlace, NobodyElse, Progress, lookup
<1>2. CASE at # "fetching"
  <2>1. AuthorIDs' = AuthorIDs
    BY <1>2 DEF AuthorIDs
  <2> QED
    BY <1>2, <2>1 DEF LookupInv, InOnePlace, InSomePlace, NobodyElse, Progress, lookup
<1> QED
  BY <1>1, <1>2

LEMMA LookupJoin ==
  ASSUME TypeInv, LookupInv, Join
  PROVE  LookupInv'
<1>1. /\ AuthorIDs' = AuthorIDs /\ None \notin AuthorIDs
      /\ looksUp' = looksUp /\ result' = result /\ lost' = lost
      /\ result = {} /\ lost = {} /\ ~sending /\ unsent = {}
      /\ \A w \in Workers : looksUp[w] = None
  BY AuthorFacts, ConstantFacts DEF Join, pages, AuthorIDs, LookupInv, Progress
<1>2. \/ at' = "joining" /\ unsent' = AuthorIDs /\ sending' = TRUE /\ gone' \subseteq Workers
      \/ at' = "bundle" /\ channel' # "guild" /\ unsent' = {} /\ ~sending' /\ gone' = gone
      \/ at' = "failed" /\ unsent' = {} /\ ~sending' /\ gone' = gone
  BY <1>1 DEF Join
<1>3. gone' \subseteq Workers
  BY <1>2 DEF TypeInv, TypeOK
<1>4. InOnePlace' /\ NobodyElse' /\ (at' = "joining" => InSomePlace')
  BY <1>1, <1>2 DEF InOnePlace, InSomePlace, NobodyElse
<1> QED
  BY <1>1, <1>2, <1>3, <1>4 DEF LookupInv, Progress

LEMMA LookupTake ==
  ASSUME TypeInv, LookupInv, NEW w \in Workers, Take(w)
  PROVE  LookupInv'
<1>1. PICK a \in unsent : /\ unsent' = unsent \ {a}
                          /\ looksUp' = [looksUp EXCEPT ![w] = a]
  BY DEF Take
<1>2. /\ AuthorIDs' = AuthorIDs /\ a \in AuthorIDs /\ a # None
      /\ looksUp'[w] = a /\ \A v \in Workers : v # w => looksUp'[v] = looksUp[v]
      /\ UNCHANGED <<at, ctxDone, channel, sending, gone, result, lost, cancelled>>
      /\ at = "joining" /\ sending /\ looksUp[w] = None /\ w \notin gone
      /\ gone \subseteq Workers
  BY <1>1, AuthorFacts, ConstantFacts
     DEF Take, pages, AuthorIDs, TypeInv, TypeOK, LookupInv, NobodyElse
<1>3. InOnePlace'
  BY <1>1, <1>2 DEF LookupInv, InOnePlace
<1>4. NobodyElse'
  BY <1>1, <1>2 DEF LookupInv, NobodyElse
<1>5. ~cancelled' => InSomePlace'
  BY <1>1, <1>2, ConstantFacts, AuthorFacts DEF LookupInv, Progress, InSomePlace
<1> QED
  BY <1>2, <1>3, <1>4, <1>5 DEF LookupInv, Progress

LEMMA LookupAnswer ==
  ASSUME TypeInv, LookupInv, NEW w \in Workers, Member(w) \/ NoMember(w)
  PROVE  LookupInv'
<1> DEFINE a == looksUp[w]
<1>1. /\ AuthorIDs' = AuthorIDs /\ a # None /\ a \in AuthorIDs
      /\ looksUp'[w] = None /\ \A v \in Workers : v # w => looksUp'[v] = looksUp[v]
      /\ UNCHANGED <<at, ctxDone, channel, sending, gone, unsent>>
      /\ at = "joining" /\ gone \subseteq Workers
      /\ None \notin unsent \cup result \cup lost \cup AuthorIDs
  BY AuthorFacts, ConstantFacts
     DEF Member, NoMember, pages, AuthorIDs, TypeInv, TypeOK, LookupInv, NobodyElse, Progress
<1>2. \/ result' = result \cup {a} /\ lost' = lost /\ cancelled' = cancelled
      \/ lost' = lost \cup {a} /\ result' = result /\ cancelled' = cancelled
      \/ result' = result /\ lost' = lost /\ cancelled' = TRUE
  BY DEF Member, NoMember
<1>3. \A v \in Workers : v # w => looksUp[v] # a
  BY <1>1 DEF LookupInv, InOnePlace
<1>4. a \notin unsent \cup result \cup lost
  BY DEF LookupInv, InOnePlace
<1> HIDE DEF a
<1>5. InOnePlace'
  BY <1>1, <1>2, <1>3, <1>4 DEF LookupInv, InOnePlace
<1>6. NobodyElse'
  BY <1>1, <1>2 DEF LookupInv, NobodyElse
<1>7. ~cancelled' => InSomePlace'
  <2> SUFFICES ASSUME ~cancelled', NEW b \in AuthorIDs
               PROVE  \/ b \in unsent' \cup result' \cup lost'
                      \/ \E v \in Workers : looksUp'[v] = b
    BY <1>1 DEF InSomePlace
  <2>1. b = a => b \in result' \cup lost'
    BY <1>2
  <2>2. \/ b \in unsent \cup result \cup lost
        \/ \E v \in Workers : looksUp[v] = b
    BY <1>1, <1>2 DEF LookupInv, Progress, InSomePlace
  <2>3. \A v \in Workers : looksUp[v] = b => b = a \/ looksUp'[v] = b
    BY <1>1 DEF a
  <2> QED
    BY <1>1, <1>2, <2>1, <2>2, <2>3
<1>8. sending' \/ unsent' = {} \/ cancelled' \/ ctxDone'
  BY <1>1, <1>2 DEF LookupInv, Progress
<1>9. \A v \in gone' : looksUp'[v] = None
  BY <1>1 DEF LookupInv, Progress
<1> QED
  BY <1>1, <1>5, <1>6, <1>7, <1>8, <1>9 DEF LookupInv, Progress

LEMMA LookupEnds ==
  ASSUME TypeInv, LookupInv, CloseJobs \/ Attach \/ \E w \in Workers : Exit(w)
  PROVE  LookupInv'
<1>1. /\ AuthorIDs' = AuthorIDs
      /\ UNCHANGED <<ctxDone, channel, unsent, looksUp, result, lost, cancelled>>
  BY DEF CloseJobs, Attach, Exit, pages, lookup, AuthorIDs
<1>2. InOnePlace' /\ NobodyElse' /\ InSomePlace' = InSomePlace
  BY <1>1 DEF LookupInv, InOnePlace, NobodyElse, InSomePlace
<1>3. CASE CloseJobs
  BY <1>1, <1>2, <1>3 DEF CloseJobs, LookupInv, Progress
<1>4. CASE \E w \in Workers : Exit(w)
  BY <1>1, <1>2, <1>4 DEF Exit, LookupInv, Progress
<1>5. CASE Attach
  <2>1. \A w \in Workers : looksUp[w] = None
    BY <1>5 DEF Attach, LookupInv, Progress
  <2>2. ~cancelled /\ ~ctxDone => \A a \in AuthorIDs : a \in result \cup lost
    BY <1>5, <2>1, AuthorFacts, ConstantFacts DEF Attach, LookupInv, Progress, InSomePlace
  <2> QED
    BY <1>1, <1>2, <1>5, <2>1, <2>2 DEF Attach, LookupInv, Progress, lookup
<1> QED
  BY <1>3, <1>4, <1>5

LEMMA LookupNext == TypeInv /\ LookupInv /\ [Next]_vars => LookupInv'
<1> SUFFICES ASSUME TypeInv, LookupInv, [Next]_vars PROVE LookupInv'
  OBVIOUS
<1>1. at # "fetching" => all' = all /\ channel' = channel
  BY AllStays
<1>2. CASE UNCHANGED <<lookup, at, ctxDone>>
  BY <1>1, <1>2, LookupKept
<1>3. CASE ContextEnds
  BY <1>1, <1>3, LookupKept DEF ContextEnds
<1>4. ASSUME NEW c \in Callers, Backoff(c)
      PROVE  UNCHANGED <<lookup, at, ctxDone>>
  BY <1>4 DEF Backoff, RateLimited, Retry
<1>5. ASSUME NEW w \in Workers, Worker(w)
      PROVE  LookupInv'
  BY <1>2, <1>4, <1>5, LookupTake, LookupAnswer, LookupEnds DEF Worker, Callers
<1> QED
  BY <1>2, <1>3, <1>4, <1>5, LookupJoin, LookupEnds
     DEF Next, FetchMessages, FetchChannel, FetchRoles, GetPage, FetchFails, GetChannel,
         GetRoles, Post, Delete, vars, lookup, Callers

\* No author is asked for twice, and unless the budget or the context ended the lookup
\* every author of a message is asked for, however many workers share the work.
THEOREM AlwaysEveryAuthorAsked == Spec => []EveryAuthorAsked
<1>1. TypeInv /\ LookupInv => EveryAuthorAsked
  <2> SUFFICES ASSUME TypeInv, LookupInv PROVE EveryAuthorAsked
    OBVIOUS
  <2>1. /\ Held \cap (unsent \cup result \cup lost) = {}
        /\ unsent \cap (result \cup lost) = {} /\ result \cap lost = {}
    BY DEF LookupInv, InOnePlace, Held
  <2>2. at = "bundle" /\ channel = "guild" /\ ~ctxDone /\ ~cancelled =>
          result \cup lost = AuthorIDs
    BY DEF LookupInv, Progress, NobodyElse
  <2> QED
    BY <2>1, <2>2 DEF EveryAuthorAsked, LookupInv, InOnePlace
<1> QED
  BY <1>1, TypeInit, TypeNext, LookupInit, LookupNext, PTL DEF Spec

-----------------------------------------------------------------------------
(* The settings. *)

\* What no administrator could object to: the tokens and the limit in force.
Sound(tokens, max) == tokens \cap out = {} /\ in \subseteq tokens /\ max \in limits

SoundFile ==
    IF file = NoFile THEN Sound({}, DefaultLimit)
    ELSE Sound(file.tokens \cup file.legacy, file.max)

\* While an update holds the lock, memory is its change of what was sound before; the
\* file is still that, or the change. Otherwise memory and file are both sound, and
\* the same from the first save on.
UpdateInv ==
    IF update = NoUpdate
    THEN /\ SoundFile
         /\ phase # "down" => Sound(mem.tokens, mem.max)
         /\ phase = "up" => file = Saved(mem)
    ELSE /\ phase = "up"
         /\ Sound(update.previous.tokens, update.previous.max)
         /\ mem = Applied(update.previous, update.change)
         /\ update.change.kind = "create" =>
              update.change.token \notin out \cup update.previous.tokens
         /\ file = Saved(IF update.stage = "unsaved" THEN update.previous ELSE mem)

Inv == SettingsTypeOK /\ UpdateInv

-----------------------------------------------------------------------------

LEMMA AppliedType ==
  ASSUME NEW values \in Values, NEW change \in Changes
  PROVE  Applied(values, change) \in Values
  BY DEF Values, Changes, Applied

\* What a change does to the tokens and to the limit.
LEMMA AppliedFields ==
  ASSUME NEW values \in Values, NEW change \in Changes
  PROVE  /\ change.kind \in {"create", "revoke", "limit"}
         /\ change.kind = "create" =>
              /\ Applied(values, change).tokens = values.tokens \cup {change.token}
              /\ Applied(values, change).max = values.max
         /\ change.kind = "revoke" =>
              /\ Applied(values, change).tokens = values.tokens \ {change.token}
              /\ Applied(values, change).max = values.max
         /\ change.kind = "limit" =>
              /\ Applied(values, change).tokens = values.tokens
              /\ Applied(values, change).max = change.max
  BY DEF Values, Changes, Applied

LEMMA ChangeFields ==
  ASSUME NEW change \in Changes
  PROVE  /\ change.kind \in {"create", "revoke"} => change.token \in Tokens
         /\ change.kind = "limit" => change.max \in Limits
  BY DEF Changes

LEMMA SavedType ==
  ASSUME NEW values \in Values
  PROVE  Saved(values) \in File /\ Saved(values) # NoFile
  BY SettingsAssumption DEF Values, File, Saved

LEMMA MergedType ==
  ASSUME SettingsTypeOK, NEW env \in SUBSET EnvTokens
  PROVE  Merged(env) \in Values
  BY SettingsAssumption DEF SettingsTypeOK, Merged, Values, File

LEMMA UpdateFields ==
  ASSUME NEW u \in Updates, u # NoUpdate
  PROVE  /\ u.stage \in {"unsaved", "saved"} /\ u.change \in Changes /\ u.previous \in Values
         /\ [u EXCEPT !.stage = "saved"] \in Updates
  BY DEF Updates, NoUpdate

-----------------------------------------------------------------------------
(* Types *)

LEMMA SettingsTypeInit == SettingsInit => SettingsTypeOK
  <1> SUFFICES ASSUME SettingsInit PROVE SettingsTypeOK
    OBVIOUS
  <1>1. mem \in Values
    BY SettingsAssumption DEF SettingsInit, Values
  <1>2. in \subseteq Tokens /\ limits \subseteq Limits
    BY SettingsAssumption DEF SettingsInit, File
  <1> QED
    BY <1>1, <1>2, SettingsAssumption DEF SettingsInit, SettingsTypeOK, Updates

LEMMA TypeStep == SettingsTypeOK /\ [SettingsNext]_settingsVars => SettingsTypeOK'
  <1> SUFFICES ASSUME SettingsTypeOK, [SettingsNext]_settingsVars PROVE SettingsTypeOK'
    OBVIOUS
  <1>1. ASSUME NEW env \in SUBSET EnvTokens, Open(env) PROVE SettingsTypeOK'
    BY <1>1, MergedType DEF Open, SettingsTypeOK
  <1>2. CASE OpenSaves
    BY <1>2, SavedType DEF OpenSaves, SettingsTypeOK
  <1>3. CASE OpenFails
    BY <1>3 DEF OpenFails, SettingsTypeOK
  <1>4. ASSUME NEW change \in Changes, Update(change) PROVE SettingsTypeOK'
    <2>1. mem' \in Values
      BY <1>4, AppliedType DEF Update, SettingsTypeOK
    <2>2. update' \in Updates
      BY <1>4 DEF Update, SettingsTypeOK, Updates
    <2>3. updates' \in 0..MaxUpdates
      BY <1>4, SettingsAssumption DEF Update, SettingsTypeOK
    <2> QED
      BY <1>4, <2>1, <2>2, <2>3 DEF Update, SettingsTypeOK
  <1>5. CASE Save
    <2>1. update # NoUpdate
      BY <1>5 DEF Save, NoUpdate
    <2>2. update' \in Updates /\ file' \in File
      BY <1>5, <2>1, UpdateFields, SavedType DEF Save, SettingsTypeOK
    <2> QED
      BY <1>5, <2>2 DEF Save, SettingsTypeOK
  <1>6. CASE SaveFails
    <2>1. update # NoUpdate
      BY <1>6 DEF SaveFails, NoUpdate
    <2>2. mem' \in Values /\ update' \in Updates
      BY <1>6, <2>1, UpdateFields DEF SaveFails, SettingsTypeOK, Updates
    <2>3. out' \subseteq Tokens
      BY <1>6, <2>1, UpdateFields, ChangeFields DEF SaveFails, SettingsTypeOK
    <2> QED
      BY <1>6, <2>2, <2>3 DEF SaveFails, SettingsTypeOK
  <1>7. CASE Answer
    <2>1. update # NoUpdate
      BY <1>7 DEF Answer, NoUpdate
    <2>2. out' \subseteq Tokens /\ in' \subseteq Tokens /\ limits' \subseteq Limits
      BY <1>7, <2>1, UpdateFields, ChangeFields DEF Answer, SettingsTypeOK
    <2> QED
      BY <1>7, <2>2 DEF Answer, SettingsTypeOK, Updates
  <1>8. CASE Crash
    <2>1. in' \subseteq Tokens /\ limits' \subseteq Limits
      BY <1>8, UpdateFields, ChangeFields DEF Crash, SettingsTypeOK
    <2>2. crashes' \in 0..MaxCrashes
      BY <1>8, SettingsAssumption DEF Crash, SettingsTypeOK
    <2> QED
      BY <1>8, <2>1, <2>2 DEF Crash, SettingsTypeOK, Updates
  <1>9. CASE UNCHANGED settingsVars
    BY <1>9 DEF settingsVars, SettingsTypeOK
  <1> QED
    BY <1>1, <1>2, <1>3, <1>4, <1>5, <1>6, <1>7, <1>8, <1>9 DEF SettingsNext, Start

-----------------------------------------------------------------------------
(* The invariant *)

LEMMA InvInit == SettingsInit => Inv
  <1> SUFFICES ASSUME SettingsInit PROVE Inv
    OBVIOUS
  <1>1. SoundFile
    BY DEF SettingsInit, SoundFile, Sound
  <1> QED
    BY <1>1, SettingsTypeInit DEF SettingsInit, Inv, UpdateInv

\* A file that was just written is as sound as the values in it.
LEMMA SavedSound ==
  ASSUME NEW values \in Values, file' = Saved(values),
         Sound(values.tokens, values.max)'
  PROVE  SoundFile'
  BY SavedType DEF SoundFile, Saved, Sound

LEMMA InvStep == Inv /\ [SettingsNext]_settingsVars => Inv'
  <1> SUFFICES ASSUME Inv, [SettingsNext]_settingsVars PROVE UpdateInv'
    BY TypeStep DEF Inv
  <1> USE DEF Inv
  <1>1. ASSUME NEW env \in SUBSET EnvTokens, Open(env) PROVE UpdateInv'
    <2>1. update = NoUpdate /\ SoundFile
      BY <1>1 DEF Open, UpdateInv
    <2>2. SoundFile' /\ Sound(mem.tokens, mem.max)'
      BY <1>1, <2>1 DEF Open, SoundFile, Sound, Merged
    <2> QED
      BY <1>1, <2>1, <2>2 DEF Open, UpdateInv
  <1>2. CASE OpenSaves
    <2>1. update = NoUpdate /\ Sound(mem.tokens, mem.max)
      BY <1>2 DEF OpenSaves, UpdateInv
    <2>2. file' = Saved(mem)' /\ Sound(mem.tokens, mem.max)'
      BY <1>2, <2>1 DEF OpenSaves, Sound, Saved
    <2>3. SoundFile'
      BY <1>2, <2>2, SavedSound DEF OpenSaves, SettingsTypeOK
    <2> QED
      BY <1>2, <2>1, <2>2, <2>3 DEF OpenSaves, UpdateInv
  <1>3. CASE OpenFails
    BY <1>3 DEF OpenFails, UpdateInv, SoundFile, Sound
  <1>4. ASSUME NEW change \in Changes, Update(change) PROVE UpdateInv'
    <2>1. Sound(mem.tokens, mem.max) /\ file = Saved(mem)
      BY <1>4 DEF Update, UpdateInv
    <2>2. update'.stage = "unsaved" /\ update'.change = change /\ update'.previous = mem
      BY <1>4 DEF Update
    <2>3. update' # NoUpdate
      BY <2>2 DEF NoUpdate
    <2>4. Sound(update.previous.tokens, update.previous.max)' /\ file' = Saved(mem)
      BY <1>4, <2>1, <2>2 DEF Update, Sound
    <2> QED
      BY <1>4, <2>2, <2>3, <2>4 DEF Update, UpdateInv, Saved
  <1>5. CASE Save
    <2>1. update # NoUpdate /\ update'.stage = "saved" /\ update' # NoUpdate
          /\ update'.change = update.change /\ update'.previous = update.previous
      BY <1>5, UpdateFields DEF Save, NoUpdate, Updates, SettingsTypeOK
    <2> QED
      BY <1>5, <2>1 DEF Save, UpdateInv, Sound, Saved
  <1>6. CASE SaveFails
    <2>1. update # NoUpdate
      BY <1>6 DEF SaveFails, NoUpdate
    <2>2. update.previous \in Values /\ update.change \in Changes
      BY <2>1, UpdateFields DEF SettingsTypeOK
    <2>3. Sound(mem.tokens, mem.max)' /\ file' = Saved(mem)'
      BY <1>6, <2>1 DEF SaveFails, UpdateInv, Sound, Saved
    <2>4. SoundFile'
      BY <1>6, <2>2, <2>3, SavedSound DEF SaveFails, Saved
    <2> QED
      BY <1>6, <2>3, <2>4 DEF SaveFails, UpdateInv
  <1>7. CASE Answer
    <2>1. update # NoUpdate
      BY <1>7 DEF Answer, NoUpdate
    <2>2. update.previous \in Values /\ update.change \in Changes
      BY <2>1, UpdateFields DEF SettingsTypeOK
    <2>3. Sound(mem.tokens, mem.max)'
      BY <1>7, <2>1, <2>2, AppliedFields DEF Answer, UpdateInv, Sound
    <2>4. file' = Saved(mem)'
      BY <1>7, <2>1 DEF Answer, UpdateInv, Saved
    <2>5. SoundFile'
      BY <1>7, <2>3, <2>4, SavedSound DEF Answer, Saved, SettingsTypeOK
    <2> QED
      BY <1>7, <2>3, <2>4, <2>5 DEF Answer, UpdateInv
  <1>8. CASE Crash
    <2>1. CASE update = NoUpdate
      BY <1>8, <2>1 DEF Crash, UpdateInv, SoundFile, Sound
    <2>2. CASE update # NoUpdate
      <3>1. update.previous \in Values /\ update.change \in Changes
        BY <2>2, UpdateFields DEF SettingsTypeOK
      <3>2. CASE update.stage = "unsaved"
        <4>1. Saved(update.previous) = file /\ Saved(update.previous) # NoFile
          BY <2>2, <3>1, <3>2, SavedType DEF UpdateInv
        <4> QED
          BY <1>8, <2>2, <4>1 DEF Crash, UpdateInv, SoundFile, Sound, Saved
      <3>3. CASE update.stage # "unsaved"
        <4>1. Saved(mem) = file /\ Saved(mem) # NoFile
          BY <2>2, <3>3, SavedType DEF UpdateInv, SettingsTypeOK
        <4>2. Sound(mem.tokens, mem.max)'
          BY <1>8, <2>2, <3>1, AppliedFields DEF Crash, UpdateInv, Sound
        <4> QED
          BY <1>8, <4>1, <4>2 DEF Crash, UpdateInv, SoundFile, Sound, Saved
      <3> QED
        BY <3>2, <3>3
    <2> QED
      BY <2>1, <2>2
  <1>9. CASE UNCHANGED settingsVars
    BY <1>9 DEF settingsVars, UpdateInv, SoundFile, Sound, Saved
  <1> QED
    BY <1>1, <1>2, <1>3, <1>4, <1>5, <1>6, <1>7, <1>8, <1>9 DEF SettingsNext, Start

LEMMA InvAlways == SettingsSpec => []Inv
  BY InvInit, InvStep, PTL DEF SettingsSpec

-----------------------------------------------------------------------------
(* Theorems *)

\* Every variable keeps its type: the settings hold tokens and a limit that a handler
\* has let through, whatever file they start from.
THEOREM SettingsTypeCorrect == SettingsSpec => []SettingsTypeOK
  BY InvAlways, PTL DEF Inv

\* The settings in force are what was answered: tokens that are out stay out, tokens
\* handed out work, and the limit is the last one set (config.go:206, 231, 276).
THEOREM AlwaysAsAnswered == SettingsSpec => []AsAnswered
  <1>1. Inv => AsAnswered
    BY DEF Inv, UpdateInv, AsAnswered, Readable, Sound
  <1> QED
    BY <1>1, InvAlways, PTL

-----------------------------------------------------------------------------
(* The limiter: sums over its history. *)

LEMMA LimiterFacts ==
    /\ Minute \in Nat \ {0} /\ MaxEntries \in Nat \ {0} /\ MaxTime \in Nat /\ MaxAsked \in Nat
    /\ \A r \in Rates : r.max \in Nat \ {0} /\ r.window \in Nat \ {0}
    /\ \A r \in Rates : Interval(r.window) \in Nat \ {0}
    /\ IsFiniteSet(Keys) /\ IsFiniteSet(Rates)
  BY LimiterAssumption DEF Interval

Histories == [Keys \X Times \X Rates -> Nat]

\* How often f has a key at some times, with some rates.
In(f, key, times, rates) == SumFunctionOnSet(f, {key} \X times \X rates)

LEMMA TimesFinite == IsFiniteSet(Times) /\ Times \subseteq Nat
  BY FS_Interval, LimiterFacts DEF Times

LEMMA CellsFinite == IsFiniteSet(Keys \X Times \X Rates)
<1>1. IsFiniteSet(Keys \X Times)
  BY TimesFinite, LimiterFacts, FS_Product
<1>2. IsFiniteSet((Keys \X Times) \X Rates)
  BY <1>1, LimiterFacts, FS_Product
<1> DEFINE f == [x \in (Keys \X Times) \X Rates |-> <<x[1][1], x[1][2], x[2]>>]
<1>3. f \in Surjection((Keys \X Times) \X Rates, Keys \X Times \X Rates)
  <2>1. f \in [(Keys \X Times) \X Rates -> Keys \X Times \X Rates]
    OBVIOUS
  <2>2. ASSUME NEW c \in Keys \X Times \X Rates
        PROVE  \E x \in (Keys \X Times) \X Rates : f[x] = c
    <3>1. <<<<c[1], c[2]>>, c[3]>> \in (Keys \X Times) \X Rates /\ f[<<<<c[1], c[2]>>, c[3]>>] = c
      OBVIOUS
    <3> QED
      BY <3>1
  <2> QED
    BY <2>1, <2>2 DEF Surjection
<1> QED
  BY <1>2, <1>3, FS_Surjection

LEMMA InCells ==
  ASSUME NEW f \in Histories, NEW key \in Keys,
         NEW times \in SUBSET Times, NEW rates \in SUBSET Rates
  PROVE  /\ IsFiniteSet({key} \X times \X rates)
         /\ \A x \in {key} \X times \X rates : f[x] \in Nat
<1>1. {key} \X times \X rates \subseteq Keys \X Times \X Rates
  OBVIOUS
<1> QED
  BY <1>1, CellsFinite, FS_Subset DEF Histories

LEMMA InNat ==
  ASSUME NEW f \in Histories, NEW key \in Keys,
         NEW times \in SUBSET Times, NEW rates \in SUBSET Rates
  PROVE  In(f, key, times, rates) \in Nat
  BY InCells, SumNat DEF In

\* More times, more requests; but no more than all.
LEMMA InMore ==
  ASSUME NEW f \in Histories, NEW key \in Keys, NEW rates \in SUBSET Rates,
         NEW late \in SUBSET Times, NEW early \in SUBSET late
  PROVE  In(f, key, early, rates) <= In(f, key, late, rates)
<1>1. {key} \X early \X rates \in SUBSET ({key} \X late \X rates)
  OBVIOUS
<1> QED
  BY <1>1, InCells, SumPart DEF In

LEMMA InAll ==
  ASSUME NEW f \in Histories, NEW key \in Keys, NEW times \in SUBSET Times
  PROVE  /\ SumFunctionOnSet(f, Keys \X Times \X Rates) \in Nat
         /\ In(f, key, times, Rates) <= SumFunctionOnSet(f, Keys \X Times \X Rates)
<1>1. {key} \X times \X Rates \in SUBSET (Keys \X Times \X Rates)
      /\ \A x \in Keys \X Times \X Rates : f[x] \in Nat
  BY DEF Histories
<1> QED
  BY <1>1, CellsFinite, SumPart, SumNat DEF In

\* Times at which nothing happened do not count.
LEMMA InZero ==
  ASSUME NEW f \in Histories, NEW key \in Keys,
         NEW times \in SUBSET Times, NEW rates \in SUBSET Rates,
         \A t \in times, r \in Rates : f[<<key, t, r>>] = 0
  PROVE  In(f, key, times, rates) = 0
<1>1. \A x \in {key} \X times \X rates : f[x] = 0
  OBVIOUS
<1> QED
  BY <1>1, InCells, SumZero DEF In

\* Where something happened, there is a cell that counts it.
LEMMA InSome ==
  ASSUME NEW f \in Histories, NEW key \in Keys,
         NEW times \in SUBSET Times, NEW rates \in SUBSET Rates,
         In(f, key, times, rates) > 0
  PROVE  \E t \in times, r \in Rates : f[<<key, t, r>>] > 0
<1> SUFFICES ASSUME \A t \in times, r \in Rates : ~(f[<<key, t, r>>] > 0) PROVE FALSE
  OBVIOUS
<1>1. \A t \in times, r \in Rates : f[<<key, t, r>>] = 0
  BY DEF Histories
<1>2. In(f, key, times, rates) = 0
  BY <1>1, InZero
<1> QED
  BY <1>2

\* A count that has grown by one at one point.
OneMore(f, x) == [f EXCEPT ![x] = @ + 1]

LEMMA OnceMore ==
  ASSUME NEW f \in Histories, NEW key \in Keys, NEW t \in Times, NEW r \in Rates
  PROVE  /\ OneMore(f, <<key, t, r>>) \in Histories
         /\ OneMore(f, <<key, t, r>>)[<<key, t, r>>] = f[<<key, t, r>>] + 1
         /\ \A x \in Keys \X Times \X Rates :
              x # <<key, t, r>> => OneMore(f, <<key, t, r>>)[x] = f[x]
<1>1. <<key, t, r>> \in Keys \X Times \X Rates /\ f[<<key, t, r>>] \in Nat
  BY DEF Histories
<1> QED
  BY <1>1 DEF Histories, OneMore

LEMMA InOnce ==
  ASSUME NEW f \in Histories, NEW key \in Keys, NEW t \in Times, NEW r \in Rates,
         NEW k \in Keys, NEW times \in SUBSET Times, NEW rates \in SUBSET Rates
  PROVE  In(OneMore(f, <<key, t, r>>), k, times, rates) =
           IF k = key /\ t \in times /\ r \in rates THEN In(f, k, times, rates) + 1
                                                    ELSE In(f, k, times, rates)
<1> DEFINE S == {k} \X times \X rates
           g == OneMore(f, <<key, t, r>>)
<1>1. IsFiniteSet(S) /\ \A x \in S : f[x] \in Nat
  BY InCells
<1>2. S \subseteq Keys \X Times \X Rates
  OBVIOUS
<1>3. g[<<key, t, r>>] = f[<<key, t, r>>] + 1 /\ \A x \in S : x # <<key, t, r>> => g[x] = f[x]
  BY <1>2, OnceMore
<1>4. <<key, t, r>> \in S <=> k = key /\ t \in times /\ r \in rates
  OBVIOUS
<1> HIDE DEF S, g
<1>5. SumFunctionOnSet(g, S) = IF <<key, t, r>> \in S THEN SumFunctionOnSet(f, S) + 1
                                                     ELSE SumFunctionOnSet(f, S)
  BY <1>1, <1>3, SumGrows
<1> QED
  BY <1>4, <1>5 DEF In, S, g

LEMMA AllOnce ==
  ASSUME NEW f \in Histories, NEW key \in Keys, NEW t \in Times, NEW r \in Rates
  PROVE  SumFunctionOnSet(OneMore(f, <<key, t, r>>), Keys \X Times \X Rates)
           = SumFunctionOnSet(f, Keys \X Times \X Rates) + 1
<1> DEFINE S == Keys \X Times \X Rates
           g == OneMore(f, <<key, t, r>>)
<1>1. IsFiniteSet(S) /\ (\A x \in S : f[x] \in Nat) /\ <<key, t, r>> \in S
  BY CellsFinite DEF Histories
<1>2. g[<<key, t, r>>] = f[<<key, t, r>>] + 1 /\ \A x \in S : x # <<key, t, r>> => g[x] = f[x]
  BY OnceMore
<1> HIDE DEF S, g
<1>3. SumFunctionOnSet(g, S) = SumFunctionOnSet(f, S) + 1
  BY <1>1, <1>2, SumGrows
<1> QED
  BY <1>3 DEF S, g

-----------------------------------------------------------------------------
(* The limiter: its buckets and what was granted. *)

\* The rates whose limit is no more than this one's.
Under(rate) == {r \in Rates : r.max <= rate.max}

\* No request of a brought a shorter window in the stretch, BudgetKept's condition.
Quiet(a, rate, first) ==
    \A key \in Keys, r \in Rates, t \in Stretch(first, rate.window) :
        a[<<key, t, r>>] > 0 => r.window >= rate.window

\* What a key was let in during a stretch, before and in the bucket it has.
Owed(g, time, buckets, key, rate, first) ==
    LET grants == In(g, key, Stretch(first, rate.window), Under(rate))
    IN  /\ grants <= 2 * rate.max - 1
        /\ time < first + rate.window =>
             \/ /\ key \in DOMAIN buckets /\ buckets[key].start >= first
                /\ grants <= rate.max - 1 + buckets[key].count
             \/ /\ grants <= rate.max - 1
                /\ key \in DOMAIN buckets =>
                     buckets[key].start < first /\ grants <= buckets[key].count - 1

NothingAhead(f, time) ==
    \A key \in Keys, t \in Times, r \in Rates : t > time => f[<<key, t, r>>] = 0

\* Tables of buckets begun so far.
Buckets(buckets, time) ==
    /\ DOMAIN buckets \subseteq Keys
    /\ \A k \in DOMAIN buckets :
         /\ buckets[k].start \in Nat /\ buckets[k].start <= time
         /\ buckets[k].count \in Nat /\ buckets[k].count >= 1

LEMMA GrantsNat ==
  ASSUME NEW g \in Histories, NEW key \in Keys, NEW rate \in Rates, NEW first \in Times
  PROVE  /\ In(g, key, Stretch(first, rate.window), Under(rate)) \in Nat
         /\ Stretch(first, rate.window) \in SUBSET Times /\ Under(rate) \in SUBSET Rates
         /\ rate.max \in Nat /\ rate.max >= 1 /\ rate.window \in Nat /\ rate.window >= 1
         /\ first \in Nat
<1>1. Stretch(first, rate.window) \in SUBSET Times /\ Under(rate) \in SUBSET Rates
  BY DEF Stretch, Under
<1> QED
  BY <1>1, InNat, LimiterFacts, TimesFinite

\* The clock moves on; a stretch begins.
LEMMA OwedTicks ==
  ASSUME NEW g \in Histories, NEW time \in Nat, NEW buckets, NEW key \in Keys, NEW rate \in Rates,
         NEW first \in Times, Owed(g, time, buckets, key, rate, first)
  PROVE  Owed(g, time + 1, buckets, key, rate, first)
<1>1. time + 1 < first + rate.window => time < first + rate.window
  BY GrantsNat
<1> QED
  BY <1>1 DEF Owed

LEMMA OwedStarts ==
  ASSUME NEW g \in Histories, NEW time \in Nat, NothingAhead(g, time),
         NEW buckets, Buckets(buckets, time), NEW key \in Keys, NEW rate \in Rates,
         NEW first \in Times, first = time + 1
  PROVE  Owed(g, first, buckets, key, rate, first)
<1>1. \A t \in Stretch(first, rate.window), r \in Rates : t \in Times /\ t > time
  BY TimesFinite DEF Stretch
<1>2. In(g, key, Stretch(first, rate.window), Under(rate)) = 0
  BY <1>1, GrantsNat, InZero DEF NothingAhead
<1>3. rate.max \in Nat /\ rate.max >= 1
  BY GrantsNat
<1>4. key \in DOMAIN buckets => buckets[key].start < first /\ 0 <= buckets[key].count - 1
  BY DEF Buckets
<1>5. 0 <= 2 * rate.max - 1 /\ 0 <= rate.max - 1
  BY <1>3
<1> QED
  BY <1>2, <1>4, <1>5 DEF Owed

\* Of the buckets that a clean-up removes, none was begun in a stretch that is still open.
LEMMA OwedCleaned ==
  ASSUME NEW g \in Histories, NEW time \in Nat, NEW buckets, Buckets(buckets, time), NEW window \in Nat,
         NEW left, DOMAIN left \subseteq DOMAIN buckets,
         \A k \in DOMAIN left : left[k] = buckets[k],
         \A k \in DOMAIN buckets : k \notin DOMAIN left => time - buckets[k].start >= window,
         NEW key \in Keys, NEW rate \in Rates, NEW first \in Times,
         time < first + rate.window => window >= rate.window,
         Owed(g, time, buckets, key, rate, first)
  PROVE  Owed(g, time, left, key, rate, first)
<1>1. CASE key \in DOMAIN left \/ key \notin DOMAIN buckets
  BY <1>1 DEF Owed
<1>2. CASE key \notin DOMAIN left /\ key \in DOMAIN buckets
  <2>1. time < first + rate.window => buckets[key].start < first
    BY <1>2, GrantsNat DEF Buckets
  <2>2. buckets[key].start < first => ~(buckets[key].start >= first)
    BY <1>2, GrantsNat DEF Buckets
  <2> QED
    BY <1>2, <2>1, <2>2 DEF Owed
<1> QED
  BY <1>1, <1>2

\* A request is counted, in a new bucket or in one that its window has not passed, and let in
\* only when the count is within its limit.
LEMMA OwedCounted ==
  ASSUME NEW g \in Histories, NEW time \in Times, NEW buckets, Buckets(buckets, time),
         NEW asker \in Keys, NEW r \in Rates, NEW b, NEW counted,
         \/ /\ asker \in DOMAIN buckets /\ time - buckets[asker].start < r.window
            /\ b.start = buckets[asker].start /\ b.count = buckets[asker].count + 1
         \/ /\ asker \in DOMAIN buckets => time - buckets[asker].start >= r.window
            /\ b.start = time /\ b.count = 1,
         DOMAIN counted = DOMAIN buckets \cup {asker}, counted[asker] = b,
         \A k \in DOMAIN buckets : k # asker => counted[k] = buckets[k],
         NEW h, h = g \/ (b.count <= r.max /\ h = OneMore(g, <<asker, time, r>>)),
         NEW key \in Keys, NEW rate \in Rates, NEW first \in Times, first <= time,
         time < first + rate.window => r.window >= rate.window,
         Owed(g, time, buckets, key, rate, first)
  PROVE  Owed(h, time, counted, key, rate, first)
<1> DEFINE old == In(g, key, Stretch(first, rate.window), Under(rate))
           new == In(h, key, Stretch(first, rate.window), Under(rate))
<1>1. /\ old \in Nat /\ time \in Nat /\ first \in Nat
      /\ rate.max \in Nat /\ rate.max >= 1 /\ rate.window \in Nat
      /\ r.max \in Nat /\ r.window \in Nat
  BY GrantsNat, TimesFinite, LimiterFacts
<1>2. \/ new = old
      \/ /\ new = old + 1 /\ key = asker /\ time < first + rate.window
         /\ r.max <= rate.max /\ b.count <= r.max
  <2>1. CASE h = g
    BY <2>1
  <2>2. CASE h = OneMore(g, <<asker, time, r>>) /\ b.count <= r.max
    <3>1. new = IF key = asker /\ time \in Stretch(first, rate.window) /\ r \in Under(rate)
                THEN old + 1 ELSE old
      BY <2>2, GrantsNat, InOnce
    <3> QED
      BY <2>2, <3>1 DEF Stretch, Under
  <2> QED
    BY <2>1, <2>2
<1>3. /\ old <= 2 * rate.max - 1
      /\ time < first + rate.window =>
           \/ /\ key \in DOMAIN buckets /\ buckets[key].start >= first
              /\ old <= rate.max - 1 + buckets[key].count
           \/ /\ old <= rate.max - 1
              /\ key \in DOMAIN buckets =>
                   buckets[key].start < first /\ old <= buckets[key].count - 1
  BY DEF Owed
<1> HIDE DEF old, new
<1>4. CASE key # asker
  <2>1. new = old /\ (key \in DOMAIN counted <=> key \in DOMAIN buckets)
        /\ (key \in DOMAIN buckets => counted[key] = buckets[key])
    BY <1>2, <1>4
  <2> QED
    BY <1>3, <2>1 DEF Owed, new
<1>5. CASE key = asker /\ ~(time < first + rate.window)
  BY <1>2, <1>3, <1>5 DEF Owed, new
<1>6. CASE key = asker /\ time < first + rate.window
  <2>1. key \in DOMAIN counted /\ counted[key] = b /\ r.window >= rate.window
    BY <1>6
  <2>2. key \in DOMAIN buckets =>
          /\ buckets[key].start \in Nat /\ buckets[key].start <= time
          /\ buckets[key].count \in Nat /\ buckets[key].count >= 1
    BY DEF Buckets
  <2>3. CASE key \in DOMAIN buckets /\ buckets[key].start >= first
    <3>1. time - buckets[key].start < r.window
      BY <1>1, <1>6, <2>1, <2>2, <2>3
    <3>2. b.start = buckets[key].start /\ b.count = buckets[key].count + 1
      BY <1>1, <1>6, <2>2, <2>3, <3>1
    <3>3. old <= rate.max - 1 + buckets[key].count
      BY <1>1, <1>3, <1>6, <2>2, <2>3
    <3>4. new <= rate.max - 1 + b.count /\ new <= 2 * rate.max - 1
      BY <1>1, <1>2, <1>3, <2>2, <2>3, <3>2, <3>3
    <3> QED
      BY <2>1, <2>3, <3>2, <3>4 DEF Owed, new
  <2>4. CASE key \in DOMAIN buckets /\ buckets[key].start < first
    <3>1. old <= rate.max - 1 /\ old <= buckets[key].count - 1
      BY <1>1, <1>3, <1>6, <2>2, <2>4
    <3>2. CASE b.start = buckets[key].start /\ b.count = buckets[key].count + 1
      <4>1. new <= rate.max - 1 /\ new <= b.count - 1 /\ new <= 2 * rate.max - 1
        BY <1>1, <1>2, <2>2, <2>4, <3>1, <3>2
      <4> QED
        BY <2>1, <2>4, <3>2, <4>1 DEF Owed, new
    <3>3. CASE b.start = time /\ b.count = 1
      <4>1. new <= rate.max - 1 + b.count /\ new <= 2 * rate.max - 1
        BY <1>1, <1>2, <3>1, <3>3
      <4>2. b.start >= first
        BY <1>1, <3>3
      <4> QED
        BY <2>1, <4>1, <4>2 DEF Owed, new
    <3> QED
      BY <1>6, <3>2, <3>3
  <2>5. CASE key \notin DOMAIN buckets
    <3>1. b.start = time /\ b.count = 1 /\ old <= rate.max - 1
      BY <1>3, <1>6, <2>5
    <3>2. new <= rate.max - 1 + b.count /\ new <= 2 * rate.max - 1
      BY <1>1, <1>2, <3>1
    <3>3. b.start >= first
      BY <1>1, <3>1
    <3> QED
      BY <2>1, <3>2, <3>3 DEF Owed, new
  <2> QED
    BY <1>1, <2>2, <2>3, <2>4, <2>5
<1> QED
  BY <1>4, <1>5, <1>6

LEMMA QuietBefore ==
  ASSUME NEW a \in Histories, NEW asker \in Keys, NEW time \in Times, NEW r \in Rates,
         NEW rate \in Rates, NEW first \in Times, first <= time,
         Quiet(OneMore(a, <<asker, time, r>>), rate, first)
  PROVE  /\ Quiet(a, rate, first)
         /\ time < first + rate.window => r.window >= rate.window
<1> DEFINE b == OneMore(a, <<asker, time, r>>)
<1>1. \A x \in Keys \X Times \X Rates : a[x] \in Nat
  BY DEF Histories
<1>2. \A x \in Keys \X Times \X Rates : a[x] > 0 => b[x] > 0
  BY <1>1, OnceMore
<1>3. b[<<asker, time, r>>] > 0
  BY <1>1, OnceMore
<1> HIDE DEF b
<1>4. \A key \in Keys, q \in Rates, t \in Stretch(first, rate.window) :
        b[<<key, t, q>>] > 0 => q.window >= rate.window
  BY DEF Quiet, b
<1>5. \A t \in Stretch(first, rate.window) : t \in Times
  BY DEF Stretch
<1>6. Quiet(a, rate, first)
  BY <1>2, <1>4, <1>5 DEF Quiet
<1>7. time < first + rate.window => time \in Stretch(first, rate.window)
  BY DEF Stretch
<1> QED
  BY <1>3, <1>4, <1>6, <1>7

\* What the last clean-up left: no bucket begun before it, or none that was as old as a window
\* brought at that time.
Swept(a, table) ==
    \/ \A k \in DOMAIN table.buckets : table.buckets[k].start >= table.lastCleanup
    \/ \E r \in Rates :
         /\ \E key \in Keys : a[<<key, table.lastCleanup, r>>] > 0
         /\ \A k \in DOMAIN table.buckets :
              table.lastCleanup - table.buckets[k].start < r.window

\* A bucket counts no more than its key asked since it was begun.
Asked(a, buckets, time) ==
    \A k \in DOMAIN buckets : buckets[k].count <= In(a, k, buckets[k].start..time, Rates)

LimiterInv ==
    /\ LimiterTypeOK /\ TotalAsked <= MaxAsked
    /\ limiter = [buckets |-> limiter.buckets, lastCleanup |-> limiter.lastCleanup]
    /\ NothingAhead(asked, now) /\ NothingAhead(granted, now)
    /\ Asked(asked, limiter.buckets, now)
    /\ Swept(asked, limiter)
    /\ \A key \in Keys, rate \in Rates, first \in 0..now :
         Quiet(asked, rate, first) => Owed(granted, now, limiter.buckets, key, rate, first)

LEMMA LimiterTypes ==
  ASSUME LimiterTypeOK
  PROVE  /\ now \in Times /\ now \in Nat /\ now <= MaxTime /\ 0..now \in SUBSET Times
         /\ asked \in Histories /\ granted \in Histories
         /\ limiter.lastCleanup \in Times /\ limiter.lastCleanup \in Nat /\ limiter.lastCleanup <= now
         /\ Buckets(limiter.buckets, now) /\ DOMAIN limiter.buckets \subseteq Keys
         /\ \A i \in Nat : i..now \in SUBSET Times
<1>1. now \in 0..MaxTime /\ MaxTime \in Nat /\ limiter.lastCleanup \in 0..now
  BY LimiterFacts DEF LimiterTypeOK, Times
<1>2. asked \in Histories /\ granted \in Histories
  BY DEF LimiterTypeOK, Histories
<1>3. Buckets(limiter.buckets, now)
  <2>1. ASSUME NEW k \in DOMAIN limiter.buckets
        PROVE  /\ limiter.buckets[k].start \in Nat /\ limiter.buckets[k].start <= now
               /\ limiter.buckets[k].count \in Nat /\ limiter.buckets[k].count >= 1
    <3>1. limiter.buckets[k].start \in 0..now /\ limiter.buckets[k].count \in 1..MaxAsked
      BY DEF LimiterTypeOK
    <3> QED
      BY <1>1, <3>1, LimiterFacts
  <2> QED
    BY <2>1 DEF Buckets, LimiterTypeOK
<1>4. /\ now \in Nat /\ now <= MaxTime /\ 0..now \in SUBSET (0..MaxTime)
      /\ limiter.lastCleanup \in 0..MaxTime /\ limiter.lastCleanup \in Nat /\ limiter.lastCleanup <= now
      /\ \A i \in Nat : i..now \in SUBSET (0..MaxTime)
  BY <1>1
<1> QED
  BY <1>1, <1>2, <1>3, <1>4 DEF Times, Buckets

LEMMA CleanedFacts ==
  ASSUME LimiterInv, NEW rate \in Rates, NEW C, C = Cleaned(rate.window)
  PROVE  /\ C = [buckets |-> C.buckets, lastCleanup |-> C.lastCleanup]
         /\ DOMAIN C.buckets \subseteq DOMAIN limiter.buckets
         /\ \A k \in DOMAIN C.buckets : C.buckets[k] = limiter.buckets[k]
         /\ \A k \in DOMAIN limiter.buckets :
              k \notin DOMAIN C.buckets => now - limiter.buckets[k].start >= rate.window
         /\ \/ /\ now - limiter.lastCleanup < Interval(rate.window) /\ C = limiter
            \/ /\ C.lastCleanup = now
               /\ \A k \in DOMAIN C.buckets : now - limiter.buckets[k].start < rate.window
<1>1. /\ Buckets(limiter.buckets, now) /\ now \in Nat /\ limiter.lastCleanup \in Nat
      /\ rate.window \in Nat /\ Interval(rate.window) \in Nat
  BY LimiterTypes, LimiterFacts DEF LimiterInv
<1>2. CASE now - limiter.lastCleanup >= Interval(rate.window)
  <2> DEFINE K == {k \in DOMAIN limiter.buckets : ~Expired(limiter.buckets[k], rate.window)}
  <2>1. C = [buckets |-> [k \in K |-> limiter.buckets[k]], lastCleanup |-> now]
    BY <1>2 DEF Cleaned, Restrict
  <2>2. DOMAIN C.buckets = K /\ \A k \in K : C.buckets[k] = limiter.buckets[k]
    BY <2>1
  <2>3. \A k \in K : now - limiter.buckets[k].start < rate.window
    BY <1>1 DEF Expired, Buckets
  <2>4. \A k \in DOMAIN limiter.buckets : k \notin K => now - limiter.buckets[k].start >= rate.window
    BY DEF Expired
  <2> QED
    BY <2>1, <2>2, <2>3, <2>4
<1>3. CASE ~(now - limiter.lastCleanup >= Interval(rate.window))
  <2>1. C = limiter
    BY <1>3 DEF Cleaned
  <2>2. now - limiter.lastCleanup < Interval(rate.window)
    BY <1>1, <1>3
  <2> QED
    BY <2>1, <2>2 DEF LimiterInv
<1> QED
  BY <1>2, <1>3

\* What a request leaves as it was, before it is counted.
LEMMA AllowKeeps ==
  ASSUME LimiterInv, TotalAsked < MaxAsked, NEW key \in Keys, NEW rate \in Rates,
         NEW a, a = OneMore(asked, <<key, now, rate>>), NEW C, C = Cleaned(rate.window)
  PROVE  /\ a \in Histories /\ NothingAhead(a, now)
         /\ SumFunctionOnSet(a, Keys \X Times \X Rates) = TotalAsked + 1
         /\ SumFunctionOnSet(a, Keys \X Times \X Rates) \in Nat
         /\ SumFunctionOnSet(a, Keys \X Times \X Rates) <= MaxAsked
         /\ Buckets(C.buckets, now) /\ Cardinality(DOMAIN C.buckets) <= MaxEntries
         /\ C.lastCleanup \in 0..now
         /\ \A k \in DOMAIN C.buckets : C.buckets[k] \in [start : 0..now, count : 1..MaxAsked]
         /\ Asked(a, C.buckets, now) /\ Swept(a, C)
         /\ \A k \in Keys, r \in Rates, first \in 0..now : Quiet(a, r, first) =>
              /\ now < first + r.window => rate.window >= r.window
              /\ Owed(granted, now, C.buckets, k, r, first)
<1>1. /\ LimiterTypeOK /\ now \in Times /\ now \in Nat /\ asked \in Histories /\ granted \in Histories
      /\ limiter.lastCleanup \in Nat /\ limiter.lastCleanup <= now
      /\ Buckets(limiter.buckets, now) /\ DOMAIN limiter.buckets \subseteq Keys
      /\ 0..now \in SUBSET Times
      /\ rate.window \in Nat /\ rate.window >= 1
  BY LimiterTypes, LimiterFacts DEF LimiterInv
<1>2. /\ a \in Histories /\ a[<<key, now, rate>>] = asked[<<key, now, rate>>] + 1
      /\ \A x \in Keys \X Times \X Rates : x # <<key, now, rate>> => a[x] = asked[x]
  BY <1>1, OnceMore
<1>3. NothingAhead(a, now)
  <2>1. ASSUME NEW k \in Keys, NEW t \in Times, NEW r \in Rates, t > now
        PROVE  a[<<k, t, r>>] = 0
    <3>1. t # now
      BY <1>1, <2>1, TimesFinite
    <3>2. asked[<<k, t, r>>] = 0
      BY <2>1 DEF LimiterInv, NothingAhead
    <3> QED
      BY <1>2, <3>1, <3>2
  <2> QED
    BY <2>1 DEF NothingAhead
<1>4. /\ SumFunctionOnSet(a, Keys \X Times \X Rates) = TotalAsked + 1
      /\ SumFunctionOnSet(a, Keys \X Times \X Rates) \in Nat
      /\ SumFunctionOnSet(a, Keys \X Times \X Rates) <= MaxAsked
  <2>1. SumFunctionOnSet(a, Keys \X Times \X Rates) = TotalAsked + 1 /\ TotalAsked \in Nat
    BY <1>1, AllOnce, InAll DEF TotalAsked
  <2> QED
    BY <2>1, LimiterFacts
<1>5. /\ DOMAIN C.buckets \subseteq DOMAIN limiter.buckets
      /\ \A k \in DOMAIN C.buckets : C.buckets[k] = limiter.buckets[k]
      /\ \A k \in DOMAIN limiter.buckets :
           k \notin DOMAIN C.buckets => now - limiter.buckets[k].start >= rate.window
      /\ \/ C = limiter
         \/ /\ C.lastCleanup = now
            /\ \A k \in DOMAIN C.buckets : now - limiter.buckets[k].start < rate.window
  BY CleanedFacts
<1>6. Buckets(C.buckets, now)
  BY <1>1, <1>5 DEF Buckets
<1>7. Cardinality(DOMAIN C.buckets) <= MaxEntries
  <2>1. IsFiniteSet(DOMAIN limiter.buckets) /\ Cardinality(DOMAIN limiter.buckets) <= MaxEntries
    BY <1>1, LimiterFacts, FS_Subset DEF LimiterTypeOK
  <2>2. Cardinality(DOMAIN C.buckets) <= Cardinality(DOMAIN limiter.buckets)
        /\ Cardinality(DOMAIN C.buckets) \in Nat /\ Cardinality(DOMAIN limiter.buckets) \in Nat
    BY <1>5, <2>1, FS_Subset, FS_CardinalityType
  <2> QED
    BY <2>1, <2>2, LimiterFacts
<1>8. C.lastCleanup \in 0..now
      /\ \A k \in DOMAIN C.buckets : C.buckets[k] \in [start : 0..now, count : 1..MaxAsked]
  BY <1>1, <1>5 DEF LimiterTypeOK
<1>9. Asked(a, C.buckets, now)
  <2>1. ASSUME NEW k \in DOMAIN C.buckets
        PROVE  C.buckets[k].count <= In(a, k, C.buckets[k].start..now, Rates)
    <3> DEFINE P == C.buckets[k].start..now
    <3>1. k \in Keys /\ C.buckets[k].start \in Nat /\ C.buckets[k].count \in Nat
      BY <1>1, <1>5, <1>6 DEF Buckets
    <3>2. P \in SUBSET Times
      BY <1>1, <3>1, LimiterTypes
    <3>3. C.buckets[k].count <= In(asked, k, P, Rates)
      BY <1>5 DEF LimiterInv, Asked
    <3> HIDE DEF P
    <3>4. In(a, k, P, Rates) = In(asked, k, P, Rates) \/ In(a, k, P, Rates) = In(asked, k, P, Rates) + 1
      BY <1>1, <3>1, <3>2, InOnce
    <3>5. In(asked, k, P, Rates) \in Nat
      BY <1>1, <3>1, <3>2, InNat
    <3>6. C.buckets[k].count <= In(a, k, P, Rates)
      BY <3>1, <3>3, <3>4, <3>5
    <3> QED
      BY <3>6 DEF P
  <2> QED
    BY <2>1 DEF Asked
<1>10. Swept(a, C)
  <2>1. \A x \in Keys \X Times \X Rates : asked[x] \in Nat /\ (asked[x] > 0 => a[x] > 0)
    <3>1. \A x \in Keys \X Times \X Rates : asked[x] \in Nat
      BY <1>1 DEF Histories
    <3>2. ASSUME NEW x \in Keys \X Times \X Rates, asked[x] > 0 PROVE a[x] > 0
      <4>1. a[x] = asked[x] \/ a[x] = asked[x] + 1
        BY <1>2
      <4> QED
        BY <3>1, <3>2, <4>1
    <3> QED
      BY <3>1, <3>2
  <2>2. CASE C = limiter
    <3>1. CASE \A k \in DOMAIN limiter.buckets : limiter.buckets[k].start >= limiter.lastCleanup
      BY <2>2, <3>1 DEF Swept
    <3>2. CASE \E r \in Rates :
                 /\ \E j \in Keys : asked[<<j, limiter.lastCleanup, r>>] > 0
                 /\ \A k \in DOMAIN limiter.buckets :
                      limiter.lastCleanup - limiter.buckets[k].start < r.window
      <4>1. limiter.lastCleanup \in Times
        BY <1>1, LimiterTypes
      <4> QED
        BY <2>1, <2>2, <3>2, <4>1 DEF Swept
    <3> QED
      BY <3>1, <3>2 DEF LimiterInv, Swept
  <2>3. CASE C.lastCleanup = now
             /\ \A k \in DOMAIN C.buckets : now - limiter.buckets[k].start < rate.window
    <3>1. a[<<key, now, rate>>] > 0
      BY <1>1, <1>2, <2>1
    <3> QED
      BY <1>5, <2>3, <3>1 DEF Swept
  <2> QED
    BY <1>5, <2>2, <2>3
<1>11. ASSUME NEW k \in Keys, NEW r \in Rates, NEW first \in 0..now, Quiet(a, r, first)
       PROVE  /\ now < first + r.window => rate.window >= r.window
              /\ Owed(granted, now, C.buckets, k, r, first)
  <2>1. first \in Times /\ first <= now
    BY <1>1
  <2>2. Quiet(asked, r, first) /\ (now < first + r.window => rate.window >= r.window)
    BY <1>1, <1>11, <2>1, QuietBefore
  <2>3. Owed(granted, now, limiter.buckets, k, r, first)
    BY <2>2 DEF LimiterInv
  <2> QED
    BY <1>1, <1>5, <2>1, <2>2, <2>3, OwedCleaned
<1> QED
  BY <1>2, <1>3, <1>4, <1>6, <1>7, <1>8, <1>9, <1>10, <1>11

\* The clock.
LEMMA LimiterTicks == LimiterInv /\ Tick => LimiterInv'
<1> SUFFICES ASSUME LimiterInv, Tick PROVE LimiterInv'
  OBVIOUS
<1>1. /\ now' = now + 1 /\ now + 1 \in Times /\ limiter' = limiter
      /\ asked' = asked /\ granted' = granted /\ TotalAsked' = TotalAsked
  <2>1. now < MaxTime /\ now \in Nat /\ MaxTime \in Nat
    BY LimiterTypes, LimiterFacts DEF Tick, LimiterInv
  <2>2. now + 1 \in 0..MaxTime
    BY <2>1
  <2> QED
    BY <2>2 DEF Tick, TotalAsked, Times
<1>2. /\ LimiterTypeOK /\ now \in Times /\ now \in Nat /\ asked \in Histories /\ granted \in Histories
      /\ Buckets(limiter.buckets, now) /\ DOMAIN limiter.buckets \subseteq Keys
      /\ \A i \in Nat : i..now \in SUBSET Times
  BY LimiterTypes DEF LimiterInv
<1>3. LimiterTypeOK'
  <2>1. limiter.lastCleanup \in 0..(now + 1)
    BY <1>2, LimiterTypes
  <2>2. \A k \in DOMAIN limiter.buckets :
          limiter.buckets[k] \in [start : 0..(now + 1), count : 1..MaxAsked]
    BY <1>2 DEF LimiterTypeOK
  <2> QED
    BY <1>1, <1>2, <2>1, <2>2 DEF LimiterTypeOK
<1>4. NothingAhead(asked, now + 1) /\ NothingAhead(granted, now + 1)
  <2>1. \A t \in Times : t > now + 1 => t > now
    BY <1>2, TimesFinite
  <2> QED
    BY <2>1 DEF LimiterInv, NothingAhead
<1>5. Asked(asked, limiter.buckets, now + 1)
  <2>1. ASSUME NEW k \in DOMAIN limiter.buckets
        PROVE  limiter.buckets[k].count <= In(asked, k, limiter.buckets[k].start..(now + 1), Rates)
    <3> DEFINE P == limiter.buckets[k].start..now
               Q == limiter.buckets[k].start..(now + 1)
    <3>1. k \in Keys /\ limiter.buckets[k].start \in Nat /\ limiter.buckets[k].count \in Nat
      BY <1>2 DEF Buckets
    <3>2. Q \in SUBSET Times /\ P \in SUBSET Q
      <4>1. now + 1 \in 0..MaxTime /\ MaxTime \in Nat
        BY <1>1, LimiterFacts DEF Times
      <4> QED
        BY <1>2, <3>1, <4>1 DEF Times
    <3>3. limiter.buckets[k].count <= In(asked, k, P, Rates)
      BY DEF LimiterInv, Asked
    <3> HIDE DEF P, Q
    <3>4. In(asked, k, P, Rates) <= In(asked, k, Q, Rates)
      BY <1>2, <3>1, <3>2, InMore
    <3>5. In(asked, k, P, Rates) \in Nat /\ In(asked, k, Q, Rates) \in Nat
      BY <1>2, <3>1, <3>2, InNat
    <3>6. limiter.buckets[k].count <= In(asked, k, Q, Rates)
      BY <3>1, <3>3, <3>4, <3>5
    <3> QED
      BY <3>6 DEF Q
  <2> QED
    BY <2>1 DEF Asked
<1>6. ASSUME NEW key \in Keys, NEW rate \in Rates, NEW first \in 0..(now + 1),
             Quiet(asked, rate, first)
      PROVE  Owed(granted, now + 1, limiter.buckets, key, rate, first)
  <2>1. CASE first \in 0..now
    <3>1. Owed(granted, now, limiter.buckets, key, rate, first)
      BY <1>6, <2>1 DEF LimiterInv
    <3>2. first \in Times
      BY <1>2, <2>1
    <3> QED
      BY <1>2, <3>1, <3>2, OwedTicks
  <2>2. CASE first = now + 1
    <3>1. Owed(granted, first, limiter.buckets, key, rate, first)
      BY <1>1, <1>2, <2>2, OwedStarts DEF LimiterInv
    <3> QED
      BY <2>2, <3>1
  <2> QED
    BY <1>2, <2>1, <2>2
<1> QED
  BY <1>1, <1>3, <1>4, <1>5, <1>6 DEF LimiterInv

\* A request that finds no room.
LEMMA LimiterRefuses ==
  ASSUME LimiterInv, TotalAsked < MaxAsked, NEW key \in Keys, NEW rate \in Rates,
         Refuse(key, rate.window), now' = now, asked' = OneMore(asked, <<key, now, rate>>)
  PROVE  LimiterInv'
<1> DEFINE C == Cleaned(rate.window)
<1>1. limiter' = C /\ granted' = granted
  BY DEF Refuse
<1>2. /\ C = [buckets |-> C.buckets, lastCleanup |-> C.lastCleanup]
      /\ DOMAIN C.buckets \subseteq DOMAIN limiter.buckets
  BY CleanedFacts
<1> HIDE DEF C
<1>3. /\ asked' \in Histories /\ NothingAhead(asked', now)
      /\ SumFunctionOnSet(asked', Keys \X Times \X Rates) <= MaxAsked
      /\ Cardinality(DOMAIN C.buckets) <= MaxEntries
      /\ C.lastCleanup \in 0..now
      /\ \A k \in DOMAIN C.buckets : C.buckets[k] \in [start : 0..now, count : 1..MaxAsked]
      /\ Asked(asked', C.buckets, now) /\ Swept(asked', C)
      /\ \A k \in Keys, r \in Rates, first \in 0..now :
           Quiet(asked', r, first) => Owed(granted, now, C.buckets, k, r, first)
  BY AllowKeeps DEF C
<1>4. LimiterTypeOK'
  BY <1>1, <1>2, <1>3 DEF LimiterInv, LimiterTypeOK, Histories
<1>5. NothingAhead(granted, now)
  BY DEF LimiterInv
<1> QED
  BY <1>1, <1>2, <1>3, <1>4, <1>5 DEF LimiterInv, TotalAsked

\* The bucket in which a request is counted.
LEMMA CountedFacts ==
  ASSUME LimiterInv, TotalAsked < MaxAsked, NEW key \in Keys, NEW rate \in Rates,
         NEW a, a = OneMore(asked, <<key, now, rate>>), NEW C, C = Cleaned(rate.window),
         NEW b, b = Counted(key, rate.window)
  PROVE  /\ \/ /\ key \in DOMAIN C.buckets /\ now - C.buckets[key].start < rate.window
               /\ b.start = C.buckets[key].start /\ b.count = C.buckets[key].count + 1
            \/ /\ key \in DOMAIN C.buckets => now - C.buckets[key].start >= rate.window
               /\ b.start = now /\ b.count = 1
         /\ b \in [start : 0..now, count : 1..MaxAsked]
         /\ b.count <= In(a, key, b.start..now, Rates)
<1>1. /\ now \in Times /\ now \in Nat /\ asked \in Histories /\ DOMAIN limiter.buckets \subseteq Keys
      /\ \A i \in Nat : i..now \in SUBSET Times
      /\ rate.window \in Nat /\ rate.window >= 1
  BY LimiterTypes, LimiterFacts DEF LimiterInv
<1>2. /\ a \in Histories /\ Buckets(C.buckets, now)
      /\ \A k \in DOMAIN C.buckets : C.buckets[k] \in [start : 0..now, count : 1..MaxAsked]
      /\ SumFunctionOnSet(a, Keys \X Times \X Rates) \in Nat
      /\ SumFunctionOnSet(a, Keys \X Times \X Rates) <= MaxAsked
  BY AllowKeeps
<1>3. /\ DOMAIN C.buckets \subseteq DOMAIN limiter.buckets
      /\ \A k \in DOMAIN C.buckets : C.buckets[k] = limiter.buckets[k]
  BY CleanedFacts
<1>4. ASSUME NEW i \in Nat, i <= now
      PROVE  /\ In(a, key, i..now, Rates) = In(asked, key, i..now, Rates) + 1
             /\ In(asked, key, i..now, Rates) \in Nat
             /\ In(a, key, i..now, Rates) <= MaxAsked
  <2> DEFINE P == i..now
  <2>1. P \in SUBSET Times /\ now \in P
    BY <1>1, <1>4
  <2> HIDE DEF P
  <2>2. In(a, key, P, Rates) = In(asked, key, P, Rates) + 1
    BY <1>1, <2>1, InOnce
  <2>3. In(asked, key, P, Rates) \in Nat
    BY <1>1, <2>1, InNat
  <2>4. In(a, key, P, Rates) <= SumFunctionOnSet(a, Keys \X Times \X Rates)
    BY <1>2, <2>1, InAll
  <2>5. In(a, key, P, Rates) <= MaxAsked
    BY <1>2, <2>2, <2>3, <2>4, LimiterFacts
  <2> QED
    BY <2>2, <2>3, <2>5 DEF P
<1>5. CASE key \in DOMAIN C.buckets /\ ~Expired(C.buckets[key], rate.window)
  <2>1. b = [C.buckets[key] EXCEPT !.count = @ + 1]
    BY <1>5 DEF Counted
  <2>2. /\ C.buckets[key] \in [start : 0..now, count : 1..MaxAsked]
        /\ C.buckets[key].start \in Nat /\ C.buckets[key].start <= now
        /\ C.buckets[key].count \in Nat /\ C.buckets[key].count >= 1
    BY <1>2, <1>5 DEF Buckets
  <2>3. /\ now - C.buckets[key].start < rate.window
        /\ b.start = C.buckets[key].start /\ b.count = C.buckets[key].count + 1
    BY <1>1, <1>5, <2>1, <2>2 DEF Expired
  <2>4. C.buckets[key].count <= In(asked, key, C.buckets[key].start..now, Rates)
    BY <1>3, <1>5 DEF LimiterInv, Asked
  <2>5. b.count <= In(a, key, b.start..now, Rates) /\ b.count <= MaxAsked /\ b.count \in Nat
    <3> DEFINE new == In(a, key, b.start..now, Rates)
               old == In(asked, key, b.start..now, Rates)
    <3>1. new = old + 1 /\ old \in Nat /\ new <= MaxAsked /\ C.buckets[key].count <= old
      BY <1>4, <2>2, <2>3, <2>4
    <3> HIDE DEF new, old
    <3>2. b.count <= new /\ b.count <= MaxAsked /\ b.count \in Nat
      BY <2>2, <2>3, <3>1, LimiterFacts
    <3> QED
      BY <3>2 DEF new
  <2>6. b \in [start : 0..now, count : 1..MaxAsked]
    <3>1. b.count \in 1..MaxAsked
      BY <2>2, <2>3, <2>5, LimiterFacts
    <3> QED
      BY <2>1, <2>2, <2>3, <3>1
  <2> QED
    BY <1>5, <2>3, <2>5, <2>6
<1>6. CASE ~(key \in DOMAIN C.buckets /\ ~Expired(C.buckets[key], rate.window))
  <2>1. b = [start |-> now, count |-> 1]
    BY <1>6 DEF Counted
  <2>2. key \in DOMAIN C.buckets => now - C.buckets[key].start >= rate.window
    BY <1>6 DEF Expired
  <2>3. 1 <= In(a, key, now..now, Rates) /\ 1 <= MaxAsked
    <3>1. now <= now
      BY <1>1
    <3>2. /\ In(a, key, now..now, Rates) = In(asked, key, now..now, Rates) + 1
          /\ In(asked, key, now..now, Rates) \in Nat
          /\ In(a, key, now..now, Rates) <= MaxAsked
      BY <1>1, <1>4, <3>1
    <3> QED
      BY <3>2, LimiterFacts
  <2>4. b \in [start : 0..now, count : 1..MaxAsked]
    BY <1>1, <2>1, <2>3, LimiterFacts
  <2> QED
    BY <2>1, <2>2, <2>3, <2>4
<1> QED
  BY <1>5, <1>6

LEMMA CountGrants ==
  ASSUME NEW key, NEW rate, Count(key, rate)
  PROVE  \/ granted' = granted /\ Counted(key, rate.window).count > rate.max
         \/ /\ granted' = OneMore(granted, <<key, now, rate>>)
            /\ Counted(key, rate.window).count <= rate.max
<1>1. \/ /\ Counted(key, rate.window).count <= rate.max
         /\ granted' = [granted EXCEPT ![<<key, now, rate>>] = @ + 1]
      \/ Counted(key, rate.window).count > rate.max /\ UNCHANGED granted
  BY DEF Count
<1> QED
  BY <1>1 DEF OneMore

\* A request that is counted, and let in or not.
LEMMA LimiterCounts ==
  ASSUME LimiterInv, TotalAsked < MaxAsked, NEW key \in Keys, NEW rate \in Rates,
         Count(key, rate), now' = now, asked' = OneMore(asked, <<key, now, rate>>)
  PROVE  LimiterInv'
<1>0. \/ granted' = granted
      \/ /\ Counted(key, rate.window).count <= rate.max
         /\ granted' = OneMore(granted, <<key, now, rate>>)
  BY CountGrants
<1> DEFINE C == Cleaned(rate.window)
           b == Counted(key, rate.window)
           D == [k \in DOMAIN C.buckets \cup {key} |-> IF k = key THEN b ELSE C.buckets[k]]
           x == <<key, now, rate>>
<1>1. /\ C = [buckets |-> C.buckets, lastCleanup |-> C.lastCleanup]
      /\ DOMAIN C.buckets \subseteq DOMAIN limiter.buckets
  BY CleanedFacts
<1>2. limiter' = [buckets |-> D, lastCleanup |-> C.lastCleanup]
  <2>1. limiter' = [C EXCEPT !.buckets = [k \in DOMAIN @ \cup {key} |-> IF k = key THEN b ELSE @[k]]]
    BY DEF Count
  <2> HIDE DEF C, b
  <2> QED
    BY <1>1, <2>1
<1>3. granted' = granted \/ (b.count <= rate.max /\ granted' = OneMore(granted, x))
  BY <1>0
<1>4. /\ \/ /\ key \in DOMAIN C.buckets /\ now - C.buckets[key].start < rate.window
            /\ b.start = C.buckets[key].start /\ b.count = C.buckets[key].count + 1
         \/ /\ key \in DOMAIN C.buckets => now - C.buckets[key].start >= rate.window
            /\ b.start = now /\ b.count = 1
      /\ b \in [start : 0..now, count : 1..MaxAsked]
      /\ b.count <= In(asked', key, b.start..now, Rates)
  BY CountedFacts
<1>5. key \in DOMAIN C.buckets \/ ~(Cardinality(DOMAIN C.buckets) >= MaxEntries)
  BY DEF Count, Full
<1>6. /\ asked' \in Histories /\ NothingAhead(asked', now)
      /\ SumFunctionOnSet(asked', Keys \X Times \X Rates) <= MaxAsked
      /\ Buckets(C.buckets, now) /\ Cardinality(DOMAIN C.buckets) <= MaxEntries
      /\ C.lastCleanup \in 0..now
      /\ \A k \in DOMAIN C.buckets : C.buckets[k] \in [start : 0..now, count : 1..MaxAsked]
      /\ Asked(asked', C.buckets, now) /\ Swept(asked', C)
      /\ \A k \in Keys, r \in Rates, first \in 0..now : Quiet(asked', r, first) =>
           /\ now < first + r.window => rate.window >= r.window
           /\ Owed(granted, now, C.buckets, k, r, first)
  BY AllowKeeps
<1> HIDE DEF C, b
<1>7. /\ LimiterTypeOK /\ now \in Times /\ now \in Nat /\ granted \in Histories
      /\ NothingAhead(granted, now) /\ DOMAIN limiter.buckets \subseteq Keys
      /\ 0..now \in SUBSET Times /\ rate.window \in Nat /\ rate.window >= 1
  BY LimiterTypes, LimiterFacts DEF LimiterInv
<1>8. /\ DOMAIN D = DOMAIN C.buckets \cup {key} /\ D[key] = b
      /\ \A k \in DOMAIN C.buckets : k # key => D[k] = C.buckets[k]
  OBVIOUS
<1>9. Cardinality(DOMAIN D) <= MaxEntries
  <2>1. IsFiniteSet(DOMAIN C.buckets)
    BY <1>1, <1>7, LimiterFacts, FS_Subset
  <2>2. Cardinality(DOMAIN C.buckets) \in Nat
        /\ Cardinality(DOMAIN C.buckets \cup {key})
             = IF key \in DOMAIN C.buckets THEN Cardinality(DOMAIN C.buckets)
                                           ELSE Cardinality(DOMAIN C.buckets) + 1
    BY <2>1, FS_CardinalityType, FS_AddElement
  <2> QED
    BY <1>5, <1>6, <1>8, <2>2, LimiterFacts
<1>10. \A k \in DOMAIN D : D[k] \in [start : 0..now, count : 1..MaxAsked]
  BY <1>4, <1>6, <1>8
<1>11. granted' \in Histories /\ NothingAhead(granted', now)
  <2>1. CASE granted' = granted
    BY <1>7, <2>1
  <2>2. CASE granted' = OneMore(granted, x)
    <3>1. /\ granted' \in Histories
          /\ \A y \in Keys \X Times \X Rates : y # x => granted'[y] = granted[y]
      BY <1>7, <2>2, OnceMore
    <3>2. ASSUME NEW k \in Keys, NEW t \in Times, NEW r \in Rates, t > now
          PROVE  granted'[<<k, t, r>>] = 0
      <4>1. t # now /\ granted[<<k, t, r>>] = 0
        BY <1>7, <3>2, TimesFinite DEF NothingAhead
      <4> QED
        BY <3>1, <4>1
    <3> QED
      BY <3>1, <3>2 DEF NothingAhead
  <2> QED
    BY <1>3, <2>1, <2>2
<1>12. Asked(asked', D, now)
  BY <1>4, <1>6, <1>8 DEF Asked
<1>13. Swept(asked', limiter')
  <2>1. limiter'.buckets = D /\ limiter'.lastCleanup = C.lastCleanup
    BY <1>2
  <2>2. /\ C.lastCleanup \in Nat /\ C.lastCleanup <= now
        /\ \A r \in Rates : r.window \in Nat /\ r.window >= 1
    BY <1>6, <1>7, LimiterFacts
  <2>3. \/ key \in DOMAIN C.buckets /\ b.start = C.buckets[key].start
        \/ b.start >= C.lastCleanup /\ \A r \in Rates : C.lastCleanup - b.start < r.window
    BY <1>4, <1>7, <2>2
  <2>4. CASE \A k \in DOMAIN C.buckets : C.buckets[k].start >= C.lastCleanup
    <3>1. \A k \in DOMAIN D : D[k].start >= C.lastCleanup
      BY <1>8, <2>3, <2>4
    <3> QED
      BY <2>1, <3>1 DEF Swept
  <2>5. ASSUME NEW r \in Rates, \E j \in Keys : asked'[<<j, C.lastCleanup, r>>] > 0,
               \A k \in DOMAIN C.buckets : C.lastCleanup - C.buckets[k].start < r.window
        PROVE  Swept(asked', limiter')
    <3>1. \A k \in DOMAIN D : C.lastCleanup - D[k].start < r.window
      BY <1>8, <2>3, <2>5
    <3> QED
      BY <2>1, <2>5, <3>1 DEF Swept
  <2> QED
    BY <1>6, <2>4, <2>5 DEF Swept
<1>14. ASSUME NEW k \in Keys, NEW r \in Rates, NEW first \in 0..now, Quiet(asked', r, first)
       PROVE  Owed(granted', now, D, k, r, first)
  <2>1. first \in Times /\ first <= now
    BY <1>7
  <2>2. (now < first + r.window => rate.window >= r.window)
        /\ Owed(granted, now, C.buckets, k, r, first)
    BY <1>6, <1>14
  <2>3. /\ Buckets(C.buckets, now)
        /\ Owed(granted, now, C.buckets, k, r, first)
        /\ DOMAIN D = DOMAIN C.buckets \cup {key}
        /\ \A j \in DOMAIN C.buckets : j # key => D[j] = C.buckets[j]
        /\ \/ /\ key \in DOMAIN C.buckets /\ now - C.buckets[key].start < rate.window
              /\ b.start = C.buckets[key].start /\ b.count = C.buckets[key].count + 1
           \/ /\ key \in DOMAIN C.buckets => now - C.buckets[key].start >= rate.window
              /\ b.start = now /\ b.count = 1
    BY <1>4, <1>6, <1>8, <2>2
  <2>4. D[key] = b
    OBVIOUS
  <2>5. PICK B : B = C.buckets
    OBVIOUS
  <2>6. PICK E : E = D
    OBVIOUS
  <2>7. PICK h : h = granted'
    OBVIOUS
  <2> HIDE DEF D
  <2>8. Owed(h, now, E, k, r, first)
    BY <1>3, <1>7, <2>1, <2>2, <2>3, <2>4, <2>5, <2>6, <2>7, OwedCounted
  <2> QED
    BY <2>6, <2>7, <2>8
<1> HIDE DEF D, x
<1>15. limiter'.buckets = D /\ limiter'.lastCleanup = C.lastCleanup
  BY <1>2
<1>16. LimiterTypeOK'
  BY <1>1, <1>6, <1>7, <1>8, <1>9, <1>10, <1>11, <1>15 DEF LimiterTypeOK, Histories
<1> QED
  BY <1>2, <1>6, <1>11, <1>12, <1>13, <1>14, <1>15, <1>16 DEF LimiterInv, TotalAsked

LEMMA LimiterStarts == LimiterInit => LimiterInv
<1> SUFFICES ASSUME LimiterInit PROVE LimiterInv
  OBVIOUS
<1>1. /\ now = 0 /\ limiter = [buckets |-> <<>>, lastCleanup |-> 0] /\ DOMAIN limiter.buckets = {}
      /\ asked = [a \in Keys \X Times \X Rates |-> 0]
      /\ granted = [g \in Keys \X Times \X Rates |-> 0]
  BY DEF LimiterInit
<1>2. 0 \in Times /\ 0 \in 0..0
  BY LimiterFacts DEF Times
<1>3. LimiterTypeOK
  <2>1. Cardinality(DOMAIN limiter.buckets) <= MaxEntries
    BY <1>1, FS_EmptySet, LimiterFacts
  <2> QED
    BY <1>1, <1>2, <2>1 DEF LimiterTypeOK
<1>4. granted \in Histories /\ NothingAhead(asked, now) /\ NothingAhead(granted, now)
  BY <1>1 DEF Histories, NothingAhead
<1>5. TotalAsked <= MaxAsked
  <2>1. \A c \in Keys \X Times \X Rates : asked[c] = 0
    BY <1>1
  <2>2. TotalAsked = 0
    BY <2>1, CellsFinite, SumZero DEF TotalAsked
  <2> QED
    BY <2>2, LimiterFacts
<1>6. Asked(asked, limiter.buckets, now) /\ Swept(asked, limiter)
  BY <1>1 DEF Asked, Swept
<1>7. ASSUME NEW key \in Keys, NEW rate \in Rates, NEW first \in 0..now
      PROVE  Owed(granted, now, limiter.buckets, key, rate, first)
  <2>1. first \in Times
    BY <1>1, <1>2
  <2>2. \A t \in Times, r \in Rates : granted[<<key, t, r>>] = 0
    BY <1>1
  <2>3. In(granted, key, Stretch(first, rate.window), Under(rate)) = 0
    BY <1>4, <2>1, <2>2, GrantsNat, InZero
  <2>4. 0 <= 2 * rate.max - 1 /\ 0 <= rate.max - 1
    BY LimiterFacts
  <2> QED
    BY <1>1, <2>3, <2>4 DEF Owed
<1> QED
  BY <1>1, <1>3, <1>4, <1>5, <1>6, <1>7 DEF LimiterInv

LEMMA LimiterKeeps == LimiterInv /\ [LimiterNext]_limiterVars => LimiterInv'
<1> SUFFICES ASSUME LimiterInv, [LimiterNext]_limiterVars PROVE LimiterInv'
  OBVIOUS
<1>1. CASE UNCHANGED limiterVars
  BY <1>1 DEF limiterVars, LimiterInv, LimiterTypeOK, TotalAsked
<1>2. ASSUME TotalAsked < MaxAsked, NEW key \in Keys, NEW rate \in Rates, Allow(key, rate)
      PROVE  LimiterInv'
  <2>1. /\ Refuse(key, rate.window) \/ Count(key, rate)
        /\ now' = now /\ asked' = OneMore(asked, <<key, now, rate>>)
    BY <1>2 DEF Allow, OneMore
  <2> QED
    BY <1>2, <2>1, LimiterRefuses, LimiterCounts
<1> QED
  BY <1>1, <1>2, LimiterTicks DEF LimiterNext

LEMMA BudgetMeans == LimiterInv => LimiterTypeOK /\ BudgetKept
<1> SUFFICES ASSUME LimiterInv PROVE BudgetKept
  BY DEF LimiterInv
<1>1. ASSUME NEW key \in Keys, NEW rate \in Rates, NEW first \in 0..now,
             \A r \in Rates, t \in Stretch(first, rate.window) :
               Brought(r, t) => r.window >= rate.window
      PROVE  In(granted, key, Stretch(first, rate.window), Under(rate)) <= 2 * rate.max - 1
  <2>1. Quiet(asked, rate, first)
    BY <1>1 DEF Quiet, Brought
  <2> QED
    BY <2>1 DEF LimiterInv, Owed
<1> QED
  BY <1>1 DEF BudgetKept, In, Under

\* A key that was not let in had used up its bucket, or found the table full of others.
LEMMA RefusedMeans ==
  ASSUME LimiterInv, NEW key \in Keys, NEW rate \in Rates, Allow(key, rate), granted' = granted
  PROVE  \/ AsksOf(key, rate.window) >= rate.max
         \/ \E r \in CleanedBy(rate) :
              Cardinality({k \in Keys : AsksOf(k, r.window + Interval(rate.window)) > 0})
                  >= MaxEntries
<1> DEFINE C == Cleaned(rate.window)
           I == Interval(rate.window)
<1>1. /\ now \in Times /\ now \in Nat /\ asked \in Histories /\ granted \in Histories
      /\ limiter.lastCleanup \in Times /\ limiter.lastCleanup \in Nat /\ limiter.lastCleanup <= now
      /\ Buckets(limiter.buckets, now) /\ DOMAIN limiter.buckets \subseteq Keys
      /\ \A i \in Nat : i..now \in SUBSET Times
      /\ I \in Nat /\ I >= 1 /\ rate.max \in Nat /\ rate.max >= 1
      /\ \A r \in Rates : r.window \in Nat /\ r.window >= 1
  BY LimiterTypes, LimiterFacts DEF LimiterInv
<1>2. ASSUME NEW k \in DOMAIN limiter.buckets, NEW ticks \in Nat,
             now - limiter.buckets[k].start < ticks
      PROVE  AsksOf(k, ticks) \in Nat /\ AsksOf(k, ticks) >= limiter.buckets[k].count
  <2> DEFINE P == limiter.buckets[k].start..now
             Q == {t \in Times : t > now - ticks /\ t <= now}
  <2>1. /\ k \in Keys /\ limiter.buckets[k].start \in Nat
        /\ limiter.buckets[k].start <= now /\ limiter.buckets[k].count \in Nat
    BY <1>1 DEF Buckets
  <2>2. Q \in SUBSET Times /\ P \in SUBSET Q
    BY <1>1, <1>2, <2>1, TimesFinite
  <2>3. limiter.buckets[k].count <= In(asked, k, P, Rates)
    BY DEF LimiterInv, Asked
  <2> HIDE DEF P, Q
  <2>4. In(asked, k, P, Rates) <= In(asked, k, Q, Rates)
    BY <1>1, <2>1, <2>2, InMore
  <2>5. In(asked, k, P, Rates) \in Nat /\ In(asked, k, Q, Rates) \in Nat
    BY <1>1, <2>1, <2>2, InNat
  <2>6. AsksOf(k, ticks) = In(asked, k, Q, Rates)
    BY DEF AsksOf, In, Q
  <2> QED
    BY <2>1, <2>3, <2>4, <2>5, <2>6
<1>3. /\ DOMAIN C.buckets \subseteq DOMAIN limiter.buckets
      /\ \A k \in DOMAIN C.buckets : C.buckets[k] = limiter.buckets[k]
      /\ \/ now - limiter.lastCleanup < I /\ C = limiter
         \/ \A k \in DOMAIN C.buckets : now - limiter.buckets[k].start < rate.window
  BY CleanedFacts
<1>4. CASE Full(key, rate.window)
  <2>1. Cardinality(DOMAIN C.buckets) >= MaxEntries
    BY <1>4 DEF Full
  <2> HIDE DEF C, I
  <2>2. PICK r \in CleanedBy(rate) :
          r \in Rates /\ \A k \in DOMAIN C.buckets : now - limiter.buckets[k].start < r.window + I
    <3>1. rate \in CleanedBy(rate)
      BY DEF CleanedBy
    <3>2. \A k \in DOMAIN C.buckets : limiter.buckets[k].start \in Nat
      BY <1>1, <1>3 DEF Buckets
    <3>3. CASE \A k \in DOMAIN C.buckets : now - limiter.buckets[k].start < rate.window
      <4>1. \A k \in DOMAIN C.buckets : now - limiter.buckets[k].start < rate.window + I
        BY <1>1, <3>2, <3>3
      <4> QED
        BY <3>1, <4>1
    <3>4. CASE now - limiter.lastCleanup < I /\ C = limiter
      <4>1. CASE \A k \in DOMAIN limiter.buckets : limiter.buckets[k].start >= limiter.lastCleanup
        <5>1. \A k \in DOMAIN C.buckets : now - limiter.buckets[k].start < rate.window + I
          BY <1>1, <3>2, <3>4, <4>1
        <5> QED
          BY <3>1, <5>1
      <4>2. ASSUME NEW r \in Rates, \E j \in Keys : asked[<<j, limiter.lastCleanup, r>>] > 0,
                   \A k \in DOMAIN limiter.buckets :
                     limiter.lastCleanup - limiter.buckets[k].start < r.window
            PROVE  /\ r \in CleanedBy(rate)
                   /\ \A k \in DOMAIN C.buckets : now - limiter.buckets[k].start < r.window + I
        <5>1. limiter.lastCleanup > now - I /\ Brought(r, limiter.lastCleanup)
          BY <1>1, <3>4, <4>2 DEF Brought
        <5>2. r \in CleanedBy(rate)
          BY <1>1, <5>1 DEF CleanedBy, I
        <5>3. \A k \in DOMAIN C.buckets : now - limiter.buckets[k].start < r.window + I
          BY <1>1, <3>2, <3>4, <4>2
        <5> QED
          BY <5>2, <5>3
      <4> QED
        BY <4>1, <4>2 DEF LimiterInv, Swept
    <3> QED
      BY <1>3, <3>3, <3>4
  <2> DEFINE A == {k \in Keys : AsksOf(k, r.window + I) > 0}
  <2>3. ASSUME NEW k \in DOMAIN C.buckets PROVE k \in A
    <3>1. k \in DOMAIN limiter.buckets /\ k \in Keys
      BY <1>1, <1>3
    <3>2. now - limiter.buckets[k].start < r.window + I /\ r.window + I \in Nat
      BY <1>1, <2>2
    <3>3. /\ AsksOf(k, r.window + I) \in Nat
          /\ AsksOf(k, r.window + I) >= limiter.buckets[k].count
      BY <1>2, <3>1, <3>2
    <3>4. limiter.buckets[k].count \in Nat /\ limiter.buckets[k].count >= 1
      BY <1>1, <3>1 DEF Buckets
    <3>5. AsksOf(k, r.window + I) > 0
      BY <3>3, <3>4
    <3> QED
      BY <3>1, <3>5
  <2>4. IsFiniteSet(A) /\ DOMAIN C.buckets \in SUBSET A
    BY <2>3, FS_Subset, LimiterFacts
  <2> HIDE DEF A
  <2>5. /\ Cardinality(DOMAIN C.buckets) <= Cardinality(A)
        /\ Cardinality(DOMAIN C.buckets) \in Nat /\ Cardinality(A) \in Nat
    BY <2>4, FS_Subset, FS_CardinalityType
  <2>6. Cardinality(A) >= MaxEntries
    BY <2>1, <2>5, LimiterFacts
  <2> QED
    BY <2>2, <2>6 DEF A, I
<1>5. CASE Count(key, rate)
  <2> DEFINE b == Counted(key, rate.window)
  <2>1. b.count > rate.max
    <3>1. /\ OneMore(granted, <<key, now, rate>>)[<<key, now, rate>>]
               = granted[<<key, now, rate>>] + 1
          /\ granted[<<key, now, rate>>] \in Nat
      BY <1>1, OnceMore DEF Histories
    <3>2. granted # OneMore(granted, <<key, now, rate>>)
      BY <3>1
    <3> QED
      BY <1>5, <3>2, CountGrants
  <2>2. key \in DOMAIN C.buckets /\ ~Expired(C.buckets[key], rate.window)
        /\ b = [C.buckets[key] EXCEPT !.count = @ + 1]
    <3>1. b # [start |-> now, count |-> 1]
      BY <1>1, <2>1
    <3> QED
      BY <3>1 DEF Counted
  <2>3. /\ key \in DOMAIN limiter.buckets /\ C.buckets[key] = limiter.buckets[key]
        /\ limiter.buckets[key].start \in Nat /\ limiter.buckets[key].count \in Nat
        /\ limiter.buckets[key] \in [start : 0..now, count : 1..MaxAsked]
    BY <1>1, <1>3, <2>2 DEF Buckets, LimiterInv, LimiterTypeOK
  <2>4. b.count = limiter.buckets[key].count + 1
    BY <2>2, <2>3
  <2>5. now - limiter.buckets[key].start < rate.window
    BY <1>1, <2>2, <2>3 DEF Expired
  <2>6. /\ AsksOf(key, rate.window) \in Nat
        /\ AsksOf(key, rate.window) >= limiter.buckets[key].count
    BY <1>1, <1>2, <2>3, <2>5
  <2> HIDE DEF b
  <2>7. AsksOf(key, rate.window) >= rate.max
    BY <1>1, <2>1, <2>3, <2>4, <2>6
  <2> QED
    BY <2>7
<1> QED
  BY <1>4, <1>5 DEF Allow, Refuse

\* The table of buckets keeps its limit of entries, its counts and its history their types.
THEOREM LimiterTypeCorrect == LimiterSpec => []LimiterTypeOK
  BY LimiterStarts, LimiterKeeps, BudgetMeans, PTL DEF LimiterSpec

\* AlwaysBudgetKept: for any keys, table and rates, however the settings change between the
\* requests, no key is let in oftener than 2 * m - 1 times under limits of m or less in a
\* stretch of a window in which no request brought a shorter one.
THEOREM AlwaysBudgetKept == LimiterSpec => []BudgetKept
  BY LimiterStarts, LimiterKeeps, BudgetMeans, PTL DEF LimiterSpec

\* AlwaysForCause: no key is refused while it is within its limit, unless as many keys as the
\* table holds asked within the window by which the table was last cleaned and the time to
\* the next clean-up, for all rates the requests may bring.
THEOREM AlwaysForCause == LimiterSpec => RefusedForCause
<1> DEFINE Cause ==
      granted' = granted => \A key \in Keys, rate \in Rates :
         asked'[<<key, now, rate>>] > asked[<<key, now, rate>>] =>
            \/ AsksOf(key, rate.window) >= rate.max
            \/ \E r \in CleanedBy(rate) :
                 Cardinality({k \in Keys : AsksOf(k, r.window + Interval(rate.window)) > 0})
                     >= MaxEntries
<1>1. ASSUME LimiterInv, [LimiterNext]_limiterVars, NEW key \in Keys, NEW rate \in Rates,
             asked'[<<key, now, rate>>] > asked[<<key, now, rate>>]
      PROVE  Allow(key, rate)
  <2>1. now \in Times /\ asked \in Histories /\ asked[<<key, now, rate>>] \in Nat
    BY <1>1, LimiterTypes DEF LimiterInv, Histories
  <2>2. asked' # asked
    BY <1>1, <2>1
  <2>3. PICK k \in Keys, r \in Rates : Allow(k, r)
    BY <1>1, <2>2 DEF LimiterNext, Tick, limiterVars
  <2>4. asked' = OneMore(asked, <<k, now, r>>)
    BY <2>3 DEF Allow, OneMore
  <2>5. <<key, now, rate>> = <<k, now, r>>
    BY <1>1, <2>1, <2>4, OnceMore
  <2> QED
    BY <2>3, <2>5
<1>2. LimiterInv /\ [LimiterNext]_limiterVars => [Cause]_limiterVars
  BY <1>1, RefusedMeans
<1>3. LimiterSpec => []LimiterInv
  BY LimiterStarts, LimiterKeeps, PTL DEF LimiterSpec
<1> QED
  BY <1>2, <1>3, PTL DEF LimiterSpec, RefusedForCause

-----------------------------------------------------------------------------
(* The three together. *)

LEMMA ApiParts == ApiSpec => Spec /\ SettingsSpec /\ LimiterSpec
<1>1. ApiInit => Init /\ SettingsInit /\ LimiterInit
  BY DEF ApiInit
<1>2. [ApiNext]_<<vars, settingsVars, limiterVars, part>>
        => [Next]_vars /\ [SettingsNext]_settingsVars /\ [LimiterNext]_limiterVars
  BY DEF ApiNext
<1> QED
  BY <1>1, <1>2, PTL DEF ApiSpec, Spec, SettingsSpec, LimiterSpec

\* ApiTypesOK: whichever of the three a behaviour moves, all keep their types.
THEOREM ApiTypeCorrect == ApiSpec => []ApiTypesOK
<1>1. TypeOK /\ SettingsTypeOK /\ LimiterTypeOK => ApiTypesOK
  BY DEF ApiTypesOK
<1> QED
  BY <1>1, ApiParts, TypeCorrect, SettingsTypeCorrect, LimiterTypeCorrect, PTL
================================================================================

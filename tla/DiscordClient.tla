---------------------------- MODULE DiscordClient ----------------------------
(***************************************************************************)
(* internal/discord, as one export uses it (server.createTranscript): the  *)
(* messages are fetched page by page, newest first, while people go on     *)
(* posting and deleting; the channel at the same time. Then the members    *)
(* who wrote them are looked up by a few workers within a budget of bytes, *)
(* which cancels the rest of the lookup when it is spent; the roles at the *)
(* same time. Every request is tried again when Discord limits the rate.   *)
(*                                                                         *)
(* One context spans all of it: five minutes, or until the client leaves.  *)
(***************************************************************************)
EXTENDS Integers, FiniteSets, Sequences, Functions

CONSTANTS Workers,     \* the lookup's goroutines
          AuthorsOf,   \* who wrote a message, and the one it answers; not webhooks
          MaxPosts,    \* bound: messages ever posted, numbered as they are
          Limit,       \* TRANSCRIPT_LIMIT
          PageSize,    \* 100
          Attempts,    \* 4
          Answers,     \* how many bytes a member may take
          MaxLookup,   \* MaxMemberLookupResponseBytes
          None

Messages == 1..MaxPosts

Authors == UNION {AuthorsOf[m] : m \in Messages}

ASSUME DiscordAssumption ==
    /\ MaxPosts \in Nat /\ Limit \in Nat \ {0} /\ PageSize \in Nat \ {0}
    /\ Attempts \in Nat \ {0} /\ MaxLookup \in Nat /\ Answers \subseteq Nat
    /\ DOMAIN AuthorsOf = Messages
    /\ None \notin Messages \cup {0} \cup Authors
    /\ IsFiniteSet(Workers) /\ Workers # {}
    /\ Workers \cap {"messages", "channel", "roles"} = {}

Callers == {"messages", "channel", "roles"} \cup Workers

\* A call of get: between calls, waiting for the answer to a request, or for the
\* delay that Discord asked for. timely: the request left before its context ended.
Call == [at : {"none", "sent", "delayed"}, attempt : 1..Attempts, timely : BOOLEAN]

NoCall == [at |-> "none", attempt |-> 1, timely |-> FALSE]

VARIABLES
    alive,     \* the messages in the channel
    posted,    \* how many were ever posted
    stable,    \* those there from before the first request to the last
    at,        \* the handler: "fetching", "joining", "bundle" or "failed"
    ctxDone,
    call,      \* what each caller's get does
    all,       \* the messages fetched so far
    before,    \* the oldest of them, or None
    fetched,   \* Messages: "no", "ok" or "failed"
    channel,   \* "no", "guild" (it has a guild_id) or "other"
    roles,     \* TRUE once Roles has returned
    unsent,    \* the authors not yet handed to a worker
    sending,   \* jobs is open
    looksUp,   \* the author a worker looks up, or None
    gone,      \* the workers that have ended
    result,    \* the authors whose member was found
    received,  \* the bytes these took
    lost,      \* the authors whose request failed
    cancelled  \* the lookup's own context

vars == <<alive, posted, stable, at, ctxDone, call, all, before, fetched, channel, roles,
          unsent, sending, looksUp, gone, result, received, lost, cancelled>>

world == <<alive, posted, stable>>
pages == <<all, before, fetched>>
lookup == <<unsent, sending, looksUp, gone, result, received, lost, cancelled>>

-----------------------------------------------------------------------------
(* get *)

\* The lookup derives a context of its own.
Done(c) == ctxDone \/ (c \in Workers /\ cancelled)

Sent(c) == [at |-> "sent", attempt |-> 1, timely |-> ~Done(c)]

Send(c) == call' = [call EXCEPT ![c] = Sent(c)]

Idle(c) == call' = [call EXCEPT ![c] = NoCall]

\* (a plausible bug) A 429 is always waited for.
RateLimitedAlways(c) ==
    /\ call[c].at = "sent" /\ call[c].timely
    /\ call' = [call EXCEPT ![c].at = "delayed"]
    /\ UNCHANGED <<world, at, ctxDone, pages, channel, roles, lookup>>

\* 429, and not at the last attempt.
RateLimited(c) ==
    /\ call[c].at = "sent" /\ call[c].timely /\ call[c].attempt < Attempts
    /\ call' = [call EXCEPT ![c].at = "delayed"]
    /\ UNCHANGED <<world, at, ctxDone, pages, channel, roles, lookup>>

\* The delay, of 30 seconds at most, is over. If the context ended in between, the
\* request fails at once.
Retry(c) ==
    /\ call[c].at = "delayed"
    /\ call' = [call EXCEPT ![c] = [at |-> "sent", attempt |-> @.attempt + 1,
                                    timely |-> ~Done(c)]]
    /\ UNCHANGED <<world, at, ctxDone, pages, channel, roles, lookup>>

\* get returns a body: of a request that left in time.
Answered(c) == call[c].at = "sent" /\ call[c].timely

\* get returns an error: the transport's, a status, a body that is too long or no
\* JSON, the 429 of the last attempt, or the end of the context.
Failed(c) ==
    \/ call[c].at = "sent"
    \/ call[c].at = "delayed" /\ Done(c)

-----------------------------------------------------------------------------
(* Messages and Channel *)

Init ==
    /\ posted \in Messages \cup {0} /\ alive \in SUBSET (1..posted)
    /\ stable = alive
    /\ at = "fetching" /\ ctxDone = FALSE
    /\ call = [c \in Callers |-> IF c \in {"messages", "channel"} THEN Sent(c) ELSE NoCall]
    /\ all = <<>> /\ before = None /\ fetched = "no"
    /\ channel = "no" /\ roles = FALSE
    /\ unsent = {} /\ sending = FALSE /\ looksUp = [w \in Workers |-> None]
    /\ gone = {} /\ result = {} /\ received = 0 /\ lost = {} /\ cancelled = FALSE

\* What is posted or deleted after the last page makes no difference.
Post ==
    /\ fetched = "no" /\ posted < MaxPosts
    /\ posted' = posted + 1 /\ alive' = alive \cup {posted + 1}
    /\ UNCHANGED <<stable, at, ctxDone, call, pages, channel, roles, lookup>>

Delete(m) ==
    /\ fetched = "no" /\ m \in alive
    /\ alive' = alive \ {m} /\ stable' = stable \ {m}
    /\ UNCHANGED <<posted, at, ctxDone, call, pages, channel, roles, lookup>>

\* Five minutes have passed, or the client has left.
ContextEnds ==
    /\ ~ctxDone /\ ctxDone' = TRUE
    /\ UNCHANGED <<world, at, call, pages, channel, roles, lookup>>

batchSize == IF PageSize < Limit - Len(all) THEN PageSize ELSE Limit - Len(all)

Older == {m \in alive : before = None \/ m < before}

\* What Discord answers: the newest messages older than before, newest first.
Pages ==
    {page \in UNION {[1..n -> Older] : n \in 0..batchSize} :
        /\ \A i, j \in DOMAIN page : i < j => page[i] > page[j]
        /\ \A m \in Older \ Range(page) :
              Len(page) = batchSize /\ \A i \in DOMAIN page : m < page[i]}

\* A page that is not full is the last one, and so is the one that reaches the limit.
NextPageOrOk(page) ==
    \/ /\ Len(page) = batchSize /\ Len(all) + Len(page) < Limit
       /\ fetched' = "no" /\ Send("messages")
    \/ /\ Len(page) < batchSize \/ Len(all) + Len(page) = Limit
       /\ fetched' = "ok" /\ Idle("messages")

\* (a plausible bug) The next page starts from the newest message of this one.
GetPageFromNewest ==
    /\ Answered("messages")
    /\ \E page \in Pages :
         /\ all' = all \o page
         /\ before' = IF page = <<>> THEN before ELSE page[1]
         /\ NextPageOrOk(page)
    /\ UNCHANGED <<world, at, ctxDone, channel, roles, lookup>>

\* (a plausible bug) An ID too many is taken off.
GetPageSkipping ==
    /\ Answered("messages")
    /\ \E page \in Pages :
         /\ all' = all \o page
         /\ before' = IF page = <<>> THEN before ELSE page[Len(page)] - 1
         /\ NextPageOrOk(page)
    /\ UNCHANGED <<world, at, ctxDone, channel, roles, lookup>>

\* The next page is of the messages older than the oldest of this one.
GetPage ==
    /\ Answered("messages")
    /\ \E page \in Pages :
         /\ all' = all \o page
         /\ before' = IF page = <<>> THEN before ELSE page[Len(page)]
         /\ NextPageOrOk(page)
    /\ UNCHANGED <<world, at, ctxDone, channel, roles, lookup>>

\* get fails, or the pages are too many bytes together.
FetchFails ==
    /\ Failed("messages") /\ Idle("messages")
    /\ fetched' = "failed"
    /\ UNCHANGED <<world, at, ctxDone, all, before, channel, roles, lookup>>

\* A channel that cannot be fetched is an empty object, which has no guild.
GetChannel ==
    /\ \/ Answered("channel") /\ channel' \in {"guild", "other"}
       \/ Failed("channel") /\ channel' = "other"
    /\ Idle("channel")
    /\ UNCHANGED <<world, at, ctxDone, pages, roles, lookup>>

AuthorIDs == UNION {AuthorsOf[m] : m \in Range(all)}

\* As many workers as authors, if there are that many.
Started(ws) ==
    \/ Cardinality(ws) = Cardinality(AuthorIDs)
    \/ ws = Workers /\ Cardinality(ws) < Cardinality(AuthorIDs)

\* wg.Wait of the first two requests. Nothing looks at the channel any more, and the
\* model forgets it.
Join ==
    /\ at = "fetching" /\ fetched # "no" /\ channel # "no"
    /\ \/ fetched = "failed" /\ at' = "failed" /\ UNCHANGED <<call, unsent, sending, gone>>
       \/ /\ fetched = "ok" /\ channel = "other"
          /\ at' = "bundle" /\ UNCHANGED <<call, unsent, sending, gone>>
       \/ /\ fetched = "ok" /\ channel = "guild"
          /\ at' = "joining" /\ unsent' = AuthorIDs /\ sending' = TRUE
          /\ Send("roles")
          /\ \E ws \in SUBSET Workers : Started(ws) /\ gone' = Workers \ ws
    /\ alive' = {} /\ posted' = 0 /\ stable' = {}
    /\ UNCHANGED <<ctxDone, pages, channel, roles, looksUp, result, received, lost,
                   cancelled>>

-----------------------------------------------------------------------------
(* Members and Roles *)

\* jobs <- id meets a worker's receive.
Take(w) ==
    /\ at = "joining" /\ sending /\ looksUp[w] = None /\ w \notin gone
    /\ \E a \in unsent :
         /\ unsent' = unsent \ {a}
         /\ looksUp' = [looksUp EXCEPT ![w] = a]
    /\ Send(w)
    /\ UNCHANGED <<world, at, ctxDone, pages, channel, roles, sending, gone, result,
                   received, lost, cancelled>>

\* Every author is handed over, or the sender saw the context end: close(jobs).
CloseJobs ==
    /\ sending /\ (unsent = {} \/ cancelled \/ ctxDone)
    /\ sending' = FALSE
    /\ UNCHANGED <<world, at, ctxDone, call, pages, channel, roles, unsent, looksUp, gone,
                   result, received, lost, cancelled>>

\* (a plausible bug) A member that does not fit is dropped and the lookup goes on.
MemberDropped(w) ==
    /\ looksUp[w] # None /\ Answered(w) /\ Idle(w)
    /\ \E bytes \in Answers :
         IF received + bytes <= MaxLookup
         THEN received' = received + bytes /\ result' = result \cup {looksUp[w]}
         ELSE UNCHANGED <<received, result>>
    /\ looksUp' = [looksUp EXCEPT ![w] = None]
    /\ UNCHANGED <<world, at, ctxDone, pages, channel, roles, unsent, sending, gone, lost,
                   cancelled>>

\* Under the mutex: the member fits, or the whole lookup is cancelled.
Member(w) ==
    /\ looksUp[w] # None /\ Answered(w) /\ Idle(w)
    /\ \E bytes \in Answers :
         \/ /\ received + bytes <= MaxLookup
            /\ received' = received + bytes /\ result' = result \cup {looksUp[w]}
            /\ UNCHANGED cancelled
         \/ /\ received + bytes > MaxLookup
            /\ cancelled' = TRUE
            /\ UNCHANGED <<received, result>>
    /\ looksUp' = [looksUp EXCEPT ![w] = None]
    /\ UNCHANGED <<world, at, ctxDone, pages, channel, roles, unsent, sending, gone, lost>>

\* (a plausible bug) A failed request ends its worker.
NoMemberQuits(w) ==
    /\ looksUp[w] # None /\ Failed(w) /\ Idle(w)
    /\ lost' = lost \cup {looksUp[w]} /\ gone' = gone \cup {w}
    /\ looksUp' = [looksUp EXCEPT ![w] = None]
    /\ UNCHANGED <<world, at, ctxDone, pages, channel, roles, unsent, sending, result,
                   received, cancelled>>

NoMember(w) ==
    /\ looksUp[w] # None /\ Failed(w) /\ Idle(w)
    /\ lost' = lost \cup {looksUp[w]}
    /\ looksUp' = [looksUp EXCEPT ![w] = None]
    /\ UNCHANGED <<world, at, ctxDone, pages, channel, roles, unsent, sending, gone, result,
                   received, cancelled>>

Exit(w) ==
    /\ at = "joining" /\ ~sending /\ looksUp[w] = None /\ w \notin gone
    /\ gone' = gone \cup {w}
    /\ UNCHANGED <<world, at, ctxDone, call, pages, channel, roles, unsent, sending, looksUp,
                   result, received, lost, cancelled>>

GetRoles ==
    /\ Answered("roles") \/ Failed("roles")
    /\ Idle("roles")
    /\ roles' = TRUE
    /\ UNCHANGED <<world, at, ctxDone, pages, channel, lookup>>

\* wg.Wait in Members and of the second two requests; AttachMembers.
Attach ==
    /\ at = "joining" /\ roles /\ ~sending /\ gone = Workers
    /\ at' = "bundle"
    /\ UNCHANGED <<world, ctxDone, call, pages, channel, roles, lookup>>

-----------------------------------------------------------------------------

Backoff(c) == RateLimited(c) \/ Retry(c)

\* The two goroutines of the first half, and the handler that waits for them.
FetchMessages == GetPage \/ FetchFails \/ Backoff("messages")

FetchChannel == GetChannel \/ Backoff("channel")

\* The two of the second half: Members, with its workers, and Roles.
Worker(w) == Take(w) \/ Member(w) \/ NoMember(w) \/ Exit(w) \/ Backoff(w)

FetchRoles == GetRoles \/ Backoff("roles")

Next ==
    \/ FetchMessages \/ FetchChannel \/ Join
    \/ CloseJobs \/ FetchRoles \/ Attach
    \/ \E w \in Workers : Worker(w)
    \/ ContextEnds \/ Post
    \/ \E m \in Messages : Delete(m)

Spec == Init /\ [][Next]_vars

\* A goroutine that can run does, and a request ends after 45 seconds at the latest
\* (the Timeout of http.Client). That the five minutes pass is not assumed.
Fairness ==
    /\ WF_vars(FetchMessages) /\ WF_vars(FetchChannel) /\ WF_vars(Join)
    /\ WF_vars(CloseJobs) /\ WF_vars(FetchRoles) /\ WF_vars(Attach)
    /\ \A w \in Workers : WF_vars(Worker(w))

FairSpec == Spec /\ Fairness

-----------------------------------------------------------------------------
(* What the fetch promises the export *)

Held == {looksUp[w] : w \in Workers} \ {None}

\* The variables have their types: no request is tried more than Attempts times
\* (client.go:47), and a worker that waits for a job makes no request.
TypeOK ==
    /\ posted \in 0..MaxPosts /\ stable \subseteq alive /\ alive \subseteq 1..posted
    /\ at \in {"fetching", "joining", "bundle", "failed"} /\ ctxDone \in BOOLEAN
    /\ call \in [Callers -> Call]
    /\ all \in Seq(Messages) /\ Len(all) <= Limit
    /\ before \in Messages \cup {None}
    /\ fetched \in {"no", "ok", "failed"} /\ channel \in {"no", "guild", "other"}
    /\ roles \in BOOLEAN /\ sending \in BOOLEAN /\ cancelled \in BOOLEAN
    /\ unsent \subseteq Authors /\ result \subseteq Authors /\ lost \subseteq Authors
    /\ looksUp \in [Workers -> Authors \cup {None}]
    /\ \A w \in Workers : (looksUp[w] = None) = (call[w].at = "none")
    /\ gone \subseteq Workers /\ received \in Nat

\* The pages fit together whatever is posted or deleted between two requests: no
\* message comes twice, and they are in one order, newest first (client.go:136).
NewestFirst == \A i, j \in DOMAIN all : i < j => all[i] > all[j]

\* A message that was in the channel from before the first request to the last page
\* is in the transcript when its pages are complete, unless the limit of messages was
\* reached by newer ones (client.go:137).
NothingSkipped ==
    fetched = "ok" =>
      \A m \in stable \ Range(all) : Len(all) = Limit /\ m < all[Limit]

\* Members asks for every author once, and unless the context ended or the budget
\* was spent has an answer for each when it returns (client.go:194).
EveryAuthorAsked ==
    /\ \A s, t \in Workers : looksUp[s] = looksUp[t] => s = t \/ looksUp[s] = None
    /\ Held \cap (unsent \cup result \cup lost) = {}
    /\ unsent \cap (result \cup lost) = {} /\ result \cap lost = {}
    /\ at = "bundle" /\ channel = "guild" /\ ~ctxDone /\ ~cancelled =>
         result \cup lost = AuthorIDs

\* The fetch ends by itself: the sender and the workers never wait for each other for
\* ever, whatever is posted, rate limited, failed or cancelled.
Termination == <>(at \in {"bundle", "failed"})

=============================================================================

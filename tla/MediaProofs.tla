------------------------------ MODULE MediaProofs ------------------------------
(***************************************************************************)
(* Proofs about MediaCache. For every collection: its types, its counters, *)
(* the bytes of the directory, which are AssetBudget's, and that nothing   *)
(* is left that the manifest does not list. And, as long as no two assets  *)
(* are fetched from one URL, that what the manifest lists is there, whole. *)
(***************************************************************************)
EXTENDS MediaCache, SumProofs, SequenceTheorems, FiniteSetTheorems, TLAPS

-------------------------------------------------------------------------------
(* Types *)

LEMMA ConstantFacts ==
    /\ FileLimit \in Nat \ {0} /\ TotalLimit \in Nat \ {0} /\ SmallLimit \in Nat \ {0}
    /\ Allowed \subseteq Sources
    /\ Collections \subseteq [Assets -> Asset]
    /\ None \notin Assets
  BY MediaAssumption

LEMMA ReservationIsNat ==
  ASSUME collected \in [Assets -> Asset], NEW a \in Assets
  PROVE  Reservation(a) \in Nat /\ Reservation(a) > 0
  BY ConstantFacts DEF Reservation, Asset

\* The one-field updates of a job keep its type.
LEMMA JobUpdates ==
  ASSUME NEW j \in Job
  PROVE  /\ NoJob \in Job
         /\ \A a \in Assets : [NoJob EXCEPT !.asset = a] \in Job
         /\ \A n \in Bytes : [j EXCEPT !.wrote = n] \in Job
         /\ \A n \in Bytes, i \in Assets : [j EXCEPT !.body = n, !.inode = i] \in Job
<1>1. 0 \in Bytes
  BY ConstantFacts DEF Bytes
<1> QED
  BY <1>1 DEF Job, NoJob

\* Whoever works has an asset in hand, and a file while it copies.
Handed ==
    \A w \in Workers :
        /\ at[w] \notin {"idle", "gone"} => Of(w) \in Assets
        /\ at[w] = "copying" => job[w].inode \in Assets

TypeInv == TypeOK /\ Handed

LEMMA TypeInit == Init => TypeInv
<1> SUFFICES ASSUME Init PROVE TypeInv
  OBVIOUS
<1>1. 0 \in Bytes
  BY ConstantFacts DEF Bytes
<1>2. NoJob \in Job
  BY <1>1 DEF Job, NoJob
<1>3. TotalBytes \in 0..TotalLimit /\ reserved \in Int /\ reserved <= TotalLimit
  BY ConstantFacts DEF Init
<1>4. TypeOK
  BY <1>2, <1>3, ConstantFacts DEF Init, TypeOK, Stages
<1>5. Handed
  BY DEF Init, Handed
<1> QED
  BY <1>4, <1>5 DEF TypeInv

\* A worker moves to another stage with what it has in hand.
LEMMA Moves ==
  ASSUME TypeInv, NEW w \in Workers, NEW stage \in Stages, Goto(w, stage),
         at[w] \notin {"idle", "gone"}, stage # "copying", job' = job
  PROVE  at' \in [Workers -> Stages] /\ Handed'
  BY DEF TypeInv, TypeOK, Handed, Goto, Of

\* A worker lays its asset down.
LEMMA Continues ==
  ASSUME TypeInv, NEW w \in Workers, Continue(w)
  PROVE  at' \in [Workers -> Stages] /\ job' \in [Workers -> Job] /\ Handed'
<1>1. job[w] \in Job /\ NoJob \in Job
  BY JobUpdates DEF TypeInv, TypeOK
<1>2. at' = [at EXCEPT ![w] = "idle"] /\ job' = [job EXCEPT ![w] = NoJob]
  BY DEF Continue, Goto
<1> QED
  BY <1>1, <1>2 DEF TypeInv, TypeOK, Handed, Of, Stages

LEMMA Books ==
  ASSUME TypeInv, NEW w \in Workers, at[w] \notin {"idle", "gone"},
         NEW status \in {"cached", "skipped", "failed"},
         NEW reason \in {"", "unsupported_host", "file_too_large", "transcript_limit", "error"},
         NEW bytes \in Bytes, Book(w, status, reason, bytes)
  PROVE  assets' \in Seq(Entry)
<1>1. Of(w) \in Assets
  BY DEF TypeInv, Handed
<1> DEFINE e == [asset |-> Of(w), status |-> status, reason |-> reason, bytes |-> bytes]
<1>2. e \in Entry
  BY <1>1 DEF Entry
<1>3. assets' = Append(assets, e) /\ assets \in Seq(Entry)
  BY DEF Book, TypeInv, TypeOK
<1> HIDE DEF e
<1>4. Append(assets, e) \in Seq(Entry)
  BY <1>2, <1>3, AppendProperties
<1> QED
  BY <1>3, <1>4

LEMMA Returned ==
  ASSUME TypeInv, NEW w \in Workers, at[w] \notin {"idle", "gone"},
         reserved' = reserved - Reservation(Of(w))
  PROVE  reserved' \in Int /\ reserved' <= TotalLimit
<1>1. Reservation(Of(w)) \in Nat
  BY ReservationIsNat DEF TypeInv, TypeOK, Handed
<1> QED
  BY <1>1, ConstantFacts DEF TypeInv, TypeOK

\* The worker's loop.
LEMMA TypeLoop ==
  ASSUME TypeInv, NEW w \in Workers,
         \/ Take(w) \/ Exit(w)
         \/ SkipUnsupported(w) \/ SkipTooLarge(w) \/ SkipOverLimit(w) \/ Reserve(w)
         \/ BookFailure(w) \/ BookOverLimit(w) \/ BookCached(w)
  PROVE  TypeInv'
<1> USE DEF TypeInv, files, books
<1>0. 0 \in Bytes
  BY ConstantFacts DEF Bytes
<1>1. CASE Take(w)
  <2>1. PICK a \in unsent : unsent' = unsent \ {a}
                            /\ job' = [job EXCEPT ![w] = [NoJob EXCEPT !.asset = a]]
    BY <1>1 DEF Take
  <2>2. a \in Assets /\ job[w] \in Job
    BY DEF TypeOK
  <2>3. [NoJob EXCEPT !.asset = a] \in Job /\ [NoJob EXCEPT !.asset = a].asset = a
    BY JobUpdates, <2>2 DEF NoJob
  <2>4. at' = [at EXCEPT ![w] = "judging"]
    BY <1>1 DEF Take, Goto
  <2>5. Handed'
    BY <2>1, <2>2, <2>3, <2>4 DEF TypeOK, Handed, Of
  <2> QED
    BY <1>1, <2>1, <2>2, <2>3, <2>4, <2>5 DEF Take, TypeOK, Stages
<1>2. CASE Exit(w)
  BY <1>2 DEF Exit, Goto, Stages, TypeOK, Handed, Of
<1>3. ASSUME NEW reason \in {"", "unsupported_host", "file_too_large", "transcript_limit",
                             "error"},
             at[w] = "judging", SkipAs(w, reason)
      PROVE  TypeInv'
  BY <1>0, <1>3, Books, Continues DEF SkipAs, TypeOK
<1>4. CASE SkipUnsupported(w) \/ SkipTooLarge(w) \/ SkipOverLimit(w)
  BY <1>3, <1>4 DEF SkipUnsupported, SkipTooLarge, SkipOverLimit
<1>5. CASE Reserve(w)
  <2>1. Of(w) \in Assets
    BY <1>5 DEF Reserve, Handed
  <2>2. Reservation(Of(w)) \in Nat
    BY <2>1, ReservationIsNat DEF TypeOK
  <2>3. TotalBytes + reserved + Reservation(Of(w)) <= TotalLimit
        /\ reserved' = reserved + Reservation(Of(w))
    BY <1>5 DEF Reserve, RoomFor
  <2>4. TotalBytes \in Nat /\ reserved \in Int
    BY ConstantFacts DEF TypeOK
  <2>5. reserved' \in Int /\ reserved' <= TotalLimit
    BY <2>2, <2>3, <2>4, ConstantFacts
  <2>6. at' \in [Workers -> Stages] /\ Handed'
    BY <1>5, Moves DEF Reserve, Stages
  <2> QED
    BY <1>5, <2>5, <2>6 DEF Reserve, TypeOK
<1>6. CASE BookFailure(w)
  BY <1>0, <1>6, Books, Continues, Returned DEF BookFailure, TypeOK
<1>7. CASE BookOverLimit(w)
  <2>1. assets' \in Seq(Entry) /\ reserved' \in Int /\ reserved' <= TotalLimit
    BY <1>0, <1>7, Books, Returned DEF BookOverLimit
  <2>2. final' \in [Sources -> Assets \cup {None}]
    BY <1>7 DEF BookOverLimit, TypeOK
  <2> QED
    BY <1>7, <2>1, <2>2, Continues DEF BookOverLimit, TypeOK
<1>8. CASE BookCached(w)
  <2>1. job[w].body \in Bytes
    BY DEF TypeOK, Job
  <2>2. assets' \in Seq(Entry) /\ reserved' \in Int /\ reserved' <= TotalLimit
    BY <1>8, <2>1, Books, Returned DEF BookCached
  <2>3. TotalBytes' \in 0..TotalLimit
    <3>1. TotalBytes' = TotalBytes + job[w].body /\ TotalBytes + job[w].body <= TotalLimit
      BY <1>8 DEF BookCached
    <3>2. job[w].body \in Nat /\ TotalBytes \in Nat
      BY <2>1, ConstantFacts DEF Bytes, TypeOK
    <3> QED
      BY <3>1, <3>2, ConstantFacts
  <2> QED
    BY <1>8, <2>2, <2>3, Continues DEF BookCached, TypeOK
<1> QED
  BY <1>1, <1>2, <1>4, <1>5, <1>6, <1>7, <1>8

LEMMA TypeDownload ==
  ASSUME TypeInv, NEW w \in Workers,
         \/ FetchFails(w) \/ OpenTemp(w) \/ Copy(w) \/ CopyFails(w) \/ CopyEnds(w)
         \/ DropTemp(w) \/ Rename(w) \/ RenameFails(w)
  PROVE  TypeInv'
<1> USE DEF TypeInv, files, books
<1>1. CASE FetchFails(w) \/ CopyFails(w) \/ CopyEnds(w) \/ RenameFails(w)
  <2>1. at' \in [Workers -> Stages] /\ Handed'
    BY <1>1, Moves DEF FetchFails, CopyFails, CopyEnds, RenameFails, Stages
  <2> QED
    BY <1>1, <2>1 DEF FetchFails, CopyFails, CopyEnds, RenameFails, TypeOK
<1>2. CASE OpenTemp(w)
  <2> DEFINE a == Of(w)
             n == TempName(Source(a))
             i == IF temp[n] = None THEN a ELSE temp[n]
  <2>1. a \in Assets
    BY <1>2 DEF OpenTemp, Handed
  <2>2. n \in Sources
    BY <2>1 DEF TempName, Source, TypeOK, Asset
  <2>3. i \in Assets
    BY <2>1, <2>2 DEF TypeOK
  <2>4. PICK size \in Bytes :
          /\ content' = [content EXCEPT ![Source(a)] = size]
          /\ job' = [job EXCEPT ![w].body = size, ![w].inode = i]
    BY <1>2 DEF OpenTemp
  <2>5. /\ temp' = [temp EXCEPT ![n] = i] /\ data' = [data EXCEPT ![i] = {}]
        /\ at' = [at EXCEPT ![w] = "copying"]
        /\ UNCHANGED <<collected, unsent, final, assets, TotalBytes, reserved>>
    BY <1>2 DEF OpenTemp, Goto
  <2> HIDE DEF a, n, i
  <2>6. job[w] \in Job
    BY DEF TypeOK
  <2>7. [job[w] EXCEPT !.body = size, !.inode = i] \in Job
    BY <2>3, <2>6, JobUpdates
  <2>8. job' = [job EXCEPT ![w] = [job[w] EXCEPT !.body = size, !.inode = i]]
    BY <2>4, <2>6 DEF TypeOK, Job
  <2>9. job' \in [Workers -> Job]
    BY <2>7, <2>8 DEF TypeOK
  <2>10. job'[w].asset = job[w].asset /\ job'[w].inode = i
    BY <2>6, <2>8 DEF TypeOK, Job
  <2>11. Handed'
    <3>1. \A v \in Workers \ {w} : at'[v] = at[v] /\ job'[v] = job[v]
      BY <2>5, <2>8 DEF TypeOK
    <3>2. at'[w] = "copying" /\ at[w] = "fetching"
      BY <1>2, <2>5 DEF TypeOK, OpenTemp
    <3> QED
      BY <2>3, <2>10, <3>1, <3>2 DEF Handed, Of
  <2>12. temp' \in [Sources -> Assets \cup {None}] /\ data' \in [Assets -> SUBSET Bytes]
         /\ at' \in [Workers -> Stages]
    BY <2>3, <2>5 DEF TypeOK, Stages
  <2>13. content' \in [Allowed -> Bytes \cup {None}]
    BY <2>4 DEF TypeOK
  <2> QED
    BY <2>5, <2>9, <2>11, <2>12, <2>13 DEF TypeOK
<1>3. CASE Copy(w)
  <2> DEFINE n == job[w].wrote + 1
  <2>1. job[w] \in Job /\ job[w].wrote \in Nat /\ job[w].body \in Nat
        /\ job[w].body <= FileLimit + 1 /\ job[w].wrote < job[w].body
    BY <1>3, ConstantFacts DEF TypeOK, Job, Bytes, Copy
  <2>2. n \in Bytes
    BY <2>1, ConstantFacts DEF Bytes
  <2>3. job' = [job EXCEPT ![w] = [job[w] EXCEPT !.wrote = n]]
    BY <1>3, <2>1 DEF Copy, TypeOK, Job
  <2>4. data' = [data EXCEPT ![job[w].inode] = @ \cup {n}]
    BY <1>3 DEF Copy
  <2> HIDE DEF n
  <2>5. [job[w] EXCEPT !.wrote = n] \in Job
    BY <2>1, <2>2, JobUpdates
  <2>6. job' \in [Workers -> Job] /\ data' \in [Assets -> SUBSET Bytes]
    BY <2>2, <2>3, <2>4, <2>5 DEF TypeOK
  <2>7. job'[w].asset = job[w].asset /\ job'[w].inode = job[w].inode
    BY <2>1, <2>3 DEF TypeOK, Job
  <2>8. Handed'
    BY <1>3, <2>3, <2>7 DEF Copy, TypeOK, Handed, Of
  <2> QED
    BY <1>3, <2>6, <2>8 DEF Copy, TypeOK
<1>4. CASE DropTemp(w) \/ Rename(w)
  <2>1. at' \in [Workers -> Stages] /\ Handed'
    BY <1>4, Moves DEF DropTemp, Rename, Stages
  <2>2. Of(w) \in Assets
    BY <1>4 DEF DropTemp, Rename, Handed
  <2>3. Source(Of(w)) \in Sources
    BY <2>2 DEF Source, TypeOK, Asset
  <2> QED
    BY <1>4, <2>1, <2>3 DEF DropTemp, Rename, TypeOK, TempName
<1> QED
  BY <1>1, <1>2, <1>3, <1>4

LEMMA TypeNext == TypeInv /\ [Next]_vars => TypeInv'
<1> SUFFICES ASSUME TypeInv, [Next]_vars PROVE TypeInv'
  OBVIOUS
<1>1. CASE Next
  BY <1>1, TypeLoop, TypeDownload DEF Next, Work
<1>2. CASE UNCHANGED vars
  BY <1>2 DEF TypeInv, TypeOK, Handed, Of, vars
<1> QED
  BY <1>1, <1>2

\* Every reachable state is well-typed: in particular TotalBytes keeps the
\* transcript's limit, and so do the reservations.
THEOREM TypeCorrect == Spec => []TypeOK
<1>1. TypeInv => TypeOK
  BY DEF TypeInv
<1> QED
  BY <1>1, TypeInit, TypeNext, PTL DEF Spec

-------------------------------------------------------------------------------
(* Who has an asset: the sender, one worker, or one entry of the manifest. *)

HoldInv ==
    /\ \A w \in Busy : Of(w) \notin unsent
    /\ \A v, w \in Busy : Of(v) = Of(w) => v = w
    /\ \A i \in DOMAIN assets : assets[i].asset \notin unsent
                                /\ \A w \in Busy : Of(w) # assets[i].asset
    /\ \A i, j \in DOMAIN assets : assets[i].asset = assets[j].asset => i = j
    /\ \A a \in Assets : \/ a \in unsent
                         \/ \E w \in Busy : Of(w) = a
                         \/ \E i \in DOMAIN assets : assets[i].asset = a

LEMMA HoldInit == Init => HoldInv
<1> SUFFICES ASSUME Init PROVE HoldInv
  OBVIOUS
<1>1. Busy = {} /\ unsent = Assets /\ DOMAIN assets = {}
  BY DEF Init, Busy
<1> QED
  BY <1>1 DEF HoldInv

\* A step in which nobody takes up or lays down an asset.
LEMMA HoldKept ==
  ASSUME HoldInv, Busy' = Busy, \A w \in Busy : job'[w].asset = job[w].asset,
         unsent' = unsent, assets' = assets
  PROVE  HoldInv'
  BY DEF HoldInv, Of

\* A worker takes an asset from the sender.
LEMMA HoldTake ==
  ASSUME TypeInv, HoldInv, NEW w \in Workers, Take(w)
  PROVE  HoldInv'
<1>1. PICK a \in unsent : unsent' = unsent \ {a}
                          /\ job' = [job EXCEPT ![w] = [NoJob EXCEPT !.asset = a]]
  BY DEF Take
<1>2. at[w] = "idle" /\ at' = [at EXCEPT ![w] = "judging"] /\ assets' = assets
  BY DEF Take, Goto, books
<1>3. Busy' = Busy \cup {w} /\ w \notin Busy
  BY <1>2 DEF Busy, TypeInv, TypeOK
<1>4. Of(w)' = a /\ \A v \in Workers \ {w} : Of(v)' = Of(v)
  BY <1>1 DEF Of, TypeInv, TypeOK, NoJob
<1>5. \A v \in Busy : Of(v)' = Of(v)
  BY <1>3, <1>4 DEF Busy
<1>6. /\ \A v \in Busy' : Of(v)' \notin unsent'
      /\ \A u, v \in Busy' : Of(u)' = Of(v)' => u = v
  BY <1>1, <1>3, <1>4, <1>5 DEF HoldInv
<1>7. /\ \A i \in DOMAIN assets' : assets'[i].asset \notin unsent'
                                   /\ \A v \in Busy' : Of(v)' # assets'[i].asset
      /\ \A i, j \in DOMAIN assets' : assets'[i].asset = assets'[j].asset => i = j
  BY <1>1, <1>2, <1>3, <1>4, <1>5 DEF HoldInv
<1>8. \A b \in Assets : \/ b \in unsent'
                        \/ \E v \in Busy' : Of(v)' = b
                        \/ \E i \in DOMAIN assets' : assets'[i].asset = b
  BY <1>1, <1>2, <1>3, <1>4, <1>5 DEF HoldInv
<1> QED
  BY <1>6, <1>7, <1>8 DEF HoldInv

\* A worker books its asset.
LEMMA HoldBook ==
  ASSUME TypeInv, HoldInv, NEW w \in Busy, Continue(w), unsent' = unsent,
         NEW status, NEW reason, NEW bytes, Book(w, status, reason, bytes)
  PROVE  HoldInv'
<1> DEFINE e == [asset |-> Of(w), status |-> status, reason |-> reason, bytes |-> bytes]
<1>1. assets' = Append(assets, e) /\ assets \in Seq(Entry) /\ e.asset = Of(w)
  BY DEF Book, TypeInv, TypeOK
<1> HIDE DEF e
<1>2. /\ DOMAIN assets = 1..Len(assets) /\ DOMAIN assets' = 1..(Len(assets) + 1)
      /\ Len(assets) \in Nat
      /\ \A i \in 1..Len(assets) : assets'[i] = assets[i]
      /\ assets'[Len(assets) + 1] = e
  BY <1>1
<1>3. w \in Workers /\ at[w] \notin {"idle", "gone"}
  BY DEF Busy
<1>4. Busy' = Busy \ {w} /\ \A v \in Workers \ {w} : Of(v)' = Of(v)
  BY <1>3 DEF Busy, Of, Continue, Goto, TypeInv, TypeOK
<1>5. \A v \in Busy' : v \in Busy /\ v # w /\ Of(v)' = Of(v)
  BY <1>4 DEF Busy
<1>6. /\ \A v \in Busy' : Of(v)' \notin unsent'
      /\ \A u, v \in Busy' : Of(u)' = Of(v)' => u = v
  BY <1>5 DEF HoldInv
<1>7. \A i \in DOMAIN assets' : \/ i \in DOMAIN assets /\ assets'[i] = assets[i]
                                \/ i = Len(assets) + 1 /\ assets'[i].asset = Of(w)
  BY <1>1, <1>2
<1>8. \A i \in DOMAIN assets' : assets'[i].asset \notin unsent'
                                /\ \A v \in Busy' : Of(v)' # assets'[i].asset
  BY <1>5, <1>7 DEF HoldInv
<1>9. \A i, j \in DOMAIN assets' : assets'[i].asset = assets'[j].asset => i = j
  BY <1>7 DEF HoldInv
<1>10. ASSUME NEW a \in Assets
       PROVE  \/ a \in unsent'
              \/ \E v \in Busy' : Of(v)' = a
              \/ \E i \in DOMAIN assets' : assets'[i].asset = a
  <2>1. CASE a \in unsent
    BY <2>1
  <2>2. CASE a = Of(w)
    BY <1>1, <1>2, <2>2
  <2>3. CASE \E v \in Busy : v # w /\ Of(v) = a
    BY <1>4, <2>3 DEF Busy
  <2>4. CASE \E i \in DOMAIN assets : assets[i].asset = a
    BY <1>2, <2>4
  <2> QED
    BY <2>1, <2>2, <2>3, <2>4 DEF HoldInv
<1> QED
  BY <1>6, <1>8, <1>9, <1>10 DEF HoldInv

LEMMA HoldNext == TypeInv /\ HoldInv /\ [Next]_vars => HoldInv'
<1> SUFFICES ASSUME TypeInv, HoldInv, [Next]_vars PROVE HoldInv'
  OBVIOUS
<1>1. CASE UNCHANGED vars
  BY <1>1, HoldKept DEF vars, Busy
<1>2. ASSUME NEW w \in Workers, Work(w)
      PROVE  HoldInv'
  <2>1. CASE Take(w)
    BY <2>1, HoldTake
  <2>2. CASE Exit(w)
    BY <2>2, HoldKept DEF Exit, Goto, Busy, TypeInv, TypeOK, books
  <2>3. ASSUME NEW reason, at[w] = "judging", SkipAs(w, reason)
        PROVE  HoldInv'
    BY <2>3, HoldBook DEF SkipAs, Busy
  <2>4. CASE SkipUnsupported(w) \/ SkipTooLarge(w) \/ SkipOverLimit(w)
    BY <2>3, <2>4 DEF SkipUnsupported, SkipTooLarge, SkipOverLimit
  <2>5. CASE BookFailure(w)
    BY <2>5, HoldBook DEF BookFailure, Busy
  <2>6. CASE BookOverLimit(w)
    BY <2>6, HoldBook DEF BookOverLimit, Busy
  <2>7. CASE BookCached(w)
    BY <2>7, HoldBook DEF BookCached, Busy
  <2>8. ASSUME NEW stage, stage \notin {"idle", "gone"}, Goto(w, stage),
               at[w] \notin {"idle", "gone"}
        PROVE  Busy' = Busy
    BY <2>8 DEF Goto, Busy, TypeInv, TypeOK
  <2>9. CASE Reserve(w) \/ FetchFails(w) \/ CopyFails(w) \/ CopyEnds(w) \/ DropTemp(w)
             \/ Rename(w) \/ RenameFails(w)
    <3>1. Busy' = Busy
      BY <2>8, <2>9 DEF Reserve, FetchFails, CopyFails, CopyEnds, DropTemp, Rename, RenameFails
    <3> QED
      BY <2>9, <3>1, HoldKept
         DEF Reserve, FetchFails, CopyFails, CopyEnds, DropTemp, Rename, RenameFails, books
  <2>10. CASE OpenTemp(w)
    <3>1. Busy' = Busy /\ unsent' = unsent /\ assets' = assets
      BY <2>8, <2>10 DEF OpenTemp, books
    <3>2. \A v \in Workers : job'[v].asset = job[v].asset
      BY <2>10 DEF OpenTemp, TypeInv, TypeOK, Job
    <3> QED
      BY <3>1, <3>2, HoldKept DEF Busy
  <2>11. CASE Copy(w)
    <3>1. Busy' = Busy /\ unsent' = unsent /\ assets' = assets
      BY <2>11 DEF Copy, books, Busy
    <3>2. \A v \in Workers : job'[v].asset = job[v].asset
      BY <2>11 DEF Copy, TypeInv, TypeOK, Job
    <3> QED
      BY <3>1, <3>2, HoldKept DEF Busy
  <2> QED
    BY <1>2, <2>1, <2>2, <2>4, <2>5, <2>6, <2>7, <2>9, <2>10, <2>11 DEF Work
<1> QED
  BY <1>1, <1>2 DEF Next

LEMMA HoldMeansOnce ==
  ASSUME TypeInv, HoldInv
  PROVE  OneOutcomeEach
<1> SUFFICES ASSUME NEW a \in Assets
             PROVE  Cardinality({i \in DOMAIN assets : assets[i].asset = a})
                      + Cardinality({w \in Busy : Of(w) = a})
                      + Cardinality({a} \cap unsent) = 1
  BY DEF OneOutcomeEach
<1> DEFINE booked == {i \in DOMAIN assets : assets[i].asset = a}
           held == {w \in Busy : Of(w) = a}
           left == {a} \cap unsent
<1>1. \A x : Cardinality({x}) = 1
  BY FS_Singleton
<1>2. Cardinality({}) = 0
  BY FS_EmptySet
<1>3. CASE a \in unsent
  <2>1. booked = {} /\ held = {} /\ left = {a}
    BY <1>3 DEF HoldInv
  <2>3. Cardinality(booked) = 0 /\ Cardinality(held) = 0 /\ Cardinality(left) = 1
    BY <1>1, <1>2, <2>1
  <2> QED
    BY <2>3
<1>4. CASE \E w \in Busy : Of(w) = a
  <2>1. PICK w \in Busy : Of(w) = a
    BY <1>4
  <2>2. booked = {} /\ held = {w} /\ left = {}
    BY <2>1 DEF HoldInv
  <2>3. Cardinality(booked) = 0 /\ Cardinality(held) = 1 /\ Cardinality(left) = 0
    BY <1>1, <1>2, <2>2
  <2> QED
    BY <2>3
<1>5. CASE \E i \in DOMAIN assets : assets[i].asset = a
  <2>1. PICK i \in DOMAIN assets : assets[i].asset = a
    BY <1>5
  <2>2. booked = {i} /\ held = {} /\ left = {}
    BY <2>1 DEF HoldInv
  <2>3. Cardinality(booked) = 1 /\ Cardinality(held) = 0 /\ Cardinality(left) = 0
    BY <1>1, <1>2, <2>2
  <2> QED
    BY <2>3
<1> QED
  BY <1>3, <1>4, <1>5 DEF HoldInv

\* Every asset is with the sender, one worker or one entry of the manifest, for any
\* number of assets and workers and whatever their URLs.
THEOREM AlwaysOneOutcomeEach == Spec => []OneOutcomeEach
<1>1. TypeInv /\ HoldInv => OneOutcomeEach
  BY HoldMeansOnce
<1> QED
  BY <1>1, TypeInit, TypeNext, HoldInit, HoldNext, PTL DEF Spec

-------------------------------------------------------------------------------
(* The directory, when no two assets are fetched from one URL. *)

OwnUrls ==
    \A c \in Collections : \A a, b \in Assets : c[a].source = c[b].source => a = b

\* A name is an asset's own, and there is a reason for every file.
Named ==
    \A s \in Sources :
        /\ temp[s] # None =>
              /\ Source(temp[s]) = s
              /\ \E w \in Workers : at[w] \in {"copying", "copied", "dropping"}
                                    /\ Of(w) = temp[s]
        /\ final[s] # None =>
              /\ Source(final[s]) = s
              /\ \/ \E w \in Workers : at[w] = "placed" /\ Of(w) = final[s]
                 \/ \E i \in DOMAIN assets : assets[i].status = "cached"
                                             /\ assets[i].asset = final[s]

\* The file of a download under way.
Download(w) ==
    LET a == Of(w)
    IN /\ at[w] = "copying" => job[w].inode = a /\ job[w].wrote <= job[w].body
                               /\ temp[Source(a)] = a /\ data[a] = 1..job[w].wrote
       /\ at[w] = "fetching" => job[w].wrote = 0
       /\ at[w] \in {"idle", "gone", "judging"} => job[w].wrote = 0
       /\ at[w] = "copied" => temp[Source(a)] = a /\ data[a] = 1..job[w].body
       /\ at[w] = "placed" => final[Source(a)] = a /\ data[a] = 1..job[w].body

\* The file of an entry.
Whole(i) ==
    LET a == assets[i].asset
    IN assets[i].status = "cached" => final[Source(a)] = a /\ data[a] = 1..assets[i].bytes

FilesInv ==
    /\ collected \in Collections
    /\ Named
    /\ \A w \in Workers : Download(w)
    /\ \A i \in DOMAIN assets : Whole(i)

LEMMA FilesInit == Init => FilesInv
<1> SUFFICES ASSUME Init PROVE FilesInv
  OBVIOUS
<1>1. DOMAIN assets = {}
  BY DEF Init
<1> QED
  BY <1>1 DEF Init, FilesInv, Named, Download, Whole, NoJob

\* The assets of a step of worker w, and what the directory says of all others.
Untouched(w) ==
    /\ collected' = collected
    /\ \A v \in Workers \ {w} : at'[v] = at[v] /\ job'[v] = job[v]
    /\ \A s \in Sources : s # Source(Of(w)) => temp'[s] = temp[s] /\ final'[s] = final[s]
    /\ \A a \in Assets : a # Of(w) => data'[a] = data[a]

LEMMA SourcesDiffer ==
  ASSUME OwnUrls, TypeInv, FilesInv, NEW a \in Assets, NEW b \in Assets, a # b
  PROVE  Source(a) # Source(b) /\ Source(a) \in Sources
  BY DEF OwnUrls, TypeInv, TypeOK, FilesInv, Source, Asset

\* The downloads of the other workers and the entries there were are as before.
LEMMA OthersKept ==
  ASSUME OwnUrls, TypeInv, HoldInv, FilesInv, NEW w \in Busy, Untouched(w)
  PROVE  /\ \A v \in Workers \ {w} : Download(v)'
         /\ \A i \in DOMAIN assets : assets'[i] = assets[i] => Whole(i)'
<1>1. Of(w) \in Assets /\ w \in Workers
  BY DEF TypeInv, Handed, Busy
<1>2. \A a \in Assets : Source(a)' = Source(a)
  BY DEF Untouched, Source
<1>3. ASSUME NEW v \in Workers \ {w}
      PROVE  Download(v)'
  <2>1. at'[v] = at[v] /\ job'[v] = job[v] /\ Of(v)' = Of(v) /\ Download(v)
    BY DEF Untouched, Of, FilesInv
  <2>2. CASE v \notin Busy
    BY <2>1, <2>2 DEF Download, Busy
  <2>3. CASE v \in Busy
    <3>1. Of(v) \in Assets /\ Of(v) # Of(w)
      BY <2>3 DEF TypeInv, Handed, Busy, HoldInv
    <3>2. Source(Of(v)) # Source(Of(w)) /\ Source(Of(v)) \in Sources
      BY <1>1, <3>1, SourcesDiffer
    <3>3. /\ temp'[Source(Of(v))] = temp[Source(Of(v))]
          /\ final'[Source(Of(v))] = final[Source(Of(v))]
          /\ data'[Of(v)] = data[Of(v)]
      BY <3>1, <3>2 DEF Untouched
    <3>4. Source(Of(v))' = Source(Of(v))
      BY <2>1, <1>2, <3>1 DEF Source, Untouched
    <3> QED
      BY <2>1, <3>3, <3>4 DEF Download
  <2> QED
    BY <2>2, <2>3
<1>4. ASSUME NEW i \in DOMAIN assets, assets'[i] = assets[i]
      PROVE  Whole(i)'
  <2>0. assets[i] \in Entry
    BY DEF TypeInv, TypeOK
  <2>1. assets[i].asset \in Assets /\ assets[i].asset # Of(w)
    BY <2>0 DEF Entry, HoldInv
  <2>2. Source(assets[i].asset) # Source(Of(w)) /\ Source(assets[i].asset) \in Sources
    BY <1>1, <2>1, SourcesDiffer
  <2>3. /\ final'[Source(assets[i].asset)] = final[Source(assets[i].asset)]
        /\ data'[assets[i].asset] = data[assets[i].asset]
    BY <2>1, <2>2 DEF Untouched
  <2>4. Whole(i) /\ Source(assets[i].asset)' = collected[assets'[i].asset].source
    BY DEF FilesInv, Source, Untouched
  <2> QED
    BY <1>4, <2>3, <2>4 DEF Whole, Source
<1> QED
  BY <1>3, <1>4

\* Named after a step of w that leaves the names alone, unless w was their reason.
LEMMA NamedKept ==
  ASSUME TypeInv, FilesInv, NEW w \in Workers, collected' = collected,
         temp' = temp, final' = final,
         \A v \in Workers \ {w} : at'[v] = at[v] /\ job'[v] = job[v],
         at[w] \in {"copying", "copied", "dropping"} =>
            at'[w] \in {"copying", "copied", "dropping"} /\ Of(w)' = Of(w),
         at[w] # "placed",
         \A i \in DOMAIN assets : i \in DOMAIN assets' /\ assets'[i] = assets[i]
  PROVE  Named'
<1>1. \A v \in Workers \ {w} : at'[v] = at[v] /\ Of(v)' = Of(v)
  BY DEF Of
<1>2. \A a \in Assets : Source(a)' = Source(a)
  BY DEF Source
<1>3. Named
  BY DEF FilesInv
<1>4. ASSUME NEW s \in Sources, temp'[s] # None
      PROVE  Source(temp[s])' = s
             /\ \E v \in Workers : at'[v] \in {"copying", "copied", "dropping"}
                                   /\ Of(v)' = temp'[s]
  <2>1. temp[s] \in Assets /\ temp'[s] = temp[s]
    BY <1>4 DEF TypeInv, TypeOK
  <2>2. Source(temp[s])' = s
    BY <1>2, <1>3, <1>4, <2>1 DEF Named, Source
  <2>3. PICK v \in Workers : at[v] \in {"copying", "copied", "dropping"} /\ Of(v) = temp[s]
    BY <1>3, <1>4, <2>1 DEF Named
  <2> QED
    BY <1>1, <2>1, <2>2, <2>3 DEF Source
<1>5. ASSUME NEW s \in Sources, final'[s] # None
      PROVE  Source(final[s])' = s
             /\ \/ \E v \in Workers : at'[v] = "placed" /\ Of(v)' = final'[s]
                \/ \E i \in DOMAIN assets' : assets'[i].status = "cached"
                                             /\ assets'[i].asset = final'[s]
  <2>1. final[s] \in Assets /\ final'[s] = final[s]
    BY <1>5 DEF TypeInv, TypeOK
  <2>2. Source(final[s])' = s
    BY <1>2, <1>3, <1>5, <2>1 DEF Named, Source
  <2>3. CASE \E v \in Workers : at[v] = "placed" /\ Of(v) = final[s]
    BY <1>1, <2>1, <2>2, <2>3 DEF Source
  <2>4. CASE \E i \in DOMAIN assets : assets[i].status = "cached" /\ assets[i].asset = final[s]
    BY <2>1, <2>2, <2>4 DEF Source
  <2> QED
    BY <1>3, <1>5, <2>1, <2>3, <2>4 DEF Named
<1> QED
  BY <1>4, <1>5 DEF Named, Source

\* Steps that leave the files alone and book nothing.
LEMMA FilesIdle ==
  ASSUME OwnUrls, TypeInv, HoldInv, FilesInv, NEW w \in Workers,
         \/ Take(w) \/ Exit(w) \/ Reserve(w) \/ FetchFails(w) \/ CopyFails(w)
         \/ CopyEnds(w) \/ RenameFails(w)
  PROVE  FilesInv'
<1>1. UNCHANGED <<collected, temp, final, data, assets>>
  BY DEF Take, Exit, Reserve, FetchFails, CopyFails, CopyEnds, RenameFails, files, books
<1>2. \A v \in Workers \ {w} : at'[v] = at[v] /\ job'[v] = job[v]
  BY DEF Take, Exit, Reserve, FetchFails, CopyFails, CopyEnds, RenameFails, Goto, TypeInv, TypeOK
<1>3. \A i \in DOMAIN assets' : Whole(i)'
  BY <1>1 DEF FilesInv, Whole, Source
<1>4. \A v \in Workers \ {w} : Download(v)'
  BY <1>1, <1>2 DEF FilesInv, Download, Source, Of
<1>5. Download(w)'
  <2>1. CASE Take(w)
    <3>1. PICK a \in unsent : job' = [job EXCEPT ![w] = [NoJob EXCEPT !.asset = a]]
      BY <2>1 DEF Take
    <3>2. job'[w].wrote = 0 /\ at'[w] = "judging"
      BY <2>1, <3>1 DEF Take, Goto, NoJob, TypeInv, TypeOK
    <3> QED
      BY <3>2 DEF Download
  <2>2. CASE Exit(w)
    BY <2>2 DEF Exit, Goto, TypeInv, TypeOK, FilesInv, Download
  <2>3. CASE Reserve(w)
    BY <2>3 DEF Reserve, Goto, TypeInv, TypeOK, FilesInv, Download
  <2>4. CASE FetchFails(w) \/ CopyFails(w) \/ RenameFails(w)
    BY <2>4 DEF FetchFails, CopyFails, RenameFails, Goto, TypeInv, TypeOK, Download
  <2>5. CASE CopyEnds(w)
    <3>1. /\ job' = job /\ at[w] = "copying" /\ job[w].wrote = job[w].body
          /\ at'[w] \in {"dropping", "copied"} /\ Of(w)' = Of(w)
      BY <2>5 DEF CopyEnds, Goto, TypeInv, TypeOK, Of
    <3>2. Download(w)
      BY DEF FilesInv
    <3> QED
      BY <1>1, <3>1, <3>2 DEF Download, Source
  <2> QED
    BY <2>1, <2>2, <2>3, <2>4, <2>5
<1>6. Named'
  <2>1. at[w] # "placed"
    BY DEF Take, Exit, Reserve, FetchFails, CopyFails, CopyEnds, RenameFails
  <2>2. at[w] \in {"copying", "copied", "dropping"} =>
           at'[w] \in {"copying", "copied", "dropping"} /\ Of(w)' = Of(w)
    BY DEF Take, Exit, Reserve, FetchFails, CopyFails, CopyEnds, RenameFails, Goto, Of,
           TypeInv, TypeOK
  <2> QED
    BY <1>1, <1>2, <2>1, <2>2, NamedKept
<1> QED
  BY <1>1, <1>3, <1>4, <1>5, <1>6 DEF FilesInv

\* What a booking appends.
LEMMA Appended ==
  ASSUME TypeInv, NEW w \in Busy, NEW status, NEW reason, NEW bytes,
         Book(w, status, reason, bytes)
  PROVE  /\ DOMAIN assets' = DOMAIN assets \cup {Len(assets) + 1}
         /\ \A i \in DOMAIN assets : assets'[i] = assets[i]
         /\ assets'[Len(assets) + 1].asset = Of(w)
         /\ assets'[Len(assets) + 1].status = status
         /\ assets'[Len(assets) + 1].bytes = bytes
<1> DEFINE e == [asset |-> Of(w), status |-> status, reason |-> reason, bytes |-> bytes]
<1>1. /\ assets' = Append(assets, e) /\ assets \in Seq(Entry)
      /\ e.asset = Of(w) /\ e.status = status /\ e.bytes = bytes
  BY DEF Book, TypeInv, TypeOK
<1> HIDE DEF e
<1>2. /\ DOMAIN assets = 1..Len(assets) /\ DOMAIN assets' = 1..(Len(assets) + 1)
      /\ Len(assets) \in Nat
      /\ \A i \in 1..Len(assets) : assets'[i] = assets[i]
      /\ assets'[Len(assets) + 1] = e
  BY <1>1
<1> QED
  BY <1>1, <1>2

\* Entries without a file: skipped and failed.
LEMMA FilesBookNothing ==
  ASSUME OwnUrls, TypeInv, HoldInv, FilesInv, NEW w \in Busy,
         at[w] \in {"judging", "failed"}, NEW status \in {"skipped", "failed"}, NEW reason,
         Book(w, status, reason, 0), Continue(w), UNCHANGED <<collected, temp, final, data>>
  PROVE  FilesInv'
<1>0. w \in Workers
  BY DEF Busy
<1>1. \A v \in Workers \ {w} : at'[v] = at[v] /\ job'[v] = job[v]
  BY DEF Continue, Goto, TypeInv, TypeOK
<1>2. at'[w] = "idle" /\ job'[w].wrote = 0
  BY <1>0 DEF Continue, Goto, NoJob, TypeInv, TypeOK
<1>3. \A v \in Workers : Download(v)'
  BY <1>1, <1>2 DEF FilesInv, Download, Source, Of
<1>4. \A i \in DOMAIN assets' : Whole(i)'
  BY Appended DEF FilesInv, Whole, Source
<1>5. Named'
  BY <1>0, <1>1, Appended, NamedKept
<1> QED
  BY <1>3, <1>4, <1>5 DEF FilesInv

LEMMA FilesOpenTemp ==
  ASSUME OwnUrls, TypeInv, HoldInv, FilesInv, NEW w \in Workers, OpenTemp(w)
  PROVE  FilesInv'
<1> DEFINE a == Of(w)
           s == Source(a)
<1>1. at[w] = "fetching" /\ w \in Busy /\ job[w].wrote = 0
  BY DEF OpenTemp, Busy, FilesInv, Download
<1>2. a \in Assets /\ s \in Sources
  BY <1>1 DEF Busy, TypeInv, TypeOK, Handed, Source, Asset
\* A file under that name would be this asset's, and somebody else's.
<1>3. temp[s] = None
  <2>1. SUFFICES ASSUME temp[s] # None PROVE FALSE
    OBVIOUS
  <2>2. temp[s] \in Assets /\ Source(temp[s]) = s
    BY <1>2, <2>1 DEF TypeInv, TypeOK, FilesInv, Named
  <2>3. temp[s] = a
    BY <1>2, <2>2, SourcesDiffer
  <2>4. PICK v \in Workers : at[v] \in {"copying", "copied", "dropping"} /\ Of(v) = temp[s]
    BY <1>2, <2>1 DEF FilesInv, Named
  <2>5. v \in Busy /\ v # w /\ Of(v) = Of(w)
    BY <1>1, <2>3, <2>4 DEF Busy
  <2> QED
    BY <1>1, <2>5 DEF HoldInv
<1>4. PICK size \in Bytes : job' = [job EXCEPT ![w].body = size, ![w].inode = a]
  BY <1>3 DEF OpenTemp, TempName
<1>5. /\ temp' = [temp EXCEPT ![s] = a] /\ data' = [data EXCEPT ![a] = {}]
      /\ at' = [at EXCEPT ![w] = "copying"]
      /\ UNCHANGED <<collected, unsent, final, assets>>
  BY <1>3 DEF OpenTemp, TempName, Goto, books
<1> HIDE DEF s
<1>6. at'[w] = "copying" /\ Of(w)' = a /\ job'[w].inode = a /\ job'[w].wrote = 0
      /\ job'[w].body \in Nat
  BY <1>1, <1>4, <1>5, ConstantFacts DEF TypeInv, TypeOK, Job, Of, Bytes
<1>7. \A v \in Workers \ {w} : at'[v] = at[v] /\ job'[v] = job[v] /\ Of(v)' = Of(v)
  BY <1>4, <1>5 DEF TypeInv, TypeOK, Of
<1>8. temp'[s] = a /\ data'[a] = {} /\ collected'[a].source = s
  <2>1. temp'[s] = a /\ data'[a] = {}
    BY <1>2, <1>5 DEF TypeInv, TypeOK
  <2>2. collected'[a].source = s
    BY <1>5 DEF Source, s
  <2> QED
    BY <2>1, <2>2
<1>9. Untouched(w)
  BY <1>2, <1>5, <1>7 DEF Untouched, TypeInv, TypeOK, s
<1>10. /\ \A v \in Workers \ {w} : Download(v)'
       /\ \A i \in DOMAIN assets' : Whole(i)'
  BY <1>1, <1>5, <1>9, OthersKept
<1>11. Download(w)'
  <2>1. 1..job'[w].wrote = {}
    BY <1>6
  <2>2. 0 <= job'[w].body
    BY <1>6
  <2> QED
    BY <1>5, <1>6, <1>8, <2>1, <2>2 DEF Download, Source
<1>12. Named'
  <2>1. \A b \in Assets : Source(b)' = Source(b)
    BY <1>5 DEF Source
  <2>2. ASSUME NEW q \in Sources, temp'[q] # None
        PROVE  collected'[temp'[q]].source = q
               /\ \E v \in Workers : at'[v] \in {"copying", "copied", "dropping"}
                                     /\ Of(v)' = temp'[q]
    <3>1. CASE q = s
      BY <1>5, <1>6, <1>8, <3>1 DEF Source, s
    <3>2. CASE q # s
      <4>1. temp'[q] = temp[q] /\ temp[q] # None
        BY <1>5, <2>2, <3>2 DEF TypeInv, TypeOK
      <4>2. Source(temp[q]) = q
            /\ \E v \in Workers : at[v] \in {"copying", "copied", "dropping"}
                                  /\ Of(v) = temp[q]
        BY <4>1 DEF FilesInv, Named
      <4> QED
        BY <1>1, <1>5, <1>7, <4>1, <4>2 DEF Source
    <3> QED
      BY <3>1, <3>2
  <2>3. ASSUME NEW q \in Sources, final'[q] # None
        PROVE  collected'[final'[q]].source = q
               /\ \/ \E v \in Workers : at'[v] = "placed" /\ Of(v)' = final'[q]
                  \/ \E i \in DOMAIN assets' : assets'[i].status = "cached"
                                               /\ assets'[i].asset = final'[q]
    <3>1. final'[q] = final[q] /\ assets' = assets /\ collected' = collected
      BY <1>5
    <3>2. Source(final[q]) = q
          /\ \/ \E v \in Workers : at[v] = "placed" /\ Of(v) = final[q]
             \/ \E i \in DOMAIN assets : assets[i].status = "cached"
                                         /\ assets[i].asset = final[q]
      BY <2>3, <3>1 DEF FilesInv, Named
    <3> QED
      BY <1>1, <1>7, <3>1, <3>2 DEF Source
  <2> QED
    BY <2>2, <2>3 DEF Named, Source
<1> QED
  BY <1>5, <1>10, <1>11, <1>12 DEF FilesInv

LEMMA FilesCopy ==
  ASSUME OwnUrls, TypeInv, HoldInv, FilesInv, NEW w \in Workers, Copy(w)
  PROVE  FilesInv'
<1> DEFINE a == Of(w)
           n == job[w].wrote
<1>1. at[w] = "copying" /\ w \in Busy /\ Download(w) /\ n < job[w].body
  BY DEF Copy, Busy, FilesInv
<1>2. a \in Assets /\ Source(a) \in Sources
  BY <1>1 DEF Busy, TypeInv, TypeOK, Handed, Source, Asset
<1>3. /\ job[w].inode = a /\ temp[Source(a)] = a /\ data[a] = 1..n
      /\ n \in Nat /\ job[w].body \in Nat
  BY <1>1, ConstantFacts DEF Download, TypeInv, TypeOK, Job, Bytes
<1>4. /\ job' = [job EXCEPT ![w].wrote = @ + 1]
      /\ data' = [data EXCEPT ![a] = @ \cup {n + 1}]
      /\ UNCHANGED <<collected, at, temp, final, assets>>
  BY <1>3 DEF Copy, books
<1> HIDE DEF n
<1>5. /\ Of(w)' = a /\ job'[w].inode = a /\ job'[w].wrote = n + 1
      /\ job'[w].body = job[w].body
  BY <1>3, <1>4 DEF TypeInv, TypeOK, Job, Of, n
<1>6. \A v \in Workers \ {w} : at'[v] = at[v] /\ job'[v] = job[v]
  BY <1>4 DEF TypeInv, TypeOK
<1>7. data'[a] = 1..(n + 1)
  <2>1. data'[a] = data[a] \cup {n + 1}
    BY <1>2, <1>4 DEF TypeInv, TypeOK
  <2>2. (1..n) \cup {n + 1} = 1..(n + 1)
    BY <1>3
  <2> QED
    BY <1>3, <2>1, <2>2
<1>8. Untouched(w)
  BY <1>2, <1>4, <1>6 DEF Untouched, TypeInv, TypeOK
<1>9. /\ \A v \in Workers \ {w} : Download(v)'
      /\ \A i \in DOMAIN assets' : Whole(i)'
  BY <1>1, <1>4, <1>8, OthersKept
<1>10. Download(w)'
  <2>1. n + 1 <= job'[w].body
    BY <1>1, <1>3, <1>5 DEF n
  <2>2. at'[w] = "copying" /\ temp'[collected'[a].source] = a
    BY <1>1, <1>3, <1>4 DEF Source
  <2> QED
    BY <1>5, <1>7, <2>1, <2>2 DEF Download, Source
<1>11. Named'
  BY <1>1, <1>4, <1>5, <1>6, NamedKept
<1> QED
  BY <1>4, <1>9, <1>10, <1>11 DEF FilesInv

LEMMA FilesDropTemp ==
  ASSUME OwnUrls, TypeInv, HoldInv, FilesInv, NEW w \in Workers, DropTemp(w)
  PROVE  FilesInv'
<1> DEFINE a == Of(w)
           s == Source(a)
<1>1. at[w] = "dropping" /\ w \in Busy
  BY DEF DropTemp, Busy
<1>2. a \in Assets /\ s \in Sources
  BY <1>1 DEF Busy, TypeInv, TypeOK, Handed, Source, Asset
<1>3. /\ temp' = [temp EXCEPT ![s] = None] /\ at' = [at EXCEPT ![w] = "failed"]
      /\ UNCHANGED <<collected, job, final, data, assets>>
  BY DEF DropTemp, TempName, Goto, books
<1> HIDE DEF s
<1>4. \A v \in Workers \ {w} : at'[v] = at[v] /\ job'[v] = job[v] /\ Of(v)' = Of(v)
  BY <1>3 DEF TypeInv, TypeOK, Of
<1>5. Untouched(w)
  BY <1>2, <1>3, <1>4 DEF Untouched, TypeInv, TypeOK, s
<1>6. /\ \A v \in Workers \ {w} : Download(v)'
      /\ \A i \in DOMAIN assets' : Whole(i)'
  BY <1>1, <1>3, <1>5, OthersKept
<1>7. Download(w)'
  BY <1>3 DEF Download, TypeInv, TypeOK
<1>8. ASSUME NEW q \in Sources, temp'[q] # None
      PROVE  collected'[temp'[q]].source = q
             /\ \E v \in Workers : at'[v] \in {"copying", "copied", "dropping"}
                                   /\ Of(v)' = temp'[q]
  <2>1. q # s /\ temp'[q] = temp[q] /\ temp[q] # None
    BY <1>2, <1>3, <1>8 DEF TypeInv, TypeOK
  <2>2. PICK v \in Workers : at[v] \in {"copying", "copied", "dropping"} /\ Of(v) = temp[q]
    BY <2>1 DEF FilesInv, Named
  <2>3. Source(temp[q]) = q
    BY <2>1 DEF FilesInv, Named
  <2>4. v # w
    BY <2>1, <2>2, <2>3 DEF s
  <2> QED
    BY <1>3, <1>4, <2>1, <2>2, <2>3, <2>4 DEF Source
<1>9. ASSUME NEW q \in Sources, final'[q] # None
      PROVE  collected'[final'[q]].source = q
             /\ \/ \E v \in Workers : at'[v] = "placed" /\ Of(v)' = final'[q]
                \/ \E i \in DOMAIN assets' : assets'[i].status = "cached"
                                             /\ assets'[i].asset = final'[q]
  <2>1. final'[q] = final[q] /\ assets' = assets /\ collected' = collected
    BY <1>3
  <2>2. Source(final[q]) = q
        /\ \/ \E v \in Workers : at[v] = "placed" /\ Of(v) = final[q]
           \/ \E i \in DOMAIN assets : assets[i].status = "cached"
                                       /\ assets[i].asset = final[q]
    BY <1>9, <2>1 DEF FilesInv, Named
  <2> QED
    BY <1>1, <1>4, <2>1, <2>2 DEF Source
<1>10. Named'
  BY <1>8, <1>9 DEF Named, Source
<1> QED
  BY <1>3, <1>6, <1>7, <1>10 DEF FilesInv

LEMMA FilesRename ==
  ASSUME OwnUrls, TypeInv, HoldInv, FilesInv, NEW w \in Workers, Rename(w)
  PROVE  FilesInv'
<1> DEFINE a == Of(w)
           s == Source(a)
<1>1. at[w] = "copied" /\ w \in Busy /\ Download(w)
  BY DEF Rename, Busy, FilesInv
<1>2. a \in Assets /\ s \in Sources
  BY <1>1 DEF Busy, TypeInv, TypeOK, Handed, Source, Asset
<1>3. temp[s] = a /\ data[a] = 1..job[w].body
  BY <1>1 DEF Download
<1>4. /\ temp' = [temp EXCEPT ![s] = None] /\ final' = [final EXCEPT ![s] = a]
      /\ at' = [at EXCEPT ![w] = "placed"]
      /\ UNCHANGED <<collected, job, data, assets>>
  BY <1>3 DEF Rename, TempName, Goto, books
<1> HIDE DEF s
<1>5. \A v \in Workers \ {w} : at'[v] = at[v] /\ job'[v] = job[v] /\ Of(v)' = Of(v)
  BY <1>4 DEF TypeInv, TypeOK, Of
<1>6. at'[w] = "placed" /\ Of(w)' = a /\ final'[s] = a /\ temp'[s] = None
  BY <1>2, <1>4 DEF TypeInv, TypeOK, Of
<1>7. Untouched(w)
  BY <1>2, <1>4, <1>5 DEF Untouched, TypeInv, TypeOK, s
<1>8. /\ \A v \in Workers \ {w} : Download(v)'
      /\ \A i \in DOMAIN assets' : Whole(i)'
  BY <1>1, <1>4, <1>7, OthersKept
<1>9. collected'[a].source = s
  BY <1>4 DEF Source, s
<1>10. Download(w)'
  BY <1>3, <1>4, <1>6, <1>9 DEF Download, Source
<1>11. ASSUME NEW q \in Sources, temp'[q] # None
       PROVE  collected'[temp'[q]].source = q
              /\ \E v \in Workers : at'[v] \in {"copying", "copied", "dropping"}
                                    /\ Of(v)' = temp'[q]
  <2>1. q # s /\ temp'[q] = temp[q] /\ temp[q] # None
    BY <1>2, <1>4, <1>11 DEF TypeInv, TypeOK
  <2>2. PICK v \in Workers : at[v] \in {"copying", "copied", "dropping"} /\ Of(v) = temp[q]
    BY <2>1 DEF FilesInv, Named
  <2>3. Source(temp[q]) = q
    BY <2>1 DEF FilesInv, Named
  <2>4. v # w
    BY <2>1, <2>2, <2>3 DEF s
  <2> QED
    BY <1>4, <1>5, <2>1, <2>2, <2>3, <2>4 DEF Source
<1>12. ASSUME NEW q \in Sources, final'[q] # None
       PROVE  collected'[final'[q]].source = q
              /\ \/ \E v \in Workers : at'[v] = "placed" /\ Of(v)' = final'[q]
                 \/ \E i \in DOMAIN assets' : assets'[i].status = "cached"
                                              /\ assets'[i].asset = final'[q]
  <2>1. CASE q = s
    BY <1>6, <1>9, <2>1
  <2>2. CASE q # s
    <3>1. final'[q] = final[q] /\ assets' = assets /\ collected' = collected
      BY <1>4, <2>2 DEF TypeInv, TypeOK
    <3>2. Source(final[q]) = q
          /\ \/ \E v \in Workers : at[v] = "placed" /\ Of(v) = final[q]
             \/ \E i \in DOMAIN assets : assets[i].status = "cached"
                                         /\ assets[i].asset = final[q]
      BY <1>12, <3>1 DEF FilesInv, Named
    <3> QED
      BY <1>1, <1>5, <3>1, <3>2 DEF Source
  <2> QED
    BY <2>1, <2>2
<1>13. Named'
  BY <1>11, <1>12 DEF Named, Source
<1> QED
  BY <1>4, <1>8, <1>10, <1>13 DEF FilesInv

\* The two ways a placed file is booked.
LEMMA FilesBookPlaced ==
  ASSUME OwnUrls, TypeInv, HoldInv, FilesInv, NEW w \in Workers,
         BookOverLimit(w) \/ BookCached(w)
  PROVE  FilesInv'
<1> DEFINE a == Of(w)
           s == Source(a)
<1>0. PICK k : k = Len(assets) + 1
  OBVIOUS
<1>1. at[w] = "placed" /\ w \in Busy /\ Download(w) /\ Continue(w)
  BY DEF BookOverLimit, BookCached, Busy, FilesInv
<1>2. a \in Assets /\ s \in Sources
  BY <1>1 DEF Busy, TypeInv, TypeOK, Handed, Source, Asset
<1>3. final[s] = a /\ data[a] = 1..job[w].body
  BY <1>1 DEF Download
<1>4. UNCHANGED <<collected, temp, data>>
  BY DEF BookOverLimit, BookCached, files
<1>5. \/ BookCached(w) /\ final' = final
      \/ BookOverLimit(w) /\ final' = [final EXCEPT ![s] = None]
  BY DEF BookOverLimit, BookCached, files
<1>6. /\ DOMAIN assets' = DOMAIN assets \cup {k}
      /\ \A i \in DOMAIN assets : assets'[i] = assets[i]
      /\ assets'[k].asset = a
      /\ BookCached(w) => assets'[k].status = "cached" /\ assets'[k].bytes = job[w].body
      /\ BookOverLimit(w) => assets'[k].status = "skipped"
  BY <1>0, <1>1, Appended DEF BookCached, BookOverLimit
<1> HIDE DEF s
<1>7. \A v \in Workers \ {w} : at'[v] = at[v] /\ job'[v] = job[v] /\ Of(v)' = Of(v)
  BY <1>1 DEF Continue, Goto, TypeInv, TypeOK, Of
<1>8. at'[w] = "idle" /\ job'[w].wrote = 0
  BY <1>1 DEF Continue, Goto, NoJob, TypeInv, TypeOK
<1>9. Untouched(w)
  BY <1>2, <1>4, <1>5, <1>7 DEF Untouched, TypeInv, TypeOK, s
<1>10. /\ \A v \in Workers \ {w} : Download(v)'
       /\ \A i \in DOMAIN assets : Whole(i)'
  BY <1>1, <1>6, <1>9, OthersKept
<1>11. Download(w)'
  BY <1>8 DEF Download
<1>12. collected'[a].source = s
  BY <1>4 DEF Source, s
<1>13. Whole(k)'
  <2>1. CASE BookCached(w)
    <3>1. final' = final
      BY <2>1 DEF BookCached, files
    <3> QED
      BY <1>3, <1>4, <1>6, <1>12, <2>1, <3>1 DEF Whole, Source
  <2>2. CASE BookOverLimit(w)
    BY <1>6, <2>2 DEF Whole
  <2> QED
    BY <2>1, <2>2
<1>14. ASSUME NEW q \in Sources, temp'[q] # None
       PROVE  collected'[temp'[q]].source = q
              /\ \E v \in Workers : at'[v] \in {"copying", "copied", "dropping"}
                                    /\ Of(v)' = temp'[q]
  <2>1. temp'[q] = temp[q] /\ temp[q] # None
    BY <1>4, <1>14
  <2>2. Source(temp[q]) = q
        /\ \E v \in Workers : at[v] \in {"copying", "copied", "dropping"} /\ Of(v) = temp[q]
    BY <2>1 DEF FilesInv, Named
  <2> QED
    BY <1>1, <1>4, <1>7, <2>1, <2>2 DEF Source
<1>15. ASSUME NEW q \in Sources, final'[q] # None
       PROVE  collected'[final'[q]].source = q
              /\ \/ \E v \in Workers : at'[v] = "placed" /\ Of(v)' = final'[q]
                 \/ \E i \in DOMAIN assets' : assets'[i].status = "cached"
                                              /\ assets'[i].asset = final'[q]
  <2>1. CASE q = s
    <3>1. BookCached(w) /\ final' = final
      BY <1>2, <1>5, <1>15, <2>1 DEF TypeInv, TypeOK
    <3> QED
      BY <1>3, <1>6, <1>12, <2>1, <3>1
  <2>2. CASE q # s
    <3>1. final'[q] = final[q] /\ collected' = collected
      BY <1>4, <1>5, <2>2 DEF TypeInv, TypeOK
    <3>2. Source(final[q]) = q
          /\ \/ \E v \in Workers : at[v] = "placed" /\ Of(v) = final[q]
             \/ \E i \in DOMAIN assets : assets[i].status = "cached"
                                         /\ assets[i].asset = final[q]
      BY <1>15, <3>1 DEF FilesInv, Named
    <3>3. \A v \in Workers : at[v] = "placed" /\ Of(v) = final[q] => v # w
      BY <2>2, <3>2 DEF s
    <3> QED
      BY <1>6, <1>7, <3>1, <3>2, <3>3 DEF Source
  <2> QED
    BY <2>1, <2>2
<1>16. Named'
  BY <1>14, <1>15 DEF Named, Source
<1> QED
  BY <1>4, <1>6, <1>10, <1>11, <1>13, <1>16 DEF FilesInv

LEMMA FilesNext ==
  ASSUME OwnUrls, TypeInv, HoldInv, FilesInv, [Next]_vars
  PROVE  FilesInv'
<1>1. CASE UNCHANGED vars
  <2>1. /\ collected' \in Collections
        /\ \A w \in Workers : Download(w)'
        /\ \A i \in DOMAIN assets' : Whole(i)'
    BY <1>1 DEF FilesInv, Download, Whole, Source, Of, vars
  <2>2. Named'
    BY <1>1 DEF FilesInv, Named, Source, Of, vars
  <2> QED
    BY <2>1, <2>2 DEF FilesInv
<1>2. ASSUME NEW w \in Workers, Work(w)
      PROVE  FilesInv'
  <2>1. ASSUME NEW reason, at[w] = "judging", SkipAs(w, reason)
        PROVE  FilesInv'
    BY <2>1, FilesBookNothing DEF SkipAs, Busy, files
  <2>2. CASE SkipUnsupported(w) \/ SkipTooLarge(w) \/ SkipOverLimit(w)
    BY <2>1, <2>2 DEF SkipUnsupported, SkipTooLarge, SkipOverLimit
  <2>3. CASE BookFailure(w)
    BY <2>3, FilesBookNothing DEF BookFailure, Busy, files
  <2> QED
    BY <1>2, <2>2, <2>3, FilesIdle, FilesOpenTemp, FilesCopy, FilesDropTemp, FilesRename,
       FilesBookPlaced DEF Work
<1> QED
  BY <1>1, <1>2 DEF Next

LEMMA FilesMean ==
  ASSUME TypeInv, FilesInv
  PROVE  CachedIsWhole
<1> SUFFICES ASSUME NEW i \in Entries("cached")
             PROVE  LET s == Source(assets[i].asset)
                    IN final[s] # None /\ data[final[s]] = 1..assets[i].bytes
  BY DEF CachedIsWhole
<1>1. i \in DOMAIN assets /\ assets[i].status = "cached" /\ assets[i] \in Entry
  BY DEF Entries, TypeInv, TypeOK
<1>2. assets[i].asset # None /\ Whole(i)
  BY <1>1, ConstantFacts DEF Entry, FilesInv
<1> QED
  BY <1>1, <1>2 DEF Whole

\* Every asset the manifest lists as cached is in the directory, the whole of the
\* response, as long as no two assets are fetched from one URL; without that
\* assumption it is false.
THEOREM CachedAlwaysWhole ==
  ASSUME OwnUrls
  PROVE  Spec => []CachedIsWhole
<1>1. FilesInv /\ TypeInv => CachedIsWhole
  BY FilesMean
<1>2. TypeInv /\ HoldInv /\ FilesInv /\ [Next]_vars => FilesInv'
  BY FilesNext
<1> QED
  BY <1>1, <1>2, TypeInit, TypeNext, HoldInit, HoldNext, FilesInit, PTL DEF Spec

-------------------------------------------------------------------------------
(* The books: what the counters under the mutex stand for. *)

\* The sums, as functions over what is in flight and what is cached.
Reservations == [w \in InFlight |-> Reservation(Of(w))]
CachedBytes == [i \in Entries("cached") |-> assets[i].bytes]

LEMMA FiniteParts ==
  ASSUME TypeInv
  PROVE  /\ IsFiniteSet(InFlight) /\ IsFiniteSet(Entries("cached"))
         /\ \A w \in InFlight : Reservations[w] = Reservation(Of(w)) /\ Reservations[w] \in Nat
         /\ \A i \in Entries("cached") : CachedBytes[i] = assets[i].bytes /\ CachedBytes[i] \in Nat
<1>1. IsFiniteSet(InFlight)
  <2>1. InFlight \subseteq Workers
    BY DEF InFlight, Busy
  <2> QED
    BY <2>1, FS_Subset, MediaAssumption
<1>2. IsFiniteSet(Entries("cached"))
  <2>1. assets \in Seq(Entry)
    BY DEF TypeInv, TypeOK
  <2>2. Entries("cached") \subseteq 1..Len(assets) /\ Len(assets) \in Nat
    BY <2>1 DEF Entries
  <2>3. IsFiniteSet(1..Len(assets))
    BY <2>2, FS_Interval
  <2> QED
    BY <2>2, <2>3, FS_Subset
<1>3. \A w \in InFlight : Reservation(Of(w)) \in Nat
  BY ReservationIsNat DEF InFlight, Busy, TypeInv, TypeOK, Handed
<1>4. \A i \in Entries("cached") : assets[i].bytes \in Nat
  <2>1. \A i \in Entries("cached") : assets[i] \in Entry
    BY DEF Entries, TypeInv, TypeOK
  <2>2. \A e \in Entry : e.bytes \in Bytes
    BY DEF Entry
  <2>3. Bytes \subseteq Nat
    BY ConstantFacts DEF Bytes
  <2> QED
    BY <2>1, <2>2, <2>3
<1> QED
  BY <1>1, <1>2, <1>3, <1>4 DEF Reservations, CachedBytes

\* The two halves of AccountsAgree.
BookedAgrees == TotalBytes = SumFunctionOnSet(CachedBytes, Entries("cached"))
ReservedAgrees == reserved = SumFunctionOnSet(Reservations, InFlight)

LEMMA AccountsMean ==
    /\ BookedAgrees /\ ReservedAgrees <=> AccountsAgree
    /\ (BookedAgrees /\ ReservedAgrees)' <=> AccountsAgree'
  BY DEF AccountsAgree, BookedAgrees, ReservedAgrees, SumFunction, CachedBytes, Reservations

\* The manifest lists no more as cached than before.
LEMMA BookedSame ==
  ASSUME TypeInv, BookedAgrees, TotalBytes' = TotalBytes, Entries("cached")' = Entries("cached"),
         \A i \in Entries("cached") : assets'[i].bytes = assets[i].bytes
  PROVE  BookedAgrees'
<1>1. CachedBytes' = CachedBytes
  BY DEF CachedBytes
<1> QED
  BY <1>1 DEF BookedAgrees

LEMMA BookedMore ==
  ASSUME TypeInv, BookedAgrees, NEW k, k \notin Entries("cached"), NEW n \in Nat,
         Entries("cached")' = Entries("cached") \cup {k}, assets'[k].bytes = n,
         \A i \in Entries("cached") : assets'[i].bytes = assets[i].bytes,
         TotalBytes' = TotalBytes + n
  PROVE  BookedAgrees'
<1> DEFINE E == Entries("cached")
           f == CachedBytes
           g == CachedBytes'
<1>1. IsFiniteSet(E) /\ \A i \in E : f[i] = assets[i].bytes /\ f[i] \in Nat
  BY FiniteParts
<1>2. \A i \in E \cup {k} : g[i] = assets'[i].bytes
  BY DEF CachedBytes
<1>3. g[k] = n /\ \A i \in E : g[i] = f[i]
  BY <1>1, <1>2
<1>4. TotalBytes = SumFunctionOnSet(f, E)
  BY DEF BookedAgrees
<1>5. k \notin E
  OBVIOUS
<1> HIDE DEF E, f, g
<1>6. SumFunctionOnSet(g, E \cup {k}) = SumFunctionOnSet(g, E) + g[k]
  <2>1. \A i \in E \cup {k} : g[i] \in Int
    BY <1>1, <1>3
  <2> QED
    BY <1>1, <1>5, <2>1, SumAdd
<1>7. SumFunctionOnSet(g, E) = SumFunctionOnSet(f, E)
  BY <1>1, <1>3, SumSame
<1> QED
  BY <1>3, <1>4, <1>6, <1>7 DEF BookedAgrees, E, g

\* The same downloads are in flight, for the same assets.
LEMMA ReservedSame ==
  ASSUME TypeInv, ReservedAgrees, InFlight' = InFlight, UNCHANGED <<collected, reserved>>,
         \A v \in InFlight : Of(v)' = Of(v)
  PROVE  ReservedAgrees'
<1>1. Reservations' = Reservations
  BY DEF Reservations, Reservation
<1> QED
  BY <1>1 DEF ReservedAgrees

LEMMA ReservedMore ==
  ASSUME TypeInv, ReservedAgrees, NEW w \in Workers, w \notin InFlight, Of(w) \in Assets,
         InFlight' = InFlight \cup {w}, UNCHANGED collected,
         \A v \in InFlight \cup {w} : Of(v)' = Of(v),
         reserved' = reserved + Reservation(Of(w))
  PROVE  ReservedAgrees'
<1> DEFINE F == InFlight
           f == Reservations
           g == Reservations'
<1>1. IsFiniteSet(F) /\ \A v \in F : f[v] = Reservation(Of(v)) /\ f[v] \in Nat
  BY FiniteParts
<1>2. \A v \in F \cup {w} : g[v] = Reservation(Of(v))
  BY DEF Reservations, Reservation
<1>3. Reservation(Of(w)) \in Nat
  BY ReservationIsNat DEF TypeInv, TypeOK
<1>4. reserved = SumFunctionOnSet(f, F) /\ w \notin F
  BY DEF ReservedAgrees
<1> HIDE DEF F, f, g
<1>5. SumFunctionOnSet(g, F \cup {w}) = SumFunctionOnSet(g, F) + g[w]
  <2>1. \A v \in F \cup {w} : g[v] \in Int
    BY <1>1, <1>2, <1>3
  <2> QED
    BY <1>1, <1>4, <2>1, SumAdd
<1>6. SumFunctionOnSet(g, F) = SumFunctionOnSet(f, F)
  BY <1>1, <1>2, SumSame
<1>7. reserved' = SumFunctionOnSet(g, F \cup {w})
  BY <1>2, <1>4, <1>5, <1>6
<1> QED
  BY <1>7 DEF ReservedAgrees, F, g

LEMMA ReservedLess ==
  ASSUME TypeInv, ReservedAgrees, NEW w \in InFlight, UNCHANGED collected,
         InFlight' = InFlight \ {w}, \A v \in InFlight \ {w} : Of(v)' = Of(v),
         reserved' = reserved - Reservation(Of(w))
  PROVE  ReservedAgrees'
<1> DEFINE F == InFlight
           f == Reservations
           g == Reservations'
<1>1. /\ IsFiniteSet(F) /\ IsFiniteSet(F \ {w})
      /\ \A v \in F : f[v] = Reservation(Of(v)) /\ f[v] \in Nat
  BY FiniteParts, FS_Subset
<1>2. \A v \in F \ {w} : g[v] = Reservation(Of(v))
  BY DEF Reservations, Reservation
<1>3. reserved = SumFunctionOnSet(f, F) /\ w \in F
  BY DEF ReservedAgrees
<1> HIDE DEF F, f, g
<1>4. SumFunctionOnSet(f, F) = f[w] + SumFunctionOnSet(f, F \ {w})
  BY <1>1, <1>3, SumTake
<1>5. SumFunctionOnSet(g, F \ {w}) = SumFunctionOnSet(f, F \ {w})
  BY <1>1, <1>2, SumSame
<1>6. PICK rest \in Nat : rest = SumFunctionOnSet(f, F \ {w})
  BY <1>1, SumNat
<1>7. reserved' = (f[w] + rest) - f[w] /\ f[w] \in Nat
  BY <1>1, <1>3, <1>4, <1>6
<1>8. reserved' = SumFunctionOnSet(g, F \ {w})
  BY <1>5, <1>6, <1>7
<1> QED
  BY <1>8 DEF ReservedAgrees, F, g

\* What a worker books, in the manifest.
LEMMA BookedEntry ==
  ASSUME TypeInv, NEW w \in Busy, NEW status, NEW reason, NEW bytes,
         Book(w, status, reason, bytes)
  PROVE  /\ Len(assets) + 1 \notin Entries("cached")
         /\ \A i \in Entries("cached") : assets'[i] = assets[i]
         /\ assets'[Len(assets) + 1].bytes = bytes
         /\ Entries("cached")' = IF status = "cached" THEN Entries("cached") \cup {Len(assets) + 1}
                                 ELSE Entries("cached")
<1>1. assets \in Seq(Entry)
  BY DEF TypeInv, TypeOK
<1>2. Len(assets) + 1 \notin DOMAIN assets
  BY <1>1
<1>3. PICK k : k = Len(assets) + 1
  OBVIOUS
<1>4. /\ DOMAIN assets' = DOMAIN assets \cup {k}
      /\ \A i \in DOMAIN assets : assets'[i] = assets[i]
      /\ assets'[k].status = status /\ assets'[k].bytes = bytes
  BY <1>3, Appended
<1> QED
  BY <1>2, <1>3, <1>4 DEF Entries

\* Worker w leaves what is in flight, if it was, and lays its asset down.
LEMMA LeavesFlight ==
  ASSUME TypeInv, NEW w \in Busy, Continue(w)
  PROVE  /\ InFlight' = InFlight \ {w}
         /\ \A v \in InFlight \ {w} : Of(v)' = Of(v)
  BY DEF Continue, Goto, InFlight, Busy, Of, TypeInv, TypeOK

LEMMA AccountsInit == Init => AccountsAgree
<1> SUFFICES ASSUME Init PROVE AccountsAgree
  OBVIOUS
<1>1. Entries("cached") = {} /\ InFlight = {}
  BY DEF Init, Entries, InFlight, Busy
<1>2. BookedAgrees /\ ReservedAgrees
  BY <1>1, SumEmpty DEF Init, BookedAgrees, ReservedAgrees
<1> QED
  BY <1>2, AccountsMean

LEMMA AccountsNext == TypeInv /\ AccountsAgree /\ [Next]_vars => AccountsAgree'
<1> SUFFICES ASSUME TypeInv, AccountsAgree, [Next]_vars PROVE AccountsAgree'
  OBVIOUS
<1>0. BookedAgrees /\ ReservedAgrees
  BY AccountsMean
\* Steps that no counter stands for.
<1>1. ASSUME UNCHANGED <<collected, books>>, InFlight' = InFlight,
             \A v \in InFlight : Of(v)' = Of(v)
      PROVE  AccountsAgree'
  <2>1. Entries("cached")' = Entries("cached")
    BY <1>1 DEF books, Entries
  <2>2. BookedAgrees'
    BY <1>0, <1>1, <2>1, BookedSame DEF books
  <2>3. ReservedAgrees'
    BY <1>0, <1>1, ReservedSame DEF books
  <2> QED
    BY <2>2, <2>3, AccountsMean
<1>2. CASE UNCHANGED vars
  BY <1>1, <1>2 DEF vars, books, InFlight, Busy, Of
<1>3. ASSUME NEW w \in Workers, Work(w)
      PROVE  AccountsAgree'
  <2>1. CASE Take(w)
    <3>1. InFlight' = InFlight /\ \A v \in InFlight : Of(v)' = Of(v)
      BY <2>1 DEF Take, Goto, InFlight, Busy, Of, TypeInv, TypeOK
    <3> QED
      BY <1>1, <2>1, <3>1 DEF Take, books
  <2>2. CASE Exit(w)
    <3>1. InFlight' = InFlight /\ \A v \in InFlight : Of(v)' = Of(v)
      BY <2>2 DEF Exit, Goto, InFlight, Busy, Of, TypeInv, TypeOK
    <3> QED
      BY <1>1, <2>2, <3>1 DEF Exit, books
  <2>3. ASSUME NEW reason, at[w] = "judging", SkipAs(w, reason)
        PROVE  AccountsAgree'
    <3>1. w \in Busy /\ w \notin InFlight
      BY <2>3 DEF Busy, InFlight
    <3>2. /\ Entries("cached")' = Entries("cached")
          /\ \A i \in Entries("cached") : assets'[i] = assets[i]
      BY <2>3, <3>1, BookedEntry DEF SkipAs
    <3>3. InFlight' = InFlight /\ \A v \in InFlight : Of(v)' = Of(v)
      BY <2>3, <3>1, LeavesFlight DEF SkipAs
    <3>4. BookedAgrees' /\ ReservedAgrees'
      BY <1>0, <2>3, <3>2, <3>3, BookedSame, ReservedSame DEF SkipAs
    <3> QED
      BY <3>4, AccountsMean
  <2>4. CASE SkipUnsupported(w) \/ SkipTooLarge(w) \/ SkipOverLimit(w)
    BY <2>3, <2>4 DEF SkipUnsupported, SkipTooLarge, SkipOverLimit
  <2>5. CASE Reserve(w)
    <3>1. at[w] = "judging" /\ at' = [at EXCEPT ![w] = "fetching"] /\ job' = job
      BY <2>5 DEF Reserve, Goto
    <3>2. w \notin InFlight /\ InFlight' = InFlight \cup {w} /\ Of(w) \in Assets
      BY <3>1 DEF InFlight, Busy, TypeInv, TypeOK, Handed
    <3>3. \A v \in InFlight \cup {w} : Of(v)' = Of(v)
      BY <3>1 DEF Of
    <3>4. ReservedAgrees'
      BY <1>0, <2>5, <3>2, <3>3, ReservedMore DEF Reserve
    <3>5. BookedAgrees'
      BY <1>0, <2>5, BookedSame DEF Reserve, Entries
    <3> QED
      BY <3>4, <3>5, AccountsMean
  <2>6. CASE BookFailure(w) \/ BookOverLimit(w) \/ BookCached(w)
    <3>1. /\ w \in Busy /\ w \in InFlight /\ Continue(w) /\ collected' = collected
          /\ reserved' = reserved - Reservation(Of(w))
      BY <2>6 DEF BookFailure, BookOverLimit, BookCached, Busy, InFlight
    <3>2. InFlight' = InFlight \ {w} /\ \A v \in InFlight \ {w} : Of(v)' = Of(v)
      BY <3>1, LeavesFlight
    <3>3. ReservedAgrees'
      BY <1>0, <3>1, <3>2, ReservedLess
    <3>4. CASE BookFailure(w) \/ BookOverLimit(w)
      <4>1. PICK status \in {"failed", "skipped"}, reason \in {"error", "transcript_limit"} :
               Book(w, status, reason, 0)
        BY <3>4 DEF BookFailure, BookOverLimit
      <4>2. /\ Entries("cached")' = Entries("cached")
            /\ \A i \in Entries("cached") : assets'[i] = assets[i]
        BY <3>1, <4>1, BookedEntry
      <4>3. TotalBytes' = TotalBytes
        BY <3>4 DEF BookFailure, BookOverLimit
      <4>4. BookedAgrees'
        BY <1>0, <4>2, <4>3, BookedSame
      <4> QED
        BY <3>3, <4>4, AccountsMean
    <3>5. CASE BookCached(w)
      <4>1. PICK k : k = Len(assets) + 1
        OBVIOUS
      <4>2. TotalBytes' = TotalBytes + job[w].body /\ job[w].body \in Nat
        <5>1. job[w].body \in Nat
          BY ConstantFacts DEF TypeInv, TypeOK, Job, Bytes
        <5> QED
          BY <3>5, <5>1 DEF BookCached
      <4>3. /\ Entries("cached")' = Entries("cached") \cup {k} /\ k \notin Entries("cached")
            /\ \A i \in Entries("cached") : assets'[i] = assets[i]
            /\ assets'[k].bytes = job[w].body
        BY <3>1, <3>5, <4>1, BookedEntry DEF BookCached
      <4>4. BookedAgrees'
        BY <1>0, <4>2, <4>3, BookedMore
      <4> QED
        BY <3>3, <4>4, AccountsMean
    <3> QED
      BY <2>6, <3>4, <3>5
  <2>7. CASE FetchFails(w) \/ CopyFails(w) \/ CopyEnds(w) \/ DropTemp(w)
             \/ Rename(w) \/ RenameFails(w) \/ OpenTemp(w) \/ Copy(w)
    <3>1. UNCHANGED <<collected, books>>
      BY <2>7 DEF FetchFails, CopyFails, CopyEnds, DropTemp, Rename, RenameFails, OpenTemp, Copy
    <3>2. InFlight' = InFlight
      BY <2>7 DEF FetchFails, CopyFails, CopyEnds, DropTemp, Rename, RenameFails, OpenTemp, Copy,
         Goto, InFlight, Busy, TypeInv, TypeOK
    <3>3. \A v \in Workers : Of(v)' = Of(v)
      <4>1. CASE OpenTemp(w)
        BY <4>1 DEF OpenTemp, Of, TypeInv, TypeOK, Job
      <4>2. CASE Copy(w)
        BY <4>2 DEF Copy, Of, TypeInv, TypeOK, Job
      <4>3. CASE FetchFails(w) \/ CopyFails(w) \/ CopyEnds(w) \/ DropTemp(w) \/ Rename(w)
                 \/ RenameFails(w)
        BY <4>3 DEF FetchFails, CopyFails, CopyEnds, DropTemp, Rename, RenameFails, Of
      <4> QED
        BY <2>7, <4>1, <4>2, <4>3
    <3>4. \A v \in InFlight : Of(v)' = Of(v)
      BY <3>3 DEF InFlight, Busy
    <3> QED
      BY <1>1, <3>1, <3>2, <3>4
  <2> QED
    BY <1>3, <2>1, <2>2, <2>4, <2>5, <2>6, <2>7 DEF Work
<1> QED
  BY <1>2, <1>3 DEF Next

\* AlwaysAccountsAgree: for any number of workers and assets, in any order of their steps,
\* TotalBytes is the bytes of the files the manifest lists as cached, and reserved those set
\* aside for the downloads in flight.
THEOREM AlwaysAccountsAgree == Spec => []AccountsAgree
  BY TypeInit, TypeNext, AccountsInit, AccountsNext, PTL DEF Spec

\* As long as every cached file kept to what was reserved for it.
KeptTo == \A i \in Entries("cached") : assets[i].bytes <= Reservation(assets[i].asset)

ReserveInv == KeptTo => TotalBytes + reserved <= TotalLimit

LEMMA ReserveNext == TypeInv /\ ReserveInv /\ [Next]_vars => ReserveInv'
<1> SUFFICES ASSUME TypeInv, ReserveInv, [Next]_vars, KeptTo'
             PROVE  (TotalBytes + reserved <= TotalLimit)'
  BY DEF ReserveInv
<1>0. /\ TotalBytes \in Nat /\ reserved \in Int /\ TotalLimit \in Nat
      /\ \A w \in Workers : job[w].body \in Nat
  BY ConstantFacts DEF TypeInv, TypeOK, Job, Bytes
\* The entries there were are still there, for the same assets.
<1>1. ASSUME collected' = collected,
             \A i \in Entries("cached") : i \in Entries("cached")' /\ assets'[i] = assets[i]
      PROVE  TotalBytes + reserved <= TotalLimit
  <2>1. KeptTo
    BY <1>1 DEF KeptTo, Reservation
  <2> QED
    BY <2>1 DEF ReserveInv
<1>2. CASE UNCHANGED <<collected, books>>
  BY <1>1, <1>2 DEF books, Entries
<1>3. ASSUME NEW w \in Workers, Work(w), ~ UNCHANGED <<collected, books>>
      PROVE  (TotalBytes + reserved <= TotalLimit)'
  <2>1. CASE Reserve(w)
    <3>1. Reservation(Of(w)) \in Nat
      BY <2>1, ReservationIsNat DEF Reserve, TypeInv, TypeOK, Handed
    <3> QED
      BY <1>0, <2>1, <3>1 DEF Reserve, RoomFor
  <2>2. CASE SkipUnsupported(w) \/ SkipTooLarge(w) \/ SkipOverLimit(w)
    <3>1. PICK reason \in {"unsupported_host", "file_too_large", "transcript_limit"} :
             SkipAs(w, reason) /\ w \in Busy
      BY <2>2 DEF SkipUnsupported, SkipTooLarge, SkipOverLimit, Busy
    <3>2. \A i \in Entries("cached") : i \in Entries("cached")' /\ assets'[i] = assets[i]
      BY <3>1, BookedEntry DEF SkipAs
    <3> QED
      BY <1>1, <3>1, <3>2 DEF SkipAs
  <2>3. CASE BookFailure(w) \/ BookOverLimit(w) \/ BookCached(w)
    <3>1. /\ w \in Busy /\ collected' = collected /\ Of(w) \in Assets
          /\ reserved' = reserved - Reservation(Of(w))
      BY <2>3 DEF BookFailure, BookOverLimit, BookCached, Busy, TypeInv, Handed
    <3>2. PICK res \in Nat : res = Reservation(Of(w))
      BY <3>1, ReservationIsNat DEF TypeInv, TypeOK
    <3>3. CASE BookFailure(w) \/ BookOverLimit(w)
      <4>1. PICK status \in {"failed", "skipped"}, reason \in {"error", "transcript_limit"} :
               Book(w, status, reason, 0)
        BY <3>3 DEF BookFailure, BookOverLimit
      <4>2. \A i \in Entries("cached") : i \in Entries("cached")' /\ assets'[i] = assets[i]
        BY <3>1, <4>1, BookedEntry
      <4>3. TotalBytes' = TotalBytes
        BY <3>3 DEF BookFailure, BookOverLimit
      <4>4. TotalBytes + reserved <= TotalLimit
        BY <1>1, <3>1, <4>2
      <4> QED
        BY <1>0, <3>1, <3>2, <4>3, <4>4
    <3>4. CASE BookCached(w)
      <4>1. PICK k : k = Len(assets) + 1
        OBVIOUS
      <4>2. /\ Entries("cached")' = Entries("cached") \cup {k}
            /\ \A i \in Entries("cached") : assets'[i] = assets[i]
            /\ assets'[k].bytes = job[w].body /\ assets'[k].asset = Of(w)
        BY <3>1, <3>4, <4>1, BookedEntry, Appended DEF BookCached
      <4>3. job[w].body <= res
        BY <3>1, <3>2, <4>2 DEF KeptTo, Reservation
      <4>4. TotalBytes + reserved <= TotalLimit
        BY <1>1, <3>1, <4>2
      <4>5. TotalBytes' = TotalBytes + job[w].body
        BY <3>4 DEF BookCached
      <4> QED
        BY <1>0, <3>1, <3>2, <4>3, <4>4, <4>5
    <3> QED
      BY <2>3, <3>3, <3>4
  <2>4. Take(w) \/ Exit(w) \/ FetchFails(w) \/ CopyFails(w) \/ CopyEnds(w) \/ DropTemp(w)
          \/ Rename(w) \/ RenameFails(w) \/ OpenTemp(w) \/ Copy(w) => UNCHANGED <<collected, books>>
    BY DEF Take, Exit, FetchFails, CopyFails, CopyEnds, DropTemp, Rename, RenameFails, OpenTemp,
       Copy
  <2> QED
    BY <1>3, <2>1, <2>2, <2>3, <2>4 DEF Work
<1> QED
  BY <1>2, <1>3 DEF Next, vars, books

LEMMA ReserveMeans == TypeInv /\ AccountsAgree /\ ReserveInv => ReservationsHold
<1> SUFFICES ASSUME TypeInv, AccountsAgree, ReserveInv, KeptTo
             PROVE  /\ TotalBytes + reserved <= TotalLimit
                    /\ \A w \in Workers :
                         (at[w] = "placed" /\ job[w].body <= Reservation(Of(w)))
                            => TotalBytes + job[w].body <= TotalLimit
  BY DEF ReservationsHold, KeptTo
<1>1. TotalBytes + reserved <= TotalLimit
  BY DEF ReserveInv
<1>2. ASSUME NEW w \in Workers, at[w] = "placed", job[w].body <= Reservation(Of(w))
      PROVE  TotalBytes + job[w].body <= TotalLimit
  <2>1. w \in InFlight
    BY <1>2 DEF InFlight, Busy
  <2>2. Reservation(Of(w)) \in Nat /\ Reservation(Of(w)) <= reserved
    <3>1. IsFiniteSet(InFlight)
          /\ \A v \in InFlight : Reservations[v] = Reservation(Of(v)) /\ Reservations[v] \in Nat
      BY FiniteParts
    <3>2. reserved = SumFunctionOnSet(Reservations, InFlight)
      BY AccountsMean DEF ReservedAgrees
    <3> HIDE DEF Reservations
    <3>3. Reservations[w] <= SumFunctionOnSet(Reservations, InFlight)
      BY <2>1, <3>1, SumNat
    <3> QED
      BY <2>1, <3>1, <3>2, <3>3
  <2>3. TotalBytes \in Nat /\ reserved \in Int /\ TotalLimit \in Nat /\ job[w].body \in Nat
    BY ConstantFacts DEF TypeInv, TypeOK, Job, Bytes
  <2> QED
    BY <1>1, <1>2, <2>2, <2>3
<1> QED
  BY <1>1, <1>2

\* AlwaysReservationsHold: while no response was longer than what was reserved for it, what is
\* cached and what is reserved fit into the limit together, and a download that was let
\* through is not thrown away, however many workers there are.
THEOREM AlwaysReservationsHold == Spec => []ReservationsHold
<1>1. Init => ReserveInv
  BY ConstantFacts DEF Init, ReserveInv
<1> QED
  BY <1>1, TypeInit, TypeNext, AccountsInit, AccountsNext, ReserveNext, ReserveMeans, PTL DEF Spec

-------------------------------------------------------------------------------
(* The directory, whether or not assets share a URL: how large it gets.    *)

Writing == {"copying", "copied", "dropping"}

\* The name under which a worker's download is stored.
NameOf(w) == Source(Of(w))

\* The URL has been asked, and answers with so many bytes from then on.
Known(s) == s \in Allowed /\ content[s] \in Bytes

\* Nothing longer than the response is ever under a URL's names, whoever wrote it.
Within(a) == data[a] # {} => Known(Source(a)) /\ data[a] \subseteq 1..content[Source(a)]

Answered(w) ==
    /\ at[w] = "fetching" => NameOf(w) \in Allowed
    /\ at[w] \in {"copying", "copied", "placed"} =>
          Known(NameOf(w)) /\ job[w].body = content[NameOf(w)]
    /\ at[w] = "copying" => Source(job[w].inode) = NameOf(w)

Listed(i) ==
    /\ Known(Source(assets[i].asset))
    /\ assets[i].bytes = content[Source(assets[i].asset)]

\* A temporary name has a worker that will remove it or rename it, a final name a worker
\* that will book it, or an entry.
Reason(s) ==
    /\ temp[s] # None => Source(temp[s]) = s
                         /\ \E w \in Workers : at[w] \in Writing /\ NameOf(w) = s
    /\ final[s] # None =>
          /\ Source(final[s]) = s
          /\ \/ \E w \in Workers : at[w] = "placed" /\ NameOf(w) = s
             \/ \E i \in Entries("cached") : Source(assets[i].asset) = s

SharedInv ==
    /\ \A a \in Assets : Within(a)
    /\ \A w \in Workers : Answered(w)
    /\ \A i \in Entries("cached") : Listed(i)
    /\ \A s \in Sources : Reason(s)

LEMMA SharedInit == Init => SharedInv
<1> SUFFICES ASSUME Init PROVE SharedInv
  OBVIOUS
<1>1. Entries("cached") = {}
  BY DEF Init, Entries
<1> QED
  BY <1>1 DEF Init, SharedInv, Within, Answered, Reason

\* The response to a URL does not change.
KnownKept == \A s \in Sources : Known(s) => Known(s)' /\ content'[s] = content[s]

\* What the others rely on after a step of worker w.
OthersStep(w) ==
    /\ collected' = collected /\ KnownKept
    /\ \A v \in Workers \ {w} : at'[v] = at[v] /\ job'[v] = job[v]
    /\ \A i \in Entries("cached") : i \in Entries("cached")' /\ assets'[i] = assets[i]

LEMMA SourceType ==
  ASSUME TypeInv
  PROVE  \A a \in Assets : Source(a) \in Sources
  BY DEF TypeInv, TypeOK, Source, Asset

LEMMA SharedOthers ==
  ASSUME TypeInv, SharedInv, NEW w \in Workers, OthersStep(w)
  PROVE  /\ \A a \in Assets : Source(a)' = Source(a)
         /\ \A v \in Workers \ {w} : Answered(v)' /\ (at[v] \notin {"idle", "gone"} => NameOf(v)' = NameOf(v))
         /\ \A i \in Entries("cached") : Listed(i)' /\ Source(assets[i].asset)' = Source(assets[i].asset)
         /\ \A a \in Assets : data'[a] = data[a] => Within(a)'
<1>1. \A a : Source(a)' = collected[a].source
  BY DEF OthersStep, Source
<1>2. \A a \in Assets : Source(a) \in Sources
  BY SourceType
<1>3. ASSUME NEW v \in Workers \ {w}
      PROVE  Answered(v)' /\ NameOf(v)' = NameOf(v)
  <2>1. at'[v] = at[v] /\ job'[v] = job[v]
    BY DEF OthersStep
  <2>2. NameOf(v)' = NameOf(v)
    BY <1>1, <2>1 DEF NameOf, Of, Source
  <2>3. Answered(v)
    BY DEF SharedInv
  <2>4. at[v] \in {"copying", "copied", "placed"} =>
           Known(NameOf(v))' /\ content'[NameOf(v)] = content[NameOf(v)]
    <3>1. at[v] \in {"copying", "copied", "placed"} => Known(NameOf(v)) /\ NameOf(v) \in Sources
      BY <2>3, ConstantFacts DEF Answered, Known
    <3>2. ASSUME Known(NameOf(v)), NameOf(v) \in Sources
          PROVE  Known(NameOf(v))' /\ content'[NameOf(v)] = content[NameOf(v)]
      <4>1. PICK s \in Sources : s = NameOf(v)
        BY <3>2
      <4>2. Known(s)' /\ content'[s] = content[s]
        BY <3>2, <4>1 DEF OthersStep, KnownKept
      <4> QED
        BY <2>2, <4>1, <4>2 DEF Known
    <3> QED
      BY <3>1, <3>2
  <2>5. Source(job[v].inode)' = Source(job[v].inode)
    BY <1>1, <2>1 DEF Source
  <2> QED
    BY <2>1, <2>2, <2>3, <2>4, <2>5 DEF Answered, Source
<1>4. ASSUME NEW i \in Entries("cached")
      PROVE  Listed(i)' /\ Source(assets[i].asset)' = Source(assets[i].asset)
  <2>1. Listed(i) /\ assets'[i] = assets[i]
    BY DEF SharedInv, OthersStep
  <2>2. PICK s \in Sources : s = Source(assets[i].asset)
    BY <2>1, ConstantFacts DEF Listed, Known
  <2>3. Known(s)' /\ content'[s] = content[s]
    BY <2>1, <2>2 DEF Listed, OthersStep, KnownKept
  <2>4. Source(assets[i].asset)' = s
    BY <1>1, <2>1, <2>2 DEF Source
  <2> QED
    BY <2>1, <2>2, <2>3, <2>4 DEF Listed, Known
<1>5. ASSUME NEW a \in Assets, data'[a] = data[a]
      PROVE  Within(a)'
  <2>1. PICK s \in Sources : s = Source(a)
    BY <1>2
  <2>2. Source(a)' = s
    BY <1>1, <2>1 DEF Source
  <2>3. Within(a) /\ (Known(s) => Known(s)' /\ content'[s] = content[s])
    BY DEF SharedInv, OthersStep, KnownKept
  <2> QED
    BY <1>5, <2>1, <2>2, <2>3 DEF Within, Known
<1> QED
  BY <1>1, <1>3, <1>4, <1>5 DEF Source

\* A name that a step of worker w leaves alone keeps its reason, unless w was that.
LEMMA ReasonKept ==
  ASSUME TypeInv, SharedInv, NEW w \in Workers, OthersStep(w), NEW s \in Sources,
         temp'[s] \in {temp[s], None}, final'[s] \in {final[s], None},
         at[w] \in Writing /\ NameOf(w) = s /\ temp'[s] # None =>
            at'[w] \in Writing /\ NameOf(w)' = s,
         at[w] = "placed" /\ NameOf(w) = s /\ final'[s] # None =>
            \E i \in Entries("cached")' : Source(assets[i].asset)' = s
  PROVE  Reason(s)'
<1>1. Reason(s) /\ \A v \in Workers \ {w} : at'[v] = at[v]
  BY DEF SharedInv, OthersStep
<1>2. ASSUME temp'[s] # None
      PROVE  Source(temp[s])' = s
             /\ \E v \in Workers : at'[v] \in Writing /\ NameOf(v)' = s
  <2>1. temp'[s] = temp[s] /\ temp[s] \in Assets
    BY <1>2 DEF TypeInv, TypeOK
  <2>2. Source(temp[s])' = s
    BY <1>1, <1>2, <2>1, SharedOthers DEF Reason, Source
  <2>3. PICK v \in Workers : at[v] \in Writing /\ NameOf(v) = s
    BY <1>1, <1>2, <2>1 DEF Reason
  <2>4. CASE v = w
    BY <1>2, <2>2, <2>3, <2>4
  <2>5. CASE v # w
    BY <1>1, <2>2, <2>3, <2>5, SharedOthers DEF Writing
  <2> QED
    BY <2>2, <2>4, <2>5
<1>3. ASSUME final'[s] # None
      PROVE  Source(final[s])' = s
             /\ \/ \E v \in Workers : at'[v] = "placed" /\ NameOf(v)' = s
                \/ \E i \in Entries("cached")' : Source(assets[i].asset)' = s
  <2>1. final'[s] = final[s] /\ final[s] \in Assets
    BY <1>3 DEF TypeInv, TypeOK
  <2>2. Source(final[s])' = s
    BY <1>1, <1>3, <2>1, SharedOthers DEF Reason, Source
  <2>3. CASE \E v \in Workers : at[v] = "placed" /\ NameOf(v) = s
    <3>1. PICK v \in Workers : at[v] = "placed" /\ NameOf(v) = s
      BY <2>3
    <3>2. CASE v = w
      BY <1>3, <2>2, <3>1, <3>2
    <3>3. CASE v # w
      BY <1>1, <2>2, <3>1, <3>3, SharedOthers
    <3> QED
      BY <3>2, <3>3
  <2>4. CASE \E i \in Entries("cached") : Source(assets[i].asset) = s
    <3>1. PICK i \in Entries("cached") : Source(assets[i].asset) = s
      BY <2>4
    <3>2. i \in Entries("cached")' /\ Source(assets[i].asset)' = s
      BY <3>1, SharedOthers DEF OthersStep
    <3> QED
      BY <2>2, <3>2
  <2> QED
    BY <1>1, <1>3, <2>1, <2>3, <2>4 DEF Reason
<1> QED
  BY <1>2, <1>3 DEF Reason

\* A step of worker w, from what it changes.
LEMMA SharedFromParts ==
  ASSUME TypeInv, SharedInv, NEW w \in Workers, OthersStep(w), Answered(w)',
         \A a \in Assets : data'[a] = data[a] \/ Within(a)',
         \A i \in Entries("cached")' : i \in Entries("cached") \/ Listed(i)',
         \A s \in Sources : Reason(s)'
  PROVE  SharedInv'
<1>1. \A v \in Workers : Answered(v)'
  BY SharedOthers
<1>2. \A i \in Entries("cached")' : Listed(i)'
  BY SharedOthers
<1>3. \A a \in Assets : Within(a)'
  BY SharedOthers
<1> QED
  BY <1>1, <1>2, <1>3 DEF SharedInv

\* The worker moves on with what it has in hand, or takes or lays down an asset that has
\* no file.
LEMMA SharedMove ==
  ASSUME TypeInv, SharedInv, NEW w \in Workers,
         \/ Take(w) \/ Exit(w) \/ Reserve(w) \/ FetchFails(w) \/ CopyFails(w) \/ CopyEnds(w)
         \/ RenameFails(w)
  PROVE  SharedInv'
<1>1. /\ UNCHANGED <<collected, content, assets, temp, final, data>>
      /\ \A v \in Workers \ {w} : at'[v] = at[v] /\ job'[v] = job[v]
      /\ at[w] # "placed"
  BY DEF Take, Exit, Reserve, FetchFails, CopyFails, CopyEnds, RenameFails, files, books, Goto,
     TypeInv, TypeOK
<1>2. OthersStep(w)
  BY <1>1 DEF OthersStep, KnownKept, Known, Entries
<1>3. at[w] \in Writing => at'[w] \in Writing /\ NameOf(w)' = NameOf(w)
  BY DEF Take, Exit, Reserve, FetchFails, CopyFails, CopyEnds, RenameFails, Goto, Writing,
     NameOf, Source, Of, TypeInv, TypeOK
<1>4. \A s \in Sources : Reason(s)'
  BY <1>1, <1>2, <1>3, ReasonKept
<1>5. Answered(w)'
  <2>1. CASE Take(w) \/ Exit(w) \/ FetchFails(w) \/ CopyFails(w) \/ RenameFails(w)
    <3>1. at'[w] \in {"judging", "gone", "failed", "dropping"}
      BY <2>1 DEF Take, Exit, FetchFails, CopyFails, RenameFails, Goto, TypeInv, TypeOK
    <3> QED
      BY <3>1 DEF Answered
  <2>2. CASE Reserve(w)
    <3>1. at'[w] = "fetching" /\ NameOf(w)' = NameOf(w) /\ NameOf(w) \in Allowed
      BY <2>2 DEF Reserve, Goto, Supported, NameOf, Source, Of, TypeInv, TypeOK
    <3> QED
      BY <3>1 DEF Answered
  <2>3. CASE CopyEnds(w)
    <3>1. /\ at[w] = "copying" /\ at'[w] \in {"dropping", "copied"} /\ job' = job
          /\ NameOf(w)' = NameOf(w)
      BY <2>3 DEF CopyEnds, Goto, NameOf, Source, Of, TypeInv, TypeOK
    <3>2. Answered(w)
      BY DEF SharedInv
    <3> QED
      BY <1>1, <3>1, <3>2 DEF Answered, Known
  <2> QED
    BY <2>1, <2>2, <2>3
<1>6. Entries("cached")' = Entries("cached")
  BY <1>1 DEF Entries
<1> QED
  BY <1>1, <1>2, <1>4, <1>5, <1>6, SharedFromParts

LEMMA SharedBook ==
  ASSUME TypeInv, SharedInv, NEW w \in Busy, Continue(w), UNCHANGED <<collected, content, temp, data>>,
         NEW status, NEW reason, NEW bytes, Book(w, status, reason, bytes),
         at[w] \notin Writing,
         \/ final' = final /\ at[w] # "placed"
         \/ final' = [final EXCEPT ![NameOf(w)] = None]
         \/ final' = final /\ at[w] = "placed" /\ status = "cached",
         status = "cached" => at[w] = "placed" /\ bytes = job[w].body
  PROVE  SharedInv'
<1>0. PICK k : k = Len(assets) + 1
  OBVIOUS
<1>1. /\ Entries("cached")' = IF status = "cached" THEN Entries("cached") \cup {k}
                              ELSE Entries("cached")
      /\ \A i \in Entries("cached") : assets'[i] = assets[i]
      /\ assets'[k].asset = Of(w) /\ assets'[k].bytes = bytes
  BY <1>0, BookedEntry, Appended
<1>2. /\ w \in Workers /\ at'[w] = "idle"
      /\ \A v \in Workers \ {w} : at'[v] = at[v] /\ job'[v] = job[v]
  BY DEF Continue, Goto, Busy, TypeInv, TypeOK
<1>3. OthersStep(w)
  BY <1>1, <1>2 DEF OthersStep, KnownKept, Known
<1>4. Answered(w)'
  BY <1>2 DEF Answered
<1>5. ASSUME status = "cached"
      PROVE  Listed(k)' /\ Source(assets[k].asset)' = NameOf(w)
  <2>1. Known(NameOf(w)) /\ bytes = content[NameOf(w)]
    BY <1>2, <1>5 DEF SharedInv, Answered
  <2>2. Source(assets[k].asset)' = NameOf(w)
    BY <1>1 DEF Source, NameOf
  <2> QED
    BY <1>1, <2>1, <2>2 DEF Listed, Known
<1>6. ASSUME NEW s \in Sources
      PROVE  Reason(s)'
  <2>1. temp'[s] = temp[s] /\ final'[s] \in {final[s], None}
    BY DEF TypeInv, TypeOK
  <2>2. ASSUME at[w] = "placed", NameOf(w) = s, final'[s] # None
        PROVE  \E i \in Entries("cached")' : Source(assets[i].asset)' = s
    <3>1. status = "cached"
      BY <2>2 DEF TypeInv, TypeOK
    <3>2. k \in Entries("cached")'
      BY <1>1, <3>1
    <3> QED
      BY <1>5, <2>2, <3>1, <3>2
  <2> QED
    BY <1>2, <1>3, <2>1, <2>2, ReasonKept
<1>7. \A i \in Entries("cached")' : i \in Entries("cached") \/ Listed(i)'
  BY <1>1, <1>5
<1> QED
  BY <1>2, <1>3, <1>4, <1>6, <1>7, SharedFromParts

LEMMA SharedBooks ==
  ASSUME TypeInv, SharedInv, NEW w \in Workers,
         \/ SkipUnsupported(w) \/ SkipTooLarge(w) \/ SkipOverLimit(w)
         \/ BookFailure(w) \/ BookOverLimit(w) \/ BookCached(w)
  PROVE  SharedInv'
<1>1. CASE SkipUnsupported(w) \/ SkipTooLarge(w) \/ SkipOverLimit(w)
  <2>1. PICK reason \in {"unsupported_host", "file_too_large", "transcript_limit"} :
           SkipAs(w, reason)
    BY <1>1 DEF SkipUnsupported, SkipTooLarge, SkipOverLimit
  <2>2. w \in Busy /\ at[w] = "judging"
    BY <1>1 DEF SkipUnsupported, SkipTooLarge, SkipOverLimit, Busy
  <2>3. UNCHANGED <<collected, content, temp, data, final>> /\ Continue(w)
    BY <2>1 DEF SkipAs, files
  <2>4. Book(w, "skipped", reason, 0)
    BY <2>1 DEF SkipAs
  <2> QED
    BY <2>2, <2>3, <2>4, SharedBook DEF Writing
<1>2. CASE BookFailure(w)
  <2>1. w \in Busy /\ at[w] = "failed"
    BY <1>2 DEF BookFailure, Busy
  <2> QED
    BY <1>2, <2>1, SharedBook DEF BookFailure, files, Writing
<1>3. CASE BookOverLimit(w)
  <2>1. w \in Busy /\ at[w] = "placed"
    BY <1>3 DEF BookOverLimit, Busy
  <2>2. final' = [final EXCEPT ![NameOf(w)] = None]
    BY <1>3 DEF BookOverLimit, NameOf
  <2> QED
    BY <1>3, <2>1, <2>2, SharedBook DEF BookOverLimit, Writing
<1>4. CASE BookCached(w)
  <2>1. w \in Busy /\ at[w] = "placed"
    BY <1>4 DEF BookCached, Busy
  <2> QED
    BY <1>4, <2>1, SharedBook DEF BookCached, files, Writing
<1> QED
  BY <1>1, <1>2, <1>3, <1>4

LEMMA SharedOpenTemp ==
  ASSUME TypeInv, SharedInv, NEW w \in Workers, OpenTemp(w)
  PROVE  SharedInv'
<1>1. PICK a \in Assets : a = Of(w)
  BY DEF OpenTemp, TypeInv, Handed
<1>2. PICK s \in Sources : s = Source(a)
  BY SourceType
<1>3. PICK n \in Assets : n = IF temp[s] = None THEN a ELSE temp[s]
  BY DEF TypeInv, TypeOK
<1>4. at[w] = "fetching" /\ s \in Allowed /\ NameOf(w) = s
  <2>1. at[w] = "fetching" /\ NameOf(w) = s
    BY <1>1, <1>2 DEF OpenTemp, NameOf
  <2> QED
    BY <2>1 DEF SharedInv, Answered
<1>5. Source(n) = s
  BY <1>2, <1>3 DEF SharedInv, Reason
<1>6. PICK size \in Bytes :
         /\ content[s] \in {None, size} /\ content' = [content EXCEPT ![s] = size]
         /\ job' = [job EXCEPT ![w].body = size, ![w].inode = n]
  BY <1>1, <1>2, <1>3 DEF OpenTemp, TempName
<1>7. /\ temp' = [temp EXCEPT ![s] = n] /\ data' = [data EXCEPT ![n] = {}]
      /\ at' = [at EXCEPT ![w] = "copying"]
      /\ UNCHANGED <<collected, final, assets>>
  BY <1>1, <1>2, <1>3 DEF OpenTemp, TempName, Goto, books
<1>8. content'[s] = size /\ \A q \in Allowed : q # s => content'[q] = content[q]
  BY <1>4, <1>6 DEF TypeInv, TypeOK
<1>9. KnownKept
  <2>1. Bytes \subseteq Nat /\ None \notin Nat
    BY MediaAssumption DEF Bytes
  <2>2. Known(s) => content[s] = size
    BY <1>6, <2>1 DEF Known
  <2> QED
    BY <1>8, <2>2 DEF KnownKept, Known
<1>10. Entries("cached")' = Entries("cached")
  BY <1>7 DEF Entries
<1>11. \A v \in Workers \ {w} : at'[v] = at[v] /\ job'[v] = job[v]
  BY <1>6, <1>7 DEF TypeInv, TypeOK
<1>12. OthersStep(w)
  BY <1>7, <1>9, <1>10, <1>11 DEF OthersStep
<1>13. /\ at'[w] = "copying" /\ job'[w].body = size /\ job'[w].inode = n
       /\ job'[w].asset = a
  BY <1>1, <1>6, <1>7 DEF TypeInv, TypeOK, Job, Of
<1>14. NameOf(w)' = s /\ Source(n)' = s
  BY <1>2, <1>5, <1>7, <1>13 DEF NameOf, Of, Source
<1>15. Answered(w)'
  BY <1>4, <1>6, <1>8, <1>13, <1>14 DEF Answered, Known, Source
<1>16. \A b \in Assets : data'[b] = data[b] \/ Within(b)'
  BY <1>7 DEF Within, TypeInv, TypeOK
<1>17. ASSUME NEW q \in Sources PROVE Reason(q)'
  <2>1. CASE q # s
    BY <1>4, <1>7, <1>12, <2>1, ReasonKept DEF TypeInv, TypeOK, Writing
  <2>2. CASE q = s
    <3>1. temp'[s] = n
      BY <1>7 DEF TypeInv, TypeOK
    <3>2. Source(temp[s])' = s /\ \E v \in Workers : at'[v] \in Writing /\ NameOf(v)' = s
      BY <1>13, <1>14, <3>1 DEF Writing, Source
    <3>3. ASSUME final'[s] # None
          PROVE  Source(final[s])' = s
                 /\ \/ \E v \in Workers : at'[v] = "placed" /\ NameOf(v)' = s
                    \/ \E i \in Entries("cached")' : Source(assets[i].asset)' = s
      <4>1. final'[s] = final[s] /\ final[s] \in Assets
        BY <1>7, <3>3 DEF TypeInv, TypeOK
      <4>2. Source(final[s])' = s
        BY <1>7, <3>3, <4>1 DEF SharedInv, Reason, Source
      <4>3. CASE \E v \in Workers : at[v] = "placed" /\ NameOf(v) = s
        <5>1. PICK v \in Workers : at[v] = "placed" /\ NameOf(v) = s
          BY <4>3
        <5>2. v # w
          BY <1>4, <5>1
        <5>3. at'[v] = "placed" /\ NameOf(v)' = s
          BY <1>11, <1>12, <5>1, <5>2, SharedOthers
        <5> QED
          BY <4>2, <5>3
      <4>4. CASE \E i \in Entries("cached") : Source(assets[i].asset) = s
        BY <1>10, <1>12, <4>2, <4>4, SharedOthers
      <4> QED
        BY <1>7, <3>3, <4>3, <4>4 DEF SharedInv, Reason
    <3> QED
      BY <2>2, <3>2, <3>3 DEF Reason
  <2> QED
    BY <2>1, <2>2
<1> QED
  BY <1>10, <1>12, <1>15, <1>16, <1>17, SharedFromParts

LEMMA SharedCopy ==
  ASSUME TypeInv, SharedInv, NEW w \in Workers, Copy(w)
  PROVE  SharedInv'
<1>1. at[w] = "copying" /\ job[w] \in Job
  BY DEF Copy, TypeInv, TypeOK
<1>2. PICK n \in Nat : n = job[w].wrote + 1 /\ n > 0 /\ n <= job[w].body
  <2>1. job[w].wrote \in Nat /\ job[w].body \in Nat
    BY <1>1, ConstantFacts DEF Job, Bytes
  <2>2. job[w].wrote < job[w].body
    BY DEF Copy
  <2> QED
    BY <2>1, <2>2
<1>3. PICK i \in Assets : i = job[w].inode
  BY <1>1 DEF TypeInv, Handed
<1>4. /\ job' = [job EXCEPT ![w].wrote = n]
      /\ data' = [data EXCEPT ![i] = @ \cup {n}]
      /\ UNCHANGED <<collected, content, at, temp, final, assets>>
  BY <1>2, <1>3 DEF Copy, books
<1>5. /\ job'[w].body = job[w].body /\ job'[w].inode = i /\ job'[w].asset = job[w].asset
      /\ \A v \in Workers \ {w} : job'[v] = job[v]
  BY <1>1, <1>3, <1>4 DEF TypeInv, TypeOK, Job
<1>6. Entries("cached")' = Entries("cached")
  BY <1>4 DEF Entries
<1>7. OthersStep(w)
  BY <1>4, <1>5, <1>6 DEF OthersStep, KnownKept, Known
<1>8. PICK s \in Sources : s = NameOf(w)
  <2>1. Of(w) \in Assets
    BY <1>1 DEF TypeInv, Handed
  <2> QED
    BY <2>1, SourceType DEF NameOf
<1>9. NameOf(w)' = s /\ Source(i)' = Source(i)
  BY <1>4, <1>5, <1>8 DEF NameOf, Source, Of
<1>10. Known(s) /\ job[w].body = content[s] /\ Source(i) = s
  BY <1>1, <1>3, <1>8 DEF SharedInv, Answered
<1>11. Answered(w)'
  BY <1>1, <1>4, <1>5, <1>9, <1>10 DEF Answered, Known, Source
<1>12. Within(i)'
  <2>1. data'[i] = data[i] \cup {n}
    BY <1>4 DEF TypeInv, TypeOK
  <2>2. data[i] \subseteq 1..content[s]
    BY <1>10 DEF SharedInv, Within
  <2>3. content[s] \in Nat
    BY <1>10, ConstantFacts DEF Known, Bytes
  <2>4. n \in 1..content[s]
    BY <1>2, <1>10, <2>3
  <2> QED
    BY <1>4, <1>9, <1>10, <2>1, <2>2, <2>4 DEF Within, Known
<1>13. \A a \in Assets : data'[a] = data[a] \/ Within(a)'
  BY <1>4, <1>12 DEF TypeInv, TypeOK
<1>14. \A q \in Sources : Reason(q)'
  BY <1>1, <1>4, <1>7, <1>8, <1>9, ReasonKept
<1> QED
  BY <1>6, <1>7, <1>11, <1>13, <1>14, SharedFromParts

LEMMA SharedDropTemp ==
  ASSUME TypeInv, SharedInv, NEW w \in Workers, DropTemp(w)
  PROVE  SharedInv'
<1>1. PICK s \in Sources : s = NameOf(w)
  <2>1. Of(w) \in Assets
    BY DEF DropTemp, TypeInv, Handed
  <2> QED
    BY <2>1, SourceType DEF NameOf
<1>2. /\ at[w] = "dropping" /\ at' = [at EXCEPT ![w] = "failed"]
      /\ temp' = [temp EXCEPT ![s] = None]
      /\ UNCHANGED <<collected, content, job, final, data, assets>>
  BY <1>1 DEF DropTemp, TempName, NameOf, Goto, books
<1>3. at'[w] = "failed" /\ \A v \in Workers \ {w} : at'[v] = at[v] /\ job'[v] = job[v]
  BY <1>2 DEF TypeInv, TypeOK
<1>4. Entries("cached")' = Entries("cached")
  BY <1>2 DEF Entries
<1>5. OthersStep(w)
  BY <1>2, <1>3, <1>4 DEF OthersStep, KnownKept, Known
<1>6. temp'[s] = None /\ \A q \in Sources : q # s => temp'[q] = temp[q]
  BY <1>2 DEF TypeInv, TypeOK
<1>7. \A q \in Sources : Reason(q)'
  BY <1>1, <1>2, <1>5, <1>6, ReasonKept
<1>8. Answered(w)'
  BY <1>3 DEF Answered
<1> QED
  BY <1>2, <1>4, <1>5, <1>7, <1>8, SharedFromParts

LEMMA SharedRename ==
  ASSUME TypeInv, SharedInv, NEW w \in Workers, Rename(w)
  PROVE  SharedInv'
<1>1. PICK s \in Sources : s = NameOf(w)
  <2>1. Of(w) \in Assets
    BY DEF Rename, TypeInv, Handed
  <2> QED
    BY <2>1, SourceType DEF NameOf
<1>2. /\ at[w] = "copied" /\ at' = [at EXCEPT ![w] = "placed"]
      /\ temp[s] # None /\ final' = [final EXCEPT ![s] = temp[s]]
      /\ temp' = [temp EXCEPT ![s] = None]
      /\ UNCHANGED <<collected, content, job, data, assets>>
  BY <1>1 DEF Rename, TempName, NameOf, Goto, books
<1>3. at'[w] = "placed" /\ \A v \in Workers \ {w} : at'[v] = at[v] /\ job'[v] = job[v]
  BY <1>2 DEF TypeInv, TypeOK
<1>4. Entries("cached")' = Entries("cached")
  BY <1>2 DEF Entries
<1>5. OthersStep(w)
  BY <1>2, <1>3, <1>4 DEF OthersStep, KnownKept, Known
<1>6. /\ temp'[s] = None /\ final'[s] = temp[s] /\ Source(temp[s]) = s
      /\ \A q \in Sources : q # s => temp'[q] = temp[q] /\ final'[q] = final[q]
  BY <1>2 DEF TypeInv, TypeOK, SharedInv, Reason
<1>7. NameOf(w)' = s
  BY <1>1, <1>2 DEF NameOf, Source, Of
<1>8. Answered(w)'
  <2>1. Known(s) /\ job[w].body = content[s]
    BY <1>1, <1>2 DEF SharedInv, Answered
  <2> QED
    BY <1>2, <1>3, <1>7, <2>1 DEF Answered, Known
<1>9. ASSUME NEW q \in Sources PROVE Reason(q)'
  <2>1. CASE q # s
    BY <1>1, <1>2, <1>5, <1>6, <2>1, ReasonKept
  <2>2. CASE q = s
    <3>1. Source(final[s])' = s
      BY <1>2, <1>6 DEF Source
    <3> QED
      BY <1>3, <1>6, <1>7, <2>2, <3>1 DEF Reason
  <2> QED
    BY <2>1, <2>2
<1> QED
  BY <1>2, <1>4, <1>5, <1>8, <1>9, SharedFromParts

LEMMA SharedNext == TypeInv /\ SharedInv /\ [Next]_vars => SharedInv'
<1> SUFFICES ASSUME TypeInv, SharedInv, [Next]_vars PROVE SharedInv'
  OBVIOUS
<1>1. CASE UNCHANGED vars
  <2>1. Entries("cached")' = Entries("cached")
    BY <1>1 DEF vars, Entries
  <2>2. \A a \in Assets : Within(a)'
    BY <1>1 DEF vars, SharedInv, Within, Known, Source
  <2>3. \A w \in Workers : Answered(w)'
    BY <1>1 DEF vars, SharedInv, Answered, Known, NameOf, Of, Source
  <2>4. \A i \in Entries("cached")' : Listed(i)'
    BY <1>1, <2>1 DEF vars, SharedInv, Listed, Known, Source
  <2>5. \A s \in Sources : Reason(s)'
    BY <1>1, <2>1 DEF vars, SharedInv, Reason, NameOf, Of, Source
  <2> QED
    BY <2>2, <2>3, <2>4, <2>5 DEF SharedInv
<1>2. ASSUME NEW w \in Workers, Work(w) PROVE SharedInv'
  BY <1>2, SharedMove, SharedBooks, SharedOpenTemp, SharedCopy, SharedDropTemp, SharedRename DEF Work
<1> QED
  BY <1>1, <1>2 DEF Next

\* A file is as large as the last byte written to it.
LEMMA LastByte ==
  ASSUME NEW n \in Nat, NEW D, D \subseteq 0..n, D # {}
  PROVE  Max(D) \in D
<1> DEFINE R == OpToRel(<, Nat)
           Gaps == {k \in 0..n : n - k \in D}
<1>1. Gaps \subseteq Nat /\ Gaps # {}
  <2>1. PICK d \in D : d \in 0..n
    OBVIOUS
  <2>2. n - d \in 0..n /\ n - (n - d) = d
    BY <2>1
  <2> QED
    BY <2>1, <2>2
<1>2. PICK k \in Gaps : \A j \in Gaps : ~ (<<j, k>> \in R)
  <2> HIDE DEF R, Gaps
  <2> QED
    BY <1>1, WFMin, NatLessThanWellFounded DEF R
<1>3. n - k \in D /\ k \in 0..n
  OBVIOUS
<1>4. ASSUME NEW y \in D PROVE n - k >= y
  <2>1. y \in 0..n /\ n - y \in 0..n /\ n - (n - y) = y
    OBVIOUS
  <2>2. n - y \in Gaps
    BY <2>1
  <2>3. ~ (n - y < k)
    <3>1. ~ (<<n - y, k>> \in R)
      BY <1>2, <2>2
    <3> QED
      BY <1>3, <2>1, <3>1 DEF OpToRel
  <2> QED
    BY <1>3, <2>1, <2>3
<1> QED
  BY <1>3, <1>4 DEF Max

\* No file is longer than the response its name stands for.
LEMMA SizeBound ==
  ASSUME TypeInv, SharedInv, NEW i \in Assets \cup {None}
  PROVE  /\ SizeOf(i) \in Nat
         /\ SizeOf(i) # 0 => /\ i # None /\ Known(Source(i))
                             /\ SizeOf(i) <= content[Source(i)]
<1>1. CASE i = None \/ data[i] = {}
  BY <1>1 DEF SizeOf
<1>2. CASE i # None /\ data[i] # {}
  <2>1. i \in Assets /\ Within(i)
    BY <1>2 DEF SharedInv
  <2>2. Known(Source(i)) /\ data[i] \subseteq 1..content[Source(i)]
    BY <1>2, <2>1 DEF Within
  <2>3. PICK n \in Nat : n = content[Source(i)]
    BY <2>2, ConstantFacts DEF Known, Bytes
  <2>4. data[i] \subseteq 0..n /\ data[i] \subseteq 1..n
    BY <2>2, <2>3
  <2>5. Max(data[i]) \in data[i]
    BY <1>2, <2>4, LastByte
  <2>6. SizeOf(i) = Max(data[i])
    BY <1>2 DEF SizeOf
  <2> QED
    BY <1>2, <2>2, <2>3, <2>4, <2>5, <2>6
<1> QED
  BY <1>1, <1>2

\* What is charged to workers, to each of them one file.
LEMMA WorkersPay ==
  ASSUME TypeInv, NEW W \in SUBSET Workers,
         NEW f, \A s \in Sources : f[s] \in Nat,
         \A s \in Sources : f[s] # 0 => f[s] <= FileLimit + 1 /\ \E w \in W : NameOf(w) = s
  PROVE  SumFunctionOnSet(f, Sources) <= (FileLimit + 1) * Cardinality(W)
<1> DEFINE g == [w \in W |-> FileLimit + 1]
           h == [s \in Sources |-> CHOOSE w \in W : NameOf(w) = s]
<1>1. IsFiniteSet(Sources) /\ IsFiniteSet(W)
  BY FS_Subset, MediaAssumption
<1>2. FileLimit + 1 \in Nat /\ FileLimit + 1 \in Int
  BY ConstantFacts
<1>3. \A w \in W : g[w] = FileLimit + 1 /\ g[w] \in Nat
  BY <1>2
<1>4. \A s \in Sources : f[s] # 0 => h[s] \in W /\ NameOf(h[s]) = s
  OBVIOUS
<1>5. \A s \in Sources : f[s] # 0 => h[s] \in W /\ f[s] <= g[h[s]]
  BY <1>3, <1>4
<1>6. \A s, t \in Sources : f[s] # 0 /\ f[t] # 0 /\ h[s] = h[t] => s = t
  BY <1>4
<1> HIDE DEF g, h
<1>7. SumFunctionOnSet(f, Sources) <= SumFunctionOnSet(g, W)
  BY <1>1, <1>3, <1>5, <1>6, SumCharged
<1>8. SumFunctionOnSet(g, W) = (FileLimit + 1) * Cardinality(W)
  BY <1>1, <1>2, <1>3, SumConstant
<1> QED
  BY <1>7, <1>8

\* What is charged to the manifest, to each entry its own bytes.
LEMMA EntriesPay ==
  ASSUME TypeInv, SharedInv, BookedAgrees,
         NEW f, \A s \in Sources : f[s] \in Nat,
         \A s \in Sources : f[s] # 0 =>
            f[s] <= content[s] /\ \E i \in Entries("cached") : Source(assets[i].asset) = s
  PROVE  SumFunctionOnSet(f, Sources) <= TotalBytes
<1> DEFINE C == Entries("cached")
           h == [s \in Sources |-> CHOOSE i \in C : Source(assets[i].asset) = s]
<1>1. IsFiniteSet(Sources) /\ IsFiniteSet(C)
  BY FiniteParts, MediaAssumption
<1>2. \A i \in C : CachedBytes[i] = assets[i].bytes /\ CachedBytes[i] \in Nat
  BY FiniteParts
<1>3. \A s \in Sources : f[s] # 0 => h[s] \in C /\ Source(assets[h[s]].asset) = s
  OBVIOUS
<1>4. \A i \in C : Listed(i)
  BY DEF SharedInv
<1>5. \A s \in Sources : f[s] # 0 => h[s] \in C /\ f[s] <= CachedBytes[h[s]]
  BY <1>2, <1>3, <1>4 DEF Listed
<1>6. \A s, t \in Sources : f[s] # 0 /\ f[t] # 0 /\ h[s] = h[t] => s = t
  BY <1>3
<1>7. \A i \in C : CachedBytes[i] \in Nat
  BY <1>2
<1> HIDE DEF h, C
<1>8. SumFunctionOnSet(f, Sources) <= SumFunctionOnSet(CachedBytes, C)
  BY <1>1, <1>5, <1>6, <1>7, SumCharged
<1> QED
  BY <1>8 DEF C, BookedAgrees

Holding(stages) == {w \in Workers : at[w] \in stages}

LEMMA DirectoryBounded ==
  ASSUME TypeInv, SharedInv, BookedAgrees
  PROVE  /\ DirectoryBytes \in Nat
         /\ DirectoryBytes <= TotalBytes + (FileLimit + 1) * Cardinality(Holding(Writing))
                                + (FileLimit + 1) * Cardinality(Holding({"placed"}))
<1> DEFINE whole == [s \in Sources |-> SizeOf(temp[s]) + SizeOf(final[s])]
           tempPart == [s \in Sources |-> SizeOf(temp[s])]
           finalPart == [s \in Sources |-> SizeOf(final[s])]
           paid(s) == \E w \in Holding({"placed"}) : NameOf(w) = s
           placedPart == [s \in Sources |-> IF paid(s) THEN SizeOf(final[s]) ELSE 0]
           listedPart == [s \in Sources |-> IF paid(s) THEN 0 ELSE SizeOf(final[s])]
<1>1. ASSUME NEW s \in Sources
      PROVE  /\ SizeOf(temp[s]) \in Nat /\ SizeOf(final[s]) \in Nat
             /\ SizeOf(temp[s]) # 0 => temp[s] # None /\ Known(Source(temp[s]))
                                       /\ SizeOf(temp[s]) <= content[Source(temp[s])]
             /\ SizeOf(final[s]) # 0 => final[s] # None /\ Known(Source(final[s]))
                                        /\ SizeOf(final[s]) <= content[Source(final[s])]
  <2>1. temp[s] \in Assets \cup {None} /\ final[s] \in Assets \cup {None}
    BY DEF TypeInv, TypeOK
  <2> QED
    BY <2>1, SizeBound
<1>2. \A s \in Sources : Reason(s)
  BY DEF SharedInv
<1>3. \A s : Known(s) => content[s] \in Nat /\ content[s] <= FileLimit + 1
  BY ConstantFacts DEF Known, Bytes
<1>4. IsFiniteSet(Sources)
  BY MediaAssumption
<1>5. \A s \in Sources : /\ tempPart[s] \in Nat /\ finalPart[s] \in Nat
                         /\ placedPart[s] \in Nat /\ listedPart[s] \in Nat
  BY <1>1
<1>6. ASSUME NEW s \in Sources, tempPart[s] # 0
      PROVE  tempPart[s] <= FileLimit + 1 /\ \E w \in Holding(Writing) : NameOf(w) = s
  <2>1. SizeOf(temp[s]) # 0 /\ tempPart[s] = SizeOf(temp[s])
    BY <1>6
  <2>2. temp[s] # None /\ Known(Source(temp[s])) /\ SizeOf(temp[s]) <= content[Source(temp[s])]
    BY <1>1, <2>1
  <2>3. Source(temp[s]) = s /\ \E w \in Workers : at[w] \in Writing /\ NameOf(w) = s
    BY <1>2, <2>2 DEF Reason
  <2>4. content[s] \in Nat /\ content[s] <= FileLimit + 1 /\ SizeOf(temp[s]) <= content[s]
    BY <1>3, <2>2, <2>3
  <2>5. tempPart[s] <= FileLimit + 1
    <3>1. tempPart[s] \in Nat
      BY <1>5
    <3> QED
      BY <2>1, <2>4, <3>1, ConstantFacts
  <2> QED
    BY <2>3, <2>5 DEF Holding
<1>7. ASSUME NEW s \in Sources, SizeOf(final[s]) # 0
      PROVE  /\ SizeOf(final[s]) <= content[s] /\ SizeOf(final[s]) <= FileLimit + 1
             /\ paid(s) \/ \E i \in Entries("cached") : Source(assets[i].asset) = s
  <2>1. final[s] # None /\ Known(Source(final[s])) /\ SizeOf(final[s]) <= content[Source(final[s])]
    BY <1>1, <1>7
  <2>2. /\ Source(final[s]) = s
        /\ \/ \E w \in Workers : at[w] = "placed" /\ NameOf(w) = s
           \/ \E i \in Entries("cached") : Source(assets[i].asset) = s
    BY <1>2, <2>1 DEF Reason
  <2>3. content[s] \in Nat /\ content[s] <= FileLimit + 1 /\ SizeOf(final[s]) <= content[s]
    BY <1>3, <2>1, <2>2
  <2>4. SizeOf(final[s]) <= FileLimit + 1
    <3>1. SizeOf(final[s]) \in Nat
      BY <1>1
    <3> QED
      BY <2>3, <3>1, ConstantFacts
  <2> QED
    BY <2>2, <2>3, <2>4 DEF Holding
<1>8. \A s \in Sources : placedPart[s] # 0 =>
         placedPart[s] <= FileLimit + 1 /\ \E w \in Holding({"placed"}) : NameOf(w) = s
  BY <1>7
<1>9. \A s \in Sources : listedPart[s] # 0 =>
         listedPart[s] <= content[s] /\ \E i \in Entries("cached") : Source(assets[i].asset) = s
  BY <1>7
<1>10. \A s \in Sources : /\ whole[s] = tempPart[s] + finalPart[s]
                          /\ finalPart[s] = placedPart[s] + listedPart[s]
  BY <1>5
<1>11. Holding(Writing) \in SUBSET Workers /\ Holding({"placed"}) \in SUBSET Workers
  BY DEF Holding
<1>12. DirectoryBytes = SumFunctionOnSet(whole, Sources)
  BY DEF DirectoryBytes, SumFunction
<1>13. \A s \in Sources : /\ tempPart[s] \in Int /\ finalPart[s] \in Int
                          /\ placedPart[s] \in Int /\ listedPart[s] \in Int
  BY <1>5
<1> HIDE DEF whole, tempPart, finalPart, placedPart, listedPart
<1>14. SumFunctionOnSet(tempPart, Sources) <= (FileLimit + 1) * Cardinality(Holding(Writing))
  BY <1>5, <1>6, <1>11, WorkersPay
<1>15. SumFunctionOnSet(placedPart, Sources) <= (FileLimit + 1) * Cardinality(Holding({"placed"}))
  BY <1>5, <1>8, <1>11, WorkersPay
<1>16. SumFunctionOnSet(listedPart, Sources) <= TotalBytes
  BY <1>5, <1>9, EntriesPay
<1>17. SumFunctionOnSet(whole, Sources)
         = SumFunctionOnSet(tempPart, Sources) + SumFunctionOnSet(finalPart, Sources)
  BY <1>4, <1>10, <1>13, SumPlus
<1>18. SumFunctionOnSet(finalPart, Sources)
         = SumFunctionOnSet(placedPart, Sources) + SumFunctionOnSet(listedPart, Sources)
  BY <1>4, <1>10, <1>13, SumPlus
<1>19. /\ SumFunctionOnSet(tempPart, Sources) \in Nat
       /\ SumFunctionOnSet(placedPart, Sources) \in Nat
       /\ SumFunctionOnSet(listedPart, Sources) \in Nat
  BY <1>4, <1>5, SumNat
<1>20. /\ TotalBytes \in Int
       /\ (FileLimit + 1) * Cardinality(Holding(Writing)) \in Int
       /\ (FileLimit + 1) * Cardinality(Holding({"placed"})) \in Int
  <2>1. Cardinality(Holding(Writing)) \in Nat /\ Cardinality(Holding({"placed"})) \in Nat
    BY <1>11, FS_Subset, FS_CardinalityType, MediaAssumption
  <2>2. TotalBytes \in Int
    BY ConstantFacts DEF TypeInv, TypeOK
  <2> QED
    BY <2>1, <2>2, ConstantFacts
<1> QED
  BY <1>12, <1>14, <1>15, <1>16, <1>17, <1>18, <1>19, <1>20

\* A worker holds one file at a time.
LEMMA HoldersFew ==
    (FileLimit + 1) * Cardinality(Holding(Writing))
      + (FileLimit + 1) * Cardinality(Holding({"placed"}))
         <= (FileLimit + 1) * Cardinality(Workers)
<1> DEFINE A == Holding(Writing)
           B == Holding({"placed"})
<1>1. A \in SUBSET Workers /\ B \in SUBSET Workers /\ A \cap B = {} /\ A \cup B \in SUBSET Workers
  BY DEF Holding, Writing
<1>2. IsFiniteSet(A) /\ IsFiniteSet(B) /\ IsFiniteSet(Workers)
      /\ Cardinality(A \cup B) <= Cardinality(Workers)
  BY <1>1, FS_Subset, MediaAssumption
<1> HIDE DEF A, B
<1>3. Cardinality(A) \in Nat /\ Cardinality(B) \in Nat /\ Cardinality(Workers) \in Nat
  BY <1>2, FS_CardinalityType
<1>4. Cardinality(A \cup B) = Cardinality(A) + Cardinality(B) - Cardinality(A \cap B)
  BY <1>2, FS_Union
<1>5. Cardinality(A \cap B) = 0
  BY <1>1, FS_EmptySet
<1>6. Cardinality(A) + Cardinality(B) <= Cardinality(Workers)
  BY <1>2, <1>3, <1>4, <1>5
<1>7. \A k, a, b, c \in Nat : a + b <= c => k * a + k * b <= k * c
  OBVIOUS
<1>8. FileLimit + 1 \in Nat
  BY ConstantFacts
<1> QED
  BY <1>3, <1>6, <1>7, <1>8 DEF A, B

\* The record that AssetBudget sees.
Seen == [running |-> ~Finished, onDisk |-> DirectoryBytes, booked |-> TotalBytes]

LEMMA SeenFits ==
  ASSUME TypeInv, SharedInv, AccountsAgree
  PROVE  Seen \in Budget!Budget /\ (Finished => DirectoryBytes <= TotalBytes)
<1>1. BookedAgrees
  BY AccountsMean
<1>2. /\ DirectoryBytes \in Nat
      /\ DirectoryBytes <= TotalBytes + (FileLimit + 1) * Cardinality(Holding(Writing))
                             + (FileLimit + 1) * Cardinality(Holding({"placed"}))
  BY <1>1, DirectoryBounded
<1>3. TotalBytes \in Nat /\ TotalBytes <= TotalLimit
  BY ConstantFacts DEF TypeInv, TypeOK
<1>4. /\ Cardinality(Holding(Writing)) \in Nat /\ Cardinality(Holding({"placed"})) \in Nat
      /\ Cardinality(Workers) \in Nat
  <2>1. Holding(Writing) \in SUBSET Workers /\ Holding({"placed"}) \in SUBSET Workers
    BY DEF Holding
  <2> QED
    BY <2>1, FS_Subset, FS_CardinalityType, MediaAssumption
<1>5. PICK writers \in Nat : writers = (FileLimit + 1) * Cardinality(Holding(Writing))
  BY <1>4, ConstantFacts
<1>6. PICK placers \in Nat : placers = (FileLimit + 1) * Cardinality(Holding({"placed"}))
  BY <1>4, ConstantFacts
<1>7. PICK all \in Nat : all = (FileLimit + 1) * Cardinality(Workers)
                         /\ all = Cardinality(Workers) * (FileLimit + 1)
  BY <1>4, ConstantFacts
<1>8. DirectoryBytes <= TotalLimit + Cardinality(Workers) * (FileLimit + 1)
  BY <1>2, <1>3, <1>5, <1>6, <1>7, HoldersFew, ConstantFacts
<1>9. ASSUME Finished PROVE DirectoryBytes <= TotalBytes
  <2>1. Holding(Writing) = {} /\ Holding({"placed"}) = {}
    BY <1>9 DEF Finished, Holding, Writing
  <2>2. Cardinality(Holding(Writing)) = 0 /\ Cardinality(Holding({"placed"})) = 0
    BY <2>1, FS_EmptySet
  <2>3. writers = 0 /\ placers = 0
    BY <1>5, <1>6, <2>2, ConstantFacts
  <2> QED
    BY <1>2, <1>3, <1>5, <1>6, <2>3
<1>10. DirectoryBytes \in 0..(TotalLimit + Cardinality(Workers) * (FileLimit + 1))
  BY <1>2, <1>4, <1>8, ConstantFacts
<1>11. TotalBytes \in 0..TotalLimit /\ (~Finished) \in BOOLEAN
  BY <1>3, ConstantFacts
<1> QED
  BY <1>9, <1>10, <1>11 DEF Seen, Budget!Budget

LEMMA SeenInit == Init => Seen \in Budget!Fresh
<1> SUFFICES ASSUME Init PROVE Seen \in Budget!Fresh
  OBVIOUS
<1>1. TypeInv /\ SharedInv /\ AccountsAgree
  BY TypeInit, SharedInit, AccountsInit
<1>2. Seen \in Budget!Budget
  BY <1>1, SeenFits
<1>3. TotalBytes = 0
  BY DEF Init
<1>4. DirectoryBytes = 0
  <2> DEFINE whole == [s \in Sources |-> SizeOf(temp[s]) + SizeOf(final[s])]
  <2>1. \A s \in Sources : whole[s] = 0
    BY DEF Init, SizeOf
  <2>2. IsFiniteSet(Sources) /\ 0 \in Int
    BY MediaAssumption
  <2>3. DirectoryBytes = SumFunctionOnSet(whole, Sources)
    BY DEF DirectoryBytes, SumFunction
  <2> HIDE DEF whole
  <2>4. SumFunctionOnSet(whole, Sources) = 0 * Cardinality(Sources)
    BY <2>1, <2>2, SumConstant
  <2>5. Cardinality(Sources) \in Nat
    BY <2>2, FS_CardinalityType
  <2> QED
    BY <2>3, <2>4, <2>5
<1> QED
  BY <1>2, <1>3, <1>4 DEF Seen, Budget!Fresh

\* A worker that does anything is not gone, and only booking a file changes TotalBytes.
LEMMA WorkBooks ==
  ASSUME TypeInv, NEW w \in Workers, Work(w)
  PROVE  ~Finished /\ TotalBytes <= TotalBytes'
<1>1. TotalBytes \in Int /\ TotalBytes <= TotalBytes
  BY ConstantFacts DEF TypeInv, TypeOK
<1>2. CASE BookCached(w)
  <2>1. job[w].body \in Nat
    BY ConstantFacts DEF TypeInv, TypeOK, Job, Bytes
  <2>2. TotalBytes' = TotalBytes + job[w].body /\ at[w] = "placed"
    BY <1>2 DEF BookCached
  <2>3. TotalBytes <= TotalBytes'
    BY <1>1, <2>1, <2>2
  <2> QED
    BY <2>2, <2>3 DEF Finished
<1>3. CASE Take(w) \/ Exit(w) \/ Reserve(w) \/ BookFailure(w) \/ BookOverLimit(w)
  BY <1>1, <1>3 DEF Take, Exit, Reserve, BookFailure, BookOverLimit, Finished, books
<1>4. CASE SkipUnsupported(w) \/ SkipTooLarge(w) \/ SkipOverLimit(w)
  BY <1>1, <1>4 DEF SkipUnsupported, SkipTooLarge, SkipOverLimit, SkipAs, Finished
<1>5. CASE FetchFails(w) \/ OpenTemp(w) \/ Copy(w) \/ CopyFails(w) \/ CopyEnds(w)
  BY <1>1, <1>5 DEF FetchFails, OpenTemp, Copy, CopyFails, CopyEnds, Finished, books
<1>6. CASE DropTemp(w) \/ Rename(w) \/ RenameFails(w)
  BY <1>1, <1>6 DEF DropTemp, Rename, RenameFails, Finished, books
<1> QED
  BY <1>2, <1>3, <1>4, <1>5, <1>6 DEF Work

LEMMA SeenNext ==
  ASSUME TypeInv, SharedInv, AccountsAgree, [Next]_vars, TypeInv', SharedInv', AccountsAgree'
  PROVE  Seen' \in Budget!Downloads(Seen) \cup Budget!Returns(Seen) \/ Seen' = Seen
<1>1. CASE UNCHANGED vars
  BY <1>1 DEF vars, Seen, Finished, DirectoryBytes, SizeOf
<1>2. ASSUME NEW w \in Workers, Work(w)
      PROVE  Seen' \in Budget!Downloads(Seen) \cup Budget!Returns(Seen)
  <2>1. ~Finished /\ TotalBytes <= TotalBytes'
    BY <1>2, WorkBooks
  <2>2. Seen' \in Budget!Budget /\ (Finished' => DirectoryBytes' <= TotalBytes')
    <3>1. (TypeInv /\ SharedInv /\ AccountsAgree
             => Seen \in Budget!Budget /\ (Finished => DirectoryBytes <= TotalBytes))'
      BY SeenFits, PTL
    <3> QED
      BY <3>1
  <2>3. /\ Seen.running = ~Finished /\ Seen.booked = TotalBytes
        /\ Seen'.running = ~Finished' /\ Seen'.booked = TotalBytes'
        /\ Seen'.onDisk = DirectoryBytes'
    BY DEF Seen
  <2>4. CASE Finished'
    BY <2>1, <2>2, <2>3, <2>4 DEF Budget!Returns
  <2>5. CASE ~Finished'
    BY <2>1, <2>2, <2>3, <2>5 DEF Budget!Downloads
  <2> QED
    BY <2>4, <2>5
<1> QED
  BY <1>1, <1>2 DEF Next

\* CacheKeepsBudget: for any number of workers, assets and URLs, shared or not, and whatever the
\* servers send, MediaCache implements AssetBudget: the directory never holds more than the
\* transcript's limit and one file per worker, TotalBytes only grows, and when Cache returns it
\* covers every file that is left.
THEOREM CacheKeepsBudget == Spec => WithinBudget
<1>1. Init => Budget!Init
  BY SeenInit DEF Budget!Init, Seen
<1>2. TypeInv /\ SharedInv /\ AccountsAgree /\ TypeInv' /\ SharedInv' /\ AccountsAgree' /\ [Next]_vars
        => [Budget!Next]_[running |-> ~Finished, onDisk |-> DirectoryBytes, booked |-> TotalBytes]
  BY SeenNext DEF Budget!Next, Seen
<1>3. Spec => [](TypeInv /\ SharedInv /\ AccountsAgree)
  BY TypeInit, TypeNext, SharedInit, SharedNext, AccountsInit, AccountsNext, PTL DEF Spec
<1> QED
  BY <1>1, <1>2, <1>3, PTL DEF Spec, WithinBudget, Budget!Spec

\* NothingLeftOver: when Cache returns no file is in the directory that the manifest does not
\* list, even if assets share a URL and take each other's files away.
THEOREM NothingLeftOver == Spec => []NoLeftovers
<1>1. SharedInv => NoLeftovers
  BY DEF SharedInv, Reason, NoLeftovers, Finished, Writing
<1> QED
  BY <1>1, TypeInit, TypeNext, SharedInit, SharedNext, PTL DEF Spec
===============================================================================

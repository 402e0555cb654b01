---------------------------- MODULE RegistryProofs ----------------------------
(***************************************************************************)
(* Proofs about Registry, for any set of transcripts, any bound on the     *)
(* writes and, unless a theorem assumes otherwise, any set of faults.      *)
(***************************************************************************)
EXTENDS RegistryHistory, SequenceTheorems, SumProofs, TLAPS

-------------------------------------------------------------------------------
(* Replaying a file: facts about ReplayTo. *)

\* A nonempty set of positions has a last one.
LEMMA LastOfExists ==
  ASSUME NEW n \in Nat, NEW S \in SUBSET (1..n), S # {}
  PROVE  LastOf(S) \in S /\ \A j \in S : j <= LastOf(S)
<1> DEFINE T == {n - i : i \in S}
           R == OpToRel(<, Nat)
<1>1. T \subseteq Nat /\ T # {}
  <2>1. \A i \in S : i \in 1..n /\ n - i \in Nat
    OBVIOUS
  <2>2. T \subseteq Nat
    BY <2>1
  <2>3. PICK i \in S : TRUE
    OBVIOUS
  <2>4. n - i \in T
    BY <2>3
  <2> QED
    BY <2>2, <2>4
<1>2. PICK x \in T : \A y \in T : ~ (<<y, x>> \in R)
  <2>1. IsWellFoundedOn(R, Nat)
    BY NatLessThanWellFounded
  <2> HIDE DEF R
  <2> QED
    BY <1>1, <2>1, WFMin
<1>3. \A y \in T : x <= y
  <2> TAKE y \in T
  <2>1. x \in Nat /\ y \in Nat
    BY <1>1
  <2>2. <<y, x>> \in R <=> y < x
    BY <2>1 DEF OpToRel
  <2> HIDE DEF R, T
  <2> QED
    BY <1>2, <2>1, <2>2
<1>4. PICK i \in S : x = n - i
  OBVIOUS
<1>5. \A j \in S : j <= i
  BY <1>3, <1>4
<1> QED
  BY <1>4, <1>5 DEF LastOf

\* Every chunk of a whole file is an intact line.
Whole(file) == \A i \in 1..Len(file) : file[i].form = "line"

LEMMA WholeIntact ==
  ASSUME NEW file \in Seq(Chunk), Whole(file), NEW i \in 1..Len(file)
  PROVE  Intact(file, i)
<1>1. i = 1 \/ i - 1 \in 1..Len(file)
  OBVIOUS
<1> QED
  BY <1>1 DEF Whole, Intact

\* The line at n decides for its transcript and for no other.
LEMMA ReplayStep ==
  ASSUME NEW file \in Seq(Chunk), NEW n \in 1..Len(file), NEW id \in Ids
  PROVE  ReplayTo(file, n, id) =
            IF Intact(file, n) /\ file[n].id = id THEN file[n].val
                                                  ELSE ReplayTo(file, n - 1, id)
<1> DEFINE V == Versions(file, id, n)
           W == Versions(file, id, n - 1)
<1>1. CASE Intact(file, n) /\ file[n].id = id
  <2>1. n \in V /\ \A j \in V : j <= n
    BY <1>1 DEF Versions
  <2>2. LastOf(V) \in V /\ n <= LastOf(V)
    BY <2>1 DEF LastOf
  <2>3. LastOf(V) = n
    BY <2>1, <2>2 DEF Versions
  <2> QED
    BY <1>1, <2>1, <2>3 DEF ReplayTo
<1>2. CASE ~ (Intact(file, n) /\ file[n].id = id)
  <2>1. V = W
    BY <1>2 DEF Versions
  <2> QED
    BY <1>2, <2>1 DEF ReplayTo
<1> QED
  BY <1>1, <1>2

\* Appending a line to a whole file changes what it says of that transcript only.
LEMMA ReplayAppend ==
  ASSUME NEW file \in Seq(Chunk), Whole(file), NEW c \in Chunk, c.form = "line"
  PROVE  /\ Append(file, c) \in Seq(Chunk)
         /\ Whole(Append(file, c))
         /\ \A id \in Ids : Replay(Append(file, c), id) =
                               IF c.id = id THEN c.val ELSE Replay(file, id)
<1> DEFINE more == Append(file, c)
           n == Len(file)
<1>1. /\ more \in Seq(Chunk) /\ Len(more) = n + 1
      /\ \A i \in 1..n : more[i] = file[i]
      /\ more[n + 1] = c
  BY AppendProperties
<1>2. Whole(more)
  BY <1>1 DEF Whole
<1> HIDE DEF more
<1>3. ASSUME NEW id \in Ids
      PROVE  Replay(more, id) = IF c.id = id THEN c.val ELSE Replay(file, id)
  <2> n \in Nat
    OBVIOUS
  <2>1. n + 1 \in 1..Len(more) /\ Intact(more, n + 1)
    BY <1>1, <1>2, WholeIntact
  <2>2. Replay(more, id) = IF c.id = id THEN c.val ELSE ReplayTo(more, n, id)
    <3>1. ReplayTo(more, n + 1, id) =
             IF Intact(more, n + 1) /\ more[n + 1].id = id
             THEN more[n + 1].val ELSE ReplayTo(more, n + 1 - 1, id)
      BY <1>1, <2>1, ReplayStep
    <3> QED
      BY <1>1, <2>1, <3>1 DEF Replay
  <2>3. \A i \in 1..n : Intact(more, i) /\ Intact(file, i)
    BY <1>1, <1>2, WholeIntact
  <2>4. Versions(more, id, n) = Versions(file, id, n)
    BY <1>1, <2>3 DEF Versions
  <2>5. \A i \in Versions(file, id, n) : more[i].val = file[i].val
    BY <1>1 DEF Versions
  <2>6. Versions(file, id, n) # {} => LastOf(Versions(file, id, n)) \in Versions(file, id, n)
    <3>1. Versions(file, id, n) \in SUBSET (1..n)
      BY DEF Versions
    <3> QED
      BY <3>1, LastOfExists
  <2>7. ReplayTo(more, n, id) = Replay(file, id)
    BY <2>4, <2>5, <2>6 DEF ReplayTo, Replay
  <2> QED
    BY <2>2, <2>7
<1> QED
  BY <1>1, <1>2, <1>3 DEF more

\* A whole file whose lines all repeat one map, and that has a line for each
\* transcript the map has a record of, says what the map says.
LEMMA ReplayImage ==
  ASSUME NEW file \in Seq(Chunk), Whole(file), NEW map \in [Ids -> Values],
         \A i \in 1..Len(file) : file[i].val = map[file[i].id],
         \A id \in Ids : map[id] # None => \E i \in 1..Len(file) : file[i].id = id
  PROVE  \A id \in Ids : Replay(file, id) = map[id]
<1> TAKE id \in Ids
<1> DEFINE V == Versions(file, id, Len(file))
<1>1. V = {i \in 1..Len(file) : file[i].id = id}
  BY WholeIntact DEF Versions
<1>2. CASE V = {}
  BY <1>1, <1>2 DEF Replay, ReplayTo
<1>3. CASE V # {}
  <2>1. LastOf(V) \in V
    <3>1. V \in SUBSET (1..Len(file)) /\ Len(file) \in Nat
      BY <1>1
    <3> HIDE DEF V
    <3> QED
      BY <1>3, <3>1, LastOfExists
  <2> QED
    BY <1>1, <1>3, <2>1 DEF Replay, ReplayTo
<1> QED
  BY <1>2, <1>3

\* What a power failure leaves of a file with a line more: the same, or all of it.
LEMMA PrefixesOfAppend ==
  ASSUME NEW file \in Seq(Chunk), NEW c \in Chunk, NEW m \in 0..Len(file)
  PROVE  {SubSeq(Append(file, c), 1, n) : n \in m..Len(Append(file, c))} =
            {SubSeq(file, 1, n) : n \in m..Len(file)} \cup {Append(file, c)}
<1> DEFINE more == Append(file, c)
<1>1. /\ more \in Seq(Chunk) /\ Len(more) = Len(file) + 1
      /\ \A i \in 1..Len(file) : more[i] = file[i]
  BY AppendProperties
<1>2. SubSeq(more, 1, Len(more)) = more
  BY <1>1, SubSeqFull
<1>3. ASSUME NEW n \in m..Len(file)
      PROVE  SubSeq(more, 1, n) = SubSeq(file, 1, n)
  BY <1>1, <1>3
<1>4. m..Len(more) = (m..Len(file)) \cup {Len(more)}
  BY <1>1
<1> QED
  BY <1>2, <1>3, <1>4

-------------------------------------------------------------------------------
(* Type correctness, for every set of faults. *)

\* What TypeOK needs of the lock: calls run while serving, a call that will
\* attempt a write has room for it, Add is the export's, exports run while
\* serving, Remove appends a tombstone, and a process that is down has no index.
LockOK ==
    /\ op.at # "-" => phase = "serving"
    /\ phase # "opening" => pos = 0
    /\ op.at = "bundle" => clock < MaxWrites
    /\ op.kind = "add" => export.at = "adding"
    /\ export # NoExport => phase = "serving"
    /\ op.at = "bundle" => op.val = None
    /\ phase = "down" => \A id \in Ids : records[id] = None

TypeInv == TypeOK /\ LockOK /\ ListsEveryRecord

LEMMA ValuesFacts == /\ None \in Values
                     /\ \A r \in Record : r \in Values /\ r # None
  BY NoneAssumption DEF Values

LEMMA SurvivorsType ==
  ASSUME TypeOK
  PROVE  /\ Survivors \subseteq Seq(Chunk)
         /\ log \in Survivors
<1>1. log \in Seq(Chunk) /\ synced \in 0..Len(log) /\ Len(log) \in Nat
  BY DEF TypeOK
<1>2. ASSUME NEW n \in 0..Len(log) PROVE SubSeq(log, 1, n) \in Seq(Chunk)
  <2>1. \A i \in 1..n : log[i] \in Chunk
    BY <1>1
  <2> QED
    BY <2>1, SubSeqProperties
<1>3. ASSUME NEW n \in 0..(Len(log) - 1)
      PROVE  Append(SubSeq(log, 1, n), [log[n + 1] EXCEPT !.form = "part"]) \in Seq(Chunk)
  <2>1. log[n + 1] \in Chunk
    BY <1>1
  <2>2. [log[n + 1] EXCEPT !.form = "part"] \in Chunk
    BY <2>1 DEF Chunk
  <2>3. SubSeq(log, 1, n) \in Seq(Chunk)
    BY <1>1, <1>2
  <2> QED
    BY <2>2, <2>3, AppendProperties
<1>4. SubSeq(log, 1, Len(log)) = log
  BY <1>1, SubSeqFull
<1>5. {SubSeq(log, 1, n) : n \in synced..Len(log)} \subseteq Seq(Chunk)
  BY <1>1, <1>2
<1>6. {Append(SubSeq(log, 1, n), [log[n + 1] EXCEPT !.form = "part"]) :
         n \in synced..(Len(log) - 1)} \subseteq Seq(Chunk)
  <2>1. \A n \in synced..(Len(log) - 1) : n \in 0..(Len(log) - 1)
    BY <1>1
  <2> QED
    BY <1>3, <2>1
<1>7. log \in {SubSeq(log, 1, n) : n \in synced..Len(log)}
  <2>1. Len(log) \in synced..Len(log)
    BY <1>1
  <2> QED
    BY <1>4, <2>1
<1>8. earlier \subseteq Seq(Chunk)
  BY DEF TypeOK
<1> QED
  BY <1>5, <1>6, <1>7, <1>8 DEF Survivors

\* What Compact may write: a whole file that says what the index says.
LEMMA RewritesFacts ==
  ASSUME TypeOK, ListsEveryRecord, NEW file \in Rewrites
  PROVE  /\ file \in Seq(Chunk)
         /\ Whole(file)
         /\ \A id \in Ids : Replay(file, id) = records[id]
<1> DEFINE entry(i) == [id |-> order[i], val |-> records[order[i]], form |-> "line"]
<1>1. /\ order \in Seq(Ids) /\ Len(order) \in Nat /\ DOMAIN order = 1..Len(order)
      /\ records \in [Ids -> Values]
  BY DEF TypeOK
<1>0. PICK q \in UNION {[1..n -> Listed] : n \in 0..Len(order)} :
         /\ Listed \subseteq {q[k] : k \in DOMAIN q}
         /\ file = [k \in DOMAIN q |-> entry(q[k])]
  BY DEF Rewrites
<1>2. PICK n \in 0..Len(order) : q \in [1..n -> Listed]
  BY <1>0
<1>3. \A k \in 1..n : q[k] \in DOMAIN order /\ order[q[k]] \in Ids
  BY <1>0, <1>1, <1>2 DEF Listed
<1>4. \A k \in 1..n : entry(q[k]) \in Chunk
  BY <1>1, <1>3 DEF Chunk
<1>5. file \in [1..n -> Chunk] /\ n \in Nat
  <2> HIDE DEF entry
  <2>1. DOMAIN q = 1..n /\ n \in Nat
    BY <1>1, <1>2
  <2> QED
    BY <1>0, <1>4, <2>1
<1>6. file \in Seq(Chunk) /\ Len(file) = n
  BY <1>5, IsASeq
<1>7. Whole(file)
  BY <1>0, <1>2, <1>6 DEF Whole
<1>8. \A i \in 1..Len(file) : file[i].val = records[file[i].id]
  BY <1>0, <1>2, <1>6
<1>9. ASSUME NEW id \in Ids, records[id] # None
      PROVE  \E i \in 1..Len(file) : file[i].id = id
  <2>1. PICK i \in DOMAIN order : order[i] = id
    BY <1>9 DEF ListsEveryRecord
  <2>2. PICK k \in 1..n : q[k] = i
    BY <1>0, <1>2, <1>9, <2>1 DEF Listed
  <2> QED
    BY <1>0, <1>2, <1>6, <2>1, <2>2
<1> QED
  BY <1>1, <1>6, <1>7, <1>8, <1>9, ReplayImage

LEMMA TypeInit == Init => TypeInv
<1> SUFFICES ASSUME Init PROVE TypeInv
  OBVIOUS
<1>1. log \in Seq(Chunk) /\ Len(log) = 0 /\ order \in Seq(Ids)
  BY EmptySeq DEF Init
<1>2. TypeOK
  BY <1>1, ValuesFacts, RegistryAssumption
     DEF BundleStates, Init, TypeOK, Free, NoExport, Kinds, Stages
<1> QED
  BY <1>2 DEF Init, TypeInv, LockOK, ListsEveryRecord, Free

\* A transcript that enters the index enters order with it.
LEMMA OrderGrows ==
  ASSUME TypeInv, NEW id \in Ids, NEW val \in Values,
         records' = [records EXCEPT ![id] = val],
         order' = IF val # None /\ records[id] = None THEN Append(order, id) ELSE order
  PROVE  /\ records' \in [Ids -> Values]
         /\ order' \in Seq(Ids)
         /\ ListsEveryRecord'
<1>1. records \in [Ids -> Values] /\ order \in Seq(Ids)
  BY DEF TypeInv, TypeOK
<1>2. records' \in [Ids -> Values]
  BY <1>1
<1>3. /\ order' \in Seq(Ids)
      /\ \A i \in DOMAIN order : i \in DOMAIN order' /\ order'[i] = order[i]
      /\ val # None /\ records[id] = None => \E i \in DOMAIN order' : order'[i] = id
  <2>1. CASE val # None /\ records[id] = None
    <3>1. /\ order' = Append(order, id) /\ Len(order) \in Nat
      BY <1>1, <2>1
    <3>2. /\ order' \in Seq(Ids) /\ Len(order') = Len(order) + 1
          /\ \A i \in 1..Len(order) : order'[i] = order[i]
          /\ order'[Len(order) + 1] = id
      BY <1>1, <3>1, AppendProperties
    <3>3. DOMAIN order = 1..Len(order) /\ DOMAIN order' = 1..(Len(order) + 1)
      BY <1>1, <3>2
    <3> QED
      BY <3>1, <3>2, <3>3
  <2>2. CASE ~ (val # None /\ records[id] = None)
    BY <1>1, <2>2
  <2> QED
    BY <2>1, <2>2
<1>4. ASSUME NEW x \in Ids, records'[x] # None
      PROVE  \E i \in DOMAIN order' : order'[i] = x
  <2>1. CASE x = id /\ records[id] = None
    BY <1>1, <1>3, <1>4, <2>1
  <2>2. CASE ~ (x = id /\ records[id] = None)
    <3>1. records[x] # None
      BY <1>1, <1>4, <2>2
    <3> QED
      BY <1>3, <3>1 DEF TypeInv, ListsEveryRecord
  <2> QED
    BY <2>1, <2>2
<1> QED
  BY <1>2, <1>3, <1>4 DEF ListsEveryRecord

\* A chunk written for the call that holds the lock.
LEMMA LogGrows ==
  ASSUME TypeInv, op.at = "write", NEW form \in {"line", "bare", "part"},
         log' = Append(log, Line(form))
  PROVE  /\ Line(form) \in Chunk
         /\ log' \in Seq(Chunk) /\ Len(log') = Len(log) + 1
         /\ synced \in 0..Len(log') /\ pos \in 0..Len(log')
<1>1. /\ log \in Seq(Chunk) /\ Len(log) \in Nat /\ synced \in 0..Len(log)
      /\ pos \in 0..Len(log) /\ op.id \in Ids /\ op.val \in Values
  BY DEF TypeInv, TypeOK
<1>2. Line(form) \in Chunk
  BY <1>1 DEF Line, Chunk
<1> QED
  BY <1>1, <1>2, AppendProperties

\* A call that returns an error leaves only the file changed, if it wrote.
LEMMA ErrorType ==
  ASSUME TypeInv, ReturnError, op.at # "-",
         log' \in Seq(Chunk), Len(log) <= Len(log'), UNCHANGED <<synced, earlier>>
  PROVE  TypeInv'
<1>1. /\ export' \in [id : Ids \cup {None}, at : {"-", "temp", "final", "adding", "undo"}]
      /\ export' # NoExport => export'.id \in Ids
  <2>1. CASE op.kind = "add"
    <3>1. export.at = "adding" /\ export # NoExport
      BY <2>1 DEF TypeInv, LockOK, NoExport
    <3>2. export.id \in Ids /\ export' = [export EXCEPT !.at = "undo"]
      BY <2>1, <3>1 DEF ReturnError, TypeInv, TypeOK
    <3> QED
      BY <3>1, <3>2 DEF TypeInv, TypeOK
  <2>2. CASE op.kind # "add"
    BY <2>2 DEF ReturnError, TypeInv, TypeOK
  <2> QED
    BY <2>1, <2>2
<1>2. synced' \in 0..Len(log') /\ pos' \in 0..Len(log')
  <2>1. Len(log) \in Nat /\ Len(log') \in Nat
    BY DEF TypeInv, TypeOK
  <2> QED
    BY <2>1 DEF ReturnError, bootVars, TypeInv, TypeOK
<1>3. op' = Free /\ UNCHANGED <<records, order, phase, pos, used, dirs, clock, may, earlier>>
  BY DEF ReturnError, memoryVars, bootVars
<1>4. TypeOK'
  BY <1>1, <1>2, <1>3, ValuesFacts DEF TypeInv, TypeOK, Free, Kinds, Stages
<1> QED
  BY <1>3, <1>4 DEF TypeInv, LockOK, ListsEveryRecord, Free

\* Every step preserves it, one step of the proof per action.
LEMMA TypeNext == TypeInv /\ [Next]_vars => TypeInv'
<1> SUFFICES ASSUME TypeInv, [Next]_vars PROVE TypeInv'
  OBVIOUS
<1> USE RegistryAssumption, ValuesFacts
<1>1. CASE Open
  BY <1>1 DEF Open, TypeInv, TypeOK, LockOK,
        ListsEveryRecord, fileVars, memoryVars, bootVars, exportVars, Free, NoExport, Kinds, Stages
<1>2. CASE ReplayLine
  <2>1. log \in Seq(Chunk) /\ pos + 1 \in 1..Len(log)
    BY <1>2 DEF ReplayLine, TypeInv, TypeOK
  <2>2. log[pos + 1].id \in Ids /\ log[pos + 1].val \in Values
    <3>1. log[pos + 1] \in Chunk
      BY <2>1, ElementOfSeq
    <3> QED
      BY <3>1 DEF Chunk
  <2>3. /\ records' \in [Ids -> Values]
        /\ order' \in Seq(Ids)
        /\ ListsEveryRecord'
    <3>1. CASE Intact(log, pos + 1)
      BY <1>2, <2>2, <3>1, OrderGrows DEF ReplayLine
    <3>2. CASE ~ Intact(log, pos + 1)
      BY <1>2, <3>2 DEF ReplayLine, TypeInv, TypeOK, LockOK,
        ListsEveryRecord, fileVars, memoryVars, bootVars, exportVars, Free, NoExport, Kinds, Stages
    <3> QED
      BY <3>1, <3>2
  <2> QED
    BY <1>2, <2>1, <2>3 DEF ReplayLine, TypeInv, TypeOK, LockOK, fileVars, exportVars
<1>3. CASE OpenDone
  BY <1>3 DEF OpenDone, TypeInv, TypeOK, LockOK,
        ListsEveryRecord, fileVars, memoryVars, bootVars, exportVars, Free, NoExport, Kinds, Stages
<1>4. CASE CleanupInterrupted
  BY <1>4 DEF BundleStates, CleanupInterrupted, TypeInv, TypeOK, LockOK,
        ListsEveryRecord, fileVars, memoryVars, bootVars, exportVars, Free, NoExport, Kinds, Stages
<1>5. CASE Write
  BY <1>5, LogGrows DEF Write, TypeInv, TypeOK, LockOK,
        ListsEveryRecord, fileVars, memoryVars, bootVars, exportVars, Free, NoExport, Kinds, Stages
<1>6. CASE WriteFails
  <2>1. log' \in Seq(Chunk) /\ Len(log) <= Len(log')
    <3>1. log \in Seq(Chunk) /\ Len(log) \in Nat
      BY DEF TypeInv, TypeOK
    <3> QED
      BY <1>6, <3>1, LogGrows DEF WriteFails
  <2> QED
    BY <1>6, <2>1, ErrorType DEF WriteFails
<1>7. CASE Sync
  <2>1. /\ op' \in [kind : Kinds, id : Ids \cup {None}, val : Values, at : Stages]
        /\ op'.at = "close" /\ op'.id \in Ids /\ op'.kind = op.kind /\ op.at = "sync"
    BY <1>7 DEF Sync, TypeInv, TypeOK, Stages
  <2>2. synced' \in 0..Len(log') /\ earlier' \subseteq Seq(Chunk)
    BY <1>7 DEF Sync, TypeInv, TypeOK
  <2>3. TypeOK'
    BY <1>7, <2>1, <2>2 DEF Sync, TypeInv, TypeOK, memoryVars, bootVars, exportVars
  <2> QED
    BY <1>7, <2>1, <2>3 DEF Sync, TypeInv, LockOK, ListsEveryRecord, memoryVars, bootVars,
                            exportVars
<1>8. CASE SyncFails
  <2>1. log' = log /\ log \in Seq(Chunk) /\ Len(log) \in Nat
    BY <1>8 DEF SyncFails, fileVars, TypeInv, TypeOK
  <2> QED
    BY <1>8, <2>1, ErrorType DEF SyncFails, fileVars
<1>9. CASE Close
  <2>1. op.id \in Ids /\ op.val \in Values
    BY <1>9 DEF Close, TypeInv, TypeOK
  <2>2. /\ records' \in [Ids -> Values]
        /\ order' \in Seq(Ids)
        /\ ListsEveryRecord'
    BY <1>9, <2>1, OrderGrows DEF Close
  <2> QED
    BY <1>9, <2>1, <2>2 DEF Close, TypeInv, TypeOK, LockOK, fileVars, bootVars,
                            Free, NoExport, Kinds, Stages
<1>10. CASE CloseFails
  <2>1. log' = log /\ log \in Seq(Chunk) /\ Len(log) \in Nat
    BY <1>10 DEF CloseFails, fileVars, TypeInv, TypeOK
  <2> QED
    BY <1>10, <2>1, ErrorType DEF CloseFails, fileVars
<1>11. CASE \E id \in Ids : StartExport(id)
  BY <1>11 DEF BundleStates, StartExport, TypeInv, TypeOK, LockOK,
        ListsEveryRecord, fileVars, memoryVars, bootVars, exportVars, Free, NoExport, Kinds, Stages
<1>12. CASE ExportFails
  BY <1>12 DEF BundleStates, ExportFails, TypeInv, TypeOK, LockOK,
        ListsEveryRecord, fileVars, memoryVars, bootVars, exportVars, Free, NoExport, Kinds, Stages
<1>13. CASE PublishBundle
  <2>1. export # NoExport /\ export.id \in Ids
    BY <1>13 DEF PublishBundle, NoExport, TypeInv, TypeOK
  <2>2. /\ export' \in [id : Ids \cup {None}, at : {"-", "temp", "final", "adding", "undo"}]
        /\ export'.id \in Ids
    BY <1>13, <2>1 DEF PublishBundle, TypeInv, TypeOK
  <2>3. op.kind # "add" /\ phase = "serving"
    BY <1>13, <2>1 DEF PublishBundle, TypeInv, LockOK
  <2>4. TypeOK'
    BY <1>13, <2>1, <2>2 DEF BundleStates, PublishBundle, TypeInv, TypeOK, fileVars, memoryVars, bootVars
  <2> QED
    BY <1>13, <2>3, <2>4 DEF PublishBundle, TypeInv, LockOK, ListsEveryRecord,
                             memoryVars, bootVars
<1>14. CASE Add
  <2>1. export.id \in Ids /\ clock + 1 \in 0..MaxWrites
    BY <1>14 DEF Add, Begin, TypeInv, TypeOK, NoExport
  <2>2. [created |-> clock + 1, key |-> 0, renewed |-> 0] \in Values
    BY <2>1 DEF Record, Values
  <2> QED
    <3>1. /\ op' \in [kind : Kinds, id : Ids \cup {None}, val : Values, at : Stages]
          /\ op'.at = "write" /\ op'.id = export.id
      BY <1>14, <2>1, <2>2 DEF Add, Begin, Kinds, Stages
    <3>2. /\ export' \in [id : Ids \cup {None}, at : {"-", "temp", "final", "adding", "undo"}]
          /\ export'.id \in Ids /\ export'.at = "adding"
      BY <1>14, <2>1 DEF Add, TypeInv, TypeOK
    <3>3. may' \in [Ids -> SUBSET Values]
      BY <1>14, <2>1, <2>2 DEF Add, Begin, TypeInv, TypeOK
    <3>4. phase = "serving"
      BY <1>14 DEF Add, NoExport, TypeInv, LockOK
    <3>5. TypeOK'
      BY <1>14, <2>1, <3>1, <3>2, <3>3 DEF Add, Begin, TypeInv, TypeOK, fileVars,
                                          memoryVars, bootVars
    <3> QED
      BY <1>14, <3>1, <3>2, <3>4, <3>5 DEF Add, TypeInv, LockOK, ListsEveryRecord,
                                          memoryVars, bootVars
<1>15. CASE UndoBundle
  BY <1>15 DEF BundleStates, RemoveAll, UndoBundle, TypeInv, TypeOK, LockOK,
        ListsEveryRecord, fileVars, memoryVars, bootVars, exportVars, Free, NoExport, Kinds, Stages
<1>16. ASSUME NEW id \in Ids, NEW val \in Values, Update(id, val) PROVE TypeInv'
  BY <1>16 DEF Update, Begin, TypeInv, TypeOK, LockOK,
        ListsEveryRecord, fileVars, memoryVars, bootVars, exportVars, Free, NoExport, Kinds, Stages
<1>17. CASE \E id \in Ids, public \in BOOLEAN : SetVisibility(id, public)
  <2>1. PICK id \in Ids, public \in BOOLEAN : SetVisibility(id, public)
    BY <1>17
  <2>2. records[id] \in Record /\ clock + 1 \in 0..MaxWrites
    BY <2>1 DEF SetVisibility, Update, Begin, TypeInv, TypeOK, Values
  <2>3. [records[id] EXCEPT !.key = IF public THEN 0 ELSE clock + 1] \in Values
    BY <2>2 DEF Record, Values
  <2> QED
    BY <1>16, <2>1, <2>3 DEF SetVisibility
<1>18. CASE \E id \in Ids : Renew(id)
  <2>1. PICK id \in Ids : Renew(id)
    BY <1>18
  <2>2. records[id] \in Record /\ clock + 1 \in 0..MaxWrites
    BY <2>1 DEF Renew, Update, Begin, TypeInv, TypeOK, Values
  <2>3. [records[id] EXCEPT !.renewed = clock + 1] \in Values
    BY <2>2 DEF Record, Values
  <2> QED
    BY <1>16, <2>1, <2>3 DEF Renew
<1>19. CASE \E id \in Ids : Remove(id)
  BY <1>19 DEF Remove, TypeInv, TypeOK, LockOK,
        ListsEveryRecord, fileVars, memoryVars, bootVars, exportVars, Free, NoExport, Kinds, Stages
<1>20. CASE RemoveBundle
  <2>1. op.id \in Ids /\ clock + 1 \in 0..MaxWrites
    BY <1>20 DEF RemoveBundle, TypeInv, TypeOK, LockOK
  <2>2. /\ op' \in [kind : Kinds, id : Ids \cup {None}, val : Values, at : Stages]
        /\ op'.at = "write" /\ op'.id = op.id /\ op'.kind = op.kind
    BY <1>20 DEF RemoveBundle, TypeInv, TypeOK, Stages
  <2>3. may' \in [Ids -> SUBSET Values]
    BY <1>20, <2>1 DEF RemoveBundle, TypeInv, TypeOK
  <2>4. TypeOK'
    BY <1>20, <2>1, <2>2, <2>3 DEF BundleStates, RemoveAll, RemoveBundle, TypeInv, TypeOK, fileVars, memoryVars,
                                   bootVars, exportVars
  <2> QED
    BY <1>20, <2>2, <2>4 DEF RemoveBundle, TypeInv, LockOK, ListsEveryRecord, fileVars,
                             memoryVars, bootVars, exportVars
<1>21. CASE RemoveBundleFails
  BY <1>21 DEF BundleStates, RemoveAll, RemoveBundleFails, TypeInv, TypeOK, LockOK,
        ListsEveryRecord, fileVars, memoryVars, bootVars, exportVars, Free, NoExport, Kinds, Stages
<1>22. CASE Compact
  <2>1. /\ op' \in [kind : Kinds, id : Ids \cup {None}, val : Values, at : Stages]
        /\ op'.at = "rewrite" /\ op'.kind = "compact"
    BY <1>22 DEF Compact, Free, Kinds, Stages
  <2> QED
    BY <1>22, <2>1 DEF Compact, TypeInv, TypeOK, LockOK, ListsEveryRecord, fileVars,
                       memoryVars, bootVars, exportVars
<1>23. CASE Rewrite
  <2>1. log' \in Seq(Chunk) /\ Len(log') \in Nat
    BY <1>23, RewritesFacts DEF Rewrite, TypeInv
  <2>2. Survivors \subseteq Seq(Chunk)
    BY SurvivorsType DEF TypeInv
  <2>3. pos = 0
    BY <1>23 DEF Rewrite, TypeInv, LockOK
  <2>4. may' \in [Ids -> SUBSET Values]
    BY <1>23 DEF Rewrite, TypeInv, TypeOK
  <2>5. /\ synced' = Len(log') /\ earlier' = Survivors /\ op'.at = "dirsync"
        /\ op' \in [kind : Kinds, id : Ids \cup {None}, val : Values, at : Stages]
        /\ op'.kind = op.kind /\ op.at = "rewrite" /\ phase = "serving"
        /\ UNCHANGED <<records, order, phase, pos, export, used, dirs, clock>>
    BY <1>23 DEF Rewrite, memoryVars, bootVars, exportVars, TypeInv, TypeOK, LockOK, Stages
  <2>6. TypeOK'
    BY <2>1, <2>2, <2>3, <2>4, <2>5 DEF TypeInv, TypeOK
  <2> QED
    BY <2>5, <2>6 DEF TypeInv, LockOK, ListsEveryRecord
<1>24. CASE SyncDirectory
  BY <1>24 DEF SyncDirectory, TypeInv, TypeOK, LockOK,
        ListsEveryRecord, fileVars, memoryVars, bootVars, exportVars, Free, NoExport, Kinds, Stages
<1>25. CASE CompactFails
  <2>1. log' = log /\ log \in Seq(Chunk) /\ Len(log) \in Nat
    BY <1>25 DEF CompactFails, fileVars, TypeInv, TypeOK
  <2> QED
    BY <1>25, <2>1, ErrorType DEF CompactFails, fileVars
<1>26. CASE Crash \/ PowerFailure
  <2>1. /\ log' \in Seq(Chunk) /\ synced' \in 0..Len(log')
        /\ earlier' \subseteq Seq(Chunk)
    <3>1. CASE UNCHANGED fileVars
      BY <3>1 DEF fileVars, TypeInv, TypeOK
    <3>2. CASE log' \in Survivors /\ synced' = Len(log') /\ earlier' = {}
      <4>1. log' \in Seq(Chunk)
        BY <3>2, SurvivorsType DEF TypeInv
      <4> QED
        BY <3>2, <4>1
    <3>3. CASE /\ op.at = "write"
               /\ \E form \in {"bare", "part"} : log' = Append(log, Line(form))
               /\ UNCHANGED <<synced, earlier>>
      BY <3>3, LogGrows DEF TypeInv, TypeOK
    <3> QED
      BY <1>26, <3>1, <3>2, <3>3 DEF Crash, PowerFailure, Stop
  <2>2. /\ records' = [id \in Ids |-> None] /\ order' = <<>>
        /\ phase' = "down" /\ pos' = 0 /\ op' = Free /\ export' = NoExport
        /\ UNCHANGED <<used, clock, may>>
    BY <1>26 DEF Crash, PowerFailure, Stop
  <2>3. dirs' \in [Ids -> BundleStates]
    BY <1>26 DEF BundleStates, RemoveAll, Left, Crash, PowerFailure, Stop, TypeInv, TypeOK
  <2>4. order' \in Seq(Ids)
    BY <2>2, EmptySeq
  <2>5. records' \in [Ids -> Values] /\ ListsEveryRecord'
    BY <2>2 DEF ListsEveryRecord
  <2> QED
    BY <2>1, <2>2, <2>3, <2>4, <2>5
       DEF TypeInv, TypeOK, LockOK, Free, NoExport, Kinds, Stages
<1>27. CASE UNCHANGED vars
  BY <1>27 DEF vars, TypeInv, TypeOK, LockOK,
        ListsEveryRecord, fileVars, memoryVars, bootVars, exportVars, Free, NoExport, Kinds, Stages
<1> QED
  BY <1>1, <1>2, <1>3, <1>4, <1>5, <1>6, <1>7, <1>8, <1>9, <1>10, <1>11, <1>12,
     <1>13, <1>14, <1>15, <1>17, <1>18, <1>19, <1>20, <1>21, <1>22, <1>23,
     <1>24, <1>25, <1>26, <1>27 DEF Next, Step, appendLocked

\* TypeCorrect: every variable keeps its type, whatever fails.
THEOREM TypeCorrect == Spec => []TypeOK
<1>1. TypeInv => TypeOK
  BY DEF TypeInv
<1> QED
  BY <1>1, TypeInit, TypeNext, PTL DEF Spec

\* EveryRecordListed: no write, failed write, restart or compaction leaves a
\* record of the index out of order, so no compaction can drop it.
THEOREM EveryRecordListed == Spec => []ListsEveryRecord
<1>1. TypeInv => ListsEveryRecord
  BY DEF TypeInv
<1> QED
  BY <1>1, TypeInit, TypeNext, PTL DEF Spec

-------------------------------------------------------------------------------
(* Recovery, when no write is short: a Write puts down its whole line or   *)
(* nothing. (With short writes Recoverable is false: see the run           *)
(* registry_torn_loss.)                                                    *)

NoTorn == "short" \notin Faults

\* Every file that may be read back is whole and says, of every transcript,
\* something its history allows.
FileInv == (\A file \in Survivors : Whole(file)) /\ Recoverable

\* How far the call that holds the lock is, in terms of the file.
StageInv ==
    /\ op.at \in {"write", "sync", "close"} => op.val \in may[op.id]
    /\ op.at \in {"sync", "close"} => log # <<>> /\ log[Len(log)] = Line("line")
    /\ op.at = "close" => synced = Len(log) /\ earlier = {}
    /\ op.at = "dirsync" =>
          /\ synced = Len(log)
          /\ \A id \in Ids : Replay(log, id) = records[id]

\* The index while it is loaded, and once it is.
IndexInv ==
    /\ phase = "opening" => \A id \in Ids : records[id] = ReplayTo(log, pos, id)
    /\ IndexRecoverable

RecoveryInv == FileInv /\ StageInv /\ IndexInv

LEMMA RecoveryInit == NoTorn /\ Init => RecoveryInv
<1> SUFFICES ASSUME NoTorn, Init PROVE RecoveryInv
  OBVIOUS
<1>1. SubSeq(<<>>, 1, 0) = <<>>
  BY SubSeqEmpty
<1>2. Survivors = {<<>>}
  <2>1. log = <<>> /\ synced = 0 /\ earlier = {} /\ Len(log) = 0
    BY EmptySeq DEF Init
  <2>2. \A n : n \in synced..Len(log) <=> n = 0
    BY <2>1
  <2> QED
    BY <1>1, <2>1, <2>2 DEF NoTorn, Survivors
<1>3. \A id \in Ids : Replay(<<>>, id) = None
  BY DEF Replay, ReplayTo, Versions
<1> QED
  BY <1>2, <1>3 DEF Init, RecoveryInv, FileInv, Whole, Recoverable, StageInv, IndexInv,
                    IndexRecoverable, Loaded, Free

\* A step that leaves the file and the index alone, withdraws no allowed value
\* and does not move the call past its write.
LEMMA RecoveryKept ==
  ASSUME TypeInv, RecoveryInv,
         UNCHANGED <<log, synced, earlier, records, phase, pos>>,
         may' \in [Ids -> SUBSET Values],
         \A id \in Ids : may[id] \subseteq may'[id],
         op'.at \notin {"sync", "close", "dirsync"},
         op'.at = "write" => op'.val \in may'[op'.id]
  PROVE  RecoveryInv'
<1>1. Survivors' = Survivors
  BY DEF Survivors
<1>2. FileInv'
  BY <1>1 DEF RecoveryInv, FileInv, Recoverable, Whole, Replay, ReplayTo, Versions, Intact
<1>3. StageInv'
  BY DEF StageInv
<1>4. IndexInv'
  <2>1. \A id \in Ids : ReplayTo(log, pos, id)' = ReplayTo(log, pos, id)
    BY DEF ReplayTo, Versions, Intact
  <2>2. IndexRecoverable'
    BY DEF RecoveryInv, IndexInv, IndexRecoverable, Loaded
  <2> QED
    BY <2>1, <2>2 DEF RecoveryInv, IndexInv
<1> QED
  BY <1>2, <1>3, <1>4 DEF RecoveryInv

\* A call that takes the lock to append says what it will write.
LEMMA RecoveryBegin ==
  ASSUME TypeInv, RecoveryInv, NEW kind, NEW id \in Ids, NEW val \in Values,
         Begin(kind, id, val), UNCHANGED <<log, synced, earlier, records, phase, pos>>
  PROVE  RecoveryInv'
<1>1. /\ may \in [Ids -> SUBSET Values] /\ may' = [may EXCEPT ![id] = @ \cup {val}]
      /\ op'.at = "write" /\ op'.id = id /\ op'.val = val
  BY DEF Begin, TypeInv, TypeOK
<1>2. may' \in [Ids -> SUBSET Values]
  BY <1>1
<1>3. \A x \in Ids : may[x] \subseteq may'[x]
  BY <1>1
<1>4. op'.val \in may'[op'.id]
  BY <1>1
<1> QED
  BY <1>1, <1>2, <1>3, <1>4, RecoveryKept

\* A call that returns an error without having written.
LEMMA RecoveryError ==
  ASSUME TypeInv, RecoveryInv, op' = Free,
         UNCHANGED <<log, synced, earlier, records, phase, pos, may>>
  PROVE  RecoveryInv'
  BY RecoveryKept DEF Free, TypeInv, TypeOK

\* When all of a file was synced, a power failure leaves that file only.
LEMMA AllSynced ==
  ASSUME NEW file \in Seq(Chunk)
  PROVE  {SubSeq(file, 1, n) : n \in Len(file)..Len(file)} = {file}
<1>1. \A n : n \in Len(file)..Len(file) <=> n = Len(file)
  OBVIOUS
<1>2. SubSeq(file, 1, Len(file)) = file
  BY SubSeqFull
<1> QED
  BY <1>1, <1>2

LEMMA RecoveryReplayLine ==
  ASSUME TypeInv, RecoveryInv, ReplayLine
  PROVE  RecoveryInv'
<1>1. /\ log \in Seq(Chunk) /\ pos + 1 \in 1..Len(log) /\ pos \in Nat
      /\ records \in [Ids -> Values]
  BY DEF ReplayLine, TypeInv, TypeOK
<1>2. /\ UNCHANGED <<log, synced, earlier, may, op, phase>> /\ phase = "opening"
      /\ pos' = pos + 1
  BY DEF ReplayLine, fileVars
<1>3. Survivors' = Survivors
  BY <1>2 DEF Survivors
<1>4. FileInv'
  BY <1>2, <1>3 DEF RecoveryInv, FileInv, Recoverable, Whole, Replay, ReplayTo, Versions, Intact
<1>5. op.at = "-"
  BY <1>2 DEF TypeInv, LockOK
<1>6. StageInv'
  BY <1>2, <1>5 DEF StageInv
<1>7. ASSUME NEW id \in Ids PROVE records'[id] = ReplayTo(log, pos + 1, id)
  <2>1. records[id] = ReplayTo(log, pos, id)
    BY <1>2 DEF RecoveryInv, IndexInv
  <2>2. ReplayTo(log, pos + 1, id) =
           IF Intact(log, pos + 1) /\ log[pos + 1].id = id
           THEN log[pos + 1].val ELSE ReplayTo(log, pos + 1 - 1, id)
    BY <1>1, ReplayStep
  <2>3. pos + 1 - 1 = pos
    BY <1>1
  <2>4. CASE Intact(log, pos + 1)
    <3>1. records' = [records EXCEPT ![log[pos + 1].id] = log[pos + 1].val]
      BY <2>4 DEF ReplayLine
    <3> QED
      BY <1>1, <2>1, <2>2, <2>3, <2>4, <3>1
  <2>5. CASE ~ Intact(log, pos + 1)
    BY <2>1, <2>2, <2>3, <2>5 DEF ReplayLine, memoryVars
  <2> QED
    BY <2>4, <2>5
<1>8. IndexInv'
  BY <1>2, <1>7 DEF IndexInv, IndexRecoverable, Loaded, ReplayTo, Versions, Intact
<1> QED
  BY <1>4, <1>6, <1>8 DEF RecoveryInv

LEMMA RecoveryWrite ==
  ASSUME NoTorn, TypeInv, RecoveryInv, Write
  PROVE  RecoveryInv'
<1> DEFINE c == Line("line")
<1>1. /\ log \in Seq(Chunk) /\ synced \in 0..Len(log) /\ Len(log) \in Nat
      /\ may \in [Ids -> SUBSET Values]
  BY DEF TypeInv, TypeOK
<1>2. c \in Chunk /\ c.form = "line" /\ c.id = op.id /\ c.val = op.val
  <2>1. c \in Chunk
    BY LogGrows DEF Write
  <2> QED
    BY <2>1 DEF Line
<1>3. /\ log' = Append(log, c) /\ op' = [op EXCEPT !.at = "sync"]
      /\ UNCHANGED <<synced, earlier, records, phase, pos, may>>
      /\ phase = "serving" /\ op.at = "write"
  BY DEF Write, memoryVars, bootVars, TypeInv, LockOK
<1>4. op'.at = "sync" /\ op'.id = op.id /\ op'.val = op.val
  BY <1>3 DEF TypeInv, TypeOK
<1> HIDE DEF c
<1>5. Survivors' = Survivors \cup {log'}
  <2>1. Survivors = earlier \cup {SubSeq(log, 1, n) : n \in synced..Len(log)}
    BY DEF Survivors, NoTorn
  <2>2. Survivors' = earlier \cup {SubSeq(log', 1, n) : n \in synced..Len(log')}
    BY <1>3 DEF Survivors, NoTorn
  <2>3. {SubSeq(log', 1, n) : n \in synced..Len(log')} =
           {SubSeq(log, 1, n) : n \in synced..Len(log)} \cup {log'}
    <3>1. {SubSeq(Append(log, c), 1, n) : n \in synced..Len(Append(log, c))} =
             {SubSeq(log, 1, n) : n \in synced..Len(log)} \cup {Append(log, c)}
      BY <1>1, <1>2, PrefixesOfAppend
    <3> QED
      BY <1>3, <3>1
  <2> QED
    BY <2>1, <2>2, <2>3
<1>6. log \in Survivors /\ Whole(log)
  BY SurvivorsType DEF TypeInv, RecoveryInv, FileInv
<1>7. /\ Whole(log')
      /\ \A id \in Ids : Replay(log', id) = IF c.id = id THEN c.val ELSE Replay(log, id)
  BY <1>1, <1>2, <1>3, <1>6, ReplayAppend
<1>8. \A id \in Ids : Replay(log', id) \in may[id]
  BY <1>2, <1>3, <1>6, <1>7 DEF RecoveryInv, FileInv, Recoverable, StageInv
<1>9. FileInv'
  <2>1. \A file \in Survivors : Whole(file) /\ \A id \in Ids : Replay(file, id) \in may[id]
    BY DEF RecoveryInv, FileInv, Recoverable
  <2>2. \A file \in Survivors' : Whole(file) /\ \A id \in Ids : Replay(file, id) \in may'[id]
    BY <1>3, <1>5, <1>7, <1>8, <2>1
  <2> QED
    BY <2>2 DEF FileInv, Recoverable, Whole, Replay, ReplayTo, Versions, Intact
<1>10. StageInv'
  <2>1. op.val \in may[op.id]
    BY <1>3 DEF RecoveryInv, StageInv
  <2>2. log' # <<>> /\ log'[Len(log')] = c
    BY <1>1, <1>2, <1>3, AppendProperties
  <2>3. Line("line")' = c
    BY <1>4 DEF Line, c
  <2> QED
    BY <1>3, <1>4, <2>1, <2>2, <2>3 DEF StageInv
<1>11. IndexInv'
  BY <1>3 DEF RecoveryInv, IndexInv, IndexRecoverable, Loaded
<1> QED
  BY <1>9, <1>10, <1>11 DEF RecoveryInv

LEMMA RecoverySync ==
  ASSUME NoTorn, TypeInv, TypeInv', RecoveryInv, Sync
  PROVE  RecoveryInv'
<1>1. /\ log' = log /\ synced' = Len(log) /\ earlier' = {} /\ op.at = "sync"
      /\ UNCHANGED <<records, phase, pos, may>>
  BY DEF Sync, memoryVars, bootVars
<1>2. op'.at = "close" /\ op'.id = op.id /\ op'.val = op.val
  BY DEF Sync, TypeInv, TypeOK
<1>3. Survivors' = {log}
  BY <1>1, AllSynced DEF Survivors, NoTorn, TypeInv, TypeOK
<1>4. log \in Survivors
  BY SurvivorsType DEF TypeInv
<1>5. FileInv'
  <2>1. Whole(log) /\ \A id \in Ids : Replay(log, id) \in may[id]
    BY <1>4 DEF RecoveryInv, FileInv, Recoverable
  <2>2. \A file \in Survivors' : Whole(file) /\ \A id \in Ids : Replay(file, id) \in may'[id]
    BY <1>1, <1>3, <2>1
  <2> QED
    BY <2>2 DEF FileInv, Recoverable, Whole, Replay, ReplayTo, Versions, Intact
<1>6. StageInv'
  BY <1>1, <1>2 DEF RecoveryInv, StageInv, Line
<1>7. IndexInv'
  BY <1>1 DEF RecoveryInv, IndexInv, IndexRecoverable, Loaded
<1> QED
  BY <1>5, <1>6, <1>7 DEF RecoveryInv

LEMMA RecoveryClose ==
  ASSUME NoTorn, TypeInv, RecoveryInv, Close
  PROVE  RecoveryInv'
<1>1. /\ UNCHANGED <<log, synced, earlier, phase, pos>>
      /\ records' = [records EXCEPT ![op.id] = op.val]
      /\ may' = [may EXCEPT ![op.id] = {op.val}]
      /\ op' = Free /\ op.at = "close"
  BY DEF Close, fileVars, bootVars
<1>2. /\ log \in Seq(Chunk) /\ op.id \in Ids /\ phase = "serving"
      /\ records \in [Ids -> Values] /\ may \in [Ids -> SUBSET Values]
  BY <1>1 DEF TypeInv, TypeOK, LockOK
<1>3. /\ log # <<>> /\ log[Len(log)] = Line("line")
      /\ synced = Len(log) /\ earlier = {}
  BY <1>1 DEF RecoveryInv, StageInv
<1>4. Survivors = {log} /\ Survivors' = {log}
  <2>1. Survivors = {log}
    BY <1>2, <1>3, AllSynced DEF Survivors, NoTorn
  <2> QED
    BY <1>1, <2>1 DEF Survivors
<1>5. Whole(log) /\ \A id \in Ids : Replay(log, id) \in may[id]
  BY <1>4 DEF RecoveryInv, FileInv, Recoverable
<1>6. Replay(log, op.id) = op.val
  <2>1. Len(log) \in 1..Len(log)
    BY <1>2, <1>3, EmptySeq
  <2>2. Intact(log, Len(log))
    BY <1>2, <1>5, <2>1, WholeIntact
  <2> QED
    BY <1>2, <1>3, <2>1, <2>2, ReplayStep DEF Replay, Line
<1>7. \A id \in Ids : Replay(log, id) \in may'[id]
  BY <1>1, <1>2, <1>5, <1>6
<1>8. FileInv'
  <2>1. \A file \in Survivors' : Whole(file) /\ \A id \in Ids : Replay(file, id) \in may'[id]
    BY <1>4, <1>5, <1>7
  <2> QED
    BY <2>1 DEF FileInv, Recoverable, Whole, Replay, ReplayTo, Versions, Intact
<1>9. StageInv'
  BY <1>1 DEF StageInv, Free
<1>10. IndexInv'
  <2>1. \A id \in Ids : records[id] \in may[id]
    BY <1>2 DEF RecoveryInv, IndexInv, IndexRecoverable, Loaded
  <2>2. \A id \in Ids : records'[id] \in may'[id]
    BY <1>1, <1>2, <2>1
  <2> QED
    BY <1>1, <1>2, <2>2 DEF IndexInv, IndexRecoverable
<1> QED
  BY <1>8, <1>9, <1>10 DEF RecoveryInv

\* A compaction allows nothing new: the index shows what may be shown.
LEMMA RewriteKeepsMay ==
  ASSUME TypeInv, RecoveryInv, Rewrite
  PROVE  may' = may
<1>1. /\ phase = "serving" /\ may \in [Ids -> SUBSET Values]
      /\ may' = [id \in Ids |-> may[id] \cup {records[id]}]
  BY DEF Rewrite, TypeInv, TypeOK, LockOK
<1>2. \A id \in Ids : records[id] \in may[id]
  BY <1>1 DEF RecoveryInv, IndexInv, IndexRecoverable, Loaded
<1> QED
  BY <1>1, <1>2

LEMMA RecoveryRewrite ==
  ASSUME NoTorn, TypeInv, TypeInv', RecoveryInv, Rewrite
  PROVE  RecoveryInv'
<1>1. /\ log' \in Rewrites /\ synced' = Len(log') /\ earlier' = Survivors
      /\ UNCHANGED <<records, phase, pos, may>> /\ op.at = "rewrite"
  BY RewriteKeepsMay DEF Rewrite, memoryVars, bootVars
<1>2. op'.at = "dirsync" /\ phase = "serving"
  BY <1>1 DEF Rewrite, TypeInv, TypeOK, LockOK
<1>3. /\ log' \in Seq(Chunk) /\ Whole(log')
      /\ \A id \in Ids : Replay(log', id) = records[id]
  BY <1>1, RewritesFacts DEF TypeInv
<1>4. Survivors' = Survivors \cup {log'}
  <2>1. \A n : n \in synced'..Len(log') <=> n = Len(log')
    BY <1>1, <1>3
  <2>2. SubSeq(log', 1, Len(log')) = log'
    BY <1>3, SubSeqFull
  <2> QED
    BY <1>1, <2>1, <2>2 DEF Survivors, NoTorn
<1>5. \A id \in Ids : records[id] \in may[id]
  BY <1>2 DEF RecoveryInv, IndexInv, IndexRecoverable, Loaded
<1>6. FileInv'
  <2>1. \A file \in Survivors : Whole(file) /\ \A id \in Ids : Replay(file, id) \in may[id]
    BY DEF RecoveryInv, FileInv, Recoverable
  <2>2. \A file \in Survivors' : Whole(file) /\ \A id \in Ids : Replay(file, id) \in may'[id]
    BY <1>1, <1>3, <1>4, <1>5, <2>1
  <2> QED
    BY <2>2 DEF FileInv, Recoverable, Whole, Replay, ReplayTo, Versions, Intact
<1>7. StageInv'
  BY <1>1, <1>2, <1>3 DEF StageInv, Replay, ReplayTo, Versions, Intact
<1>8. IndexInv'
  BY <1>1, <1>2 DEF RecoveryInv, IndexInv, IndexRecoverable, Loaded
<1> QED
  BY <1>6, <1>7, <1>8 DEF RecoveryInv

LEMMA RecoverySyncDirectory ==
  ASSUME NoTorn, TypeInv, TypeInv', RecoveryInv, SyncDirectory
  PROVE  RecoveryInv'
<1>1. /\ UNCHANGED <<log, synced, records, phase, pos>> /\ earlier' = {}
      /\ op.at = "dirsync" /\ op' = Free
      /\ may' = [id \in Ids |-> {records[id]}]
  BY DEF SyncDirectory, memoryVars, bootVars
<1>2. synced = Len(log) /\ \A id \in Ids : Replay(log, id) = records[id]
  BY <1>1 DEF RecoveryInv, StageInv
<1>3. Survivors' = {log}
  BY <1>1, <1>2, AllSynced DEF Survivors, NoTorn, TypeInv, TypeOK
<1>4. Whole(log)
  BY SurvivorsType DEF TypeInv, RecoveryInv, FileInv
<1>5. FileInv'
  BY <1>1, <1>2, <1>3, <1>4
     DEF FileInv, Recoverable, Whole, Replay, ReplayTo, Versions, Intact
<1>6. StageInv'
  BY <1>1 DEF StageInv, Free
<1>7. phase = "serving"
  BY <1>1 DEF TypeInv, LockOK
<1>8. IndexInv'
  BY <1>1, <1>7 DEF IndexInv, IndexRecoverable
<1> QED
  BY <1>5, <1>6, <1>8 DEF RecoveryInv

LEMMA RecoveryCrash ==
  ASSUME NoTorn, TypeInv, TypeInv', RecoveryInv, Crash \/ PowerFailure
  PROVE  RecoveryInv'
<1>1. phase' = "down" /\ op' = Free /\ may' = may
  BY DEF Crash, PowerFailure, Stop
<1>2. Survivors' \subseteq Survivors
  <2>1. CASE UNCHANGED fileVars
    BY <2>1 DEF fileVars, Survivors
  <2>2. CASE log' \in Survivors /\ synced' = Len(log') /\ earlier' = {}
    <3>1. Survivors' = {log'}
      BY <2>2, AllSynced DEF Survivors, NoTorn, TypeInv, TypeOK
    <3> QED
      BY <2>2, <3>1
  <2> QED
    BY <2>1, <2>2 DEF Crash, PowerFailure, Stop, NoTorn
<1>3. FileInv'
  BY <1>1, <1>2
     DEF RecoveryInv, FileInv, Recoverable, Whole, Replay, ReplayTo, Versions, Intact
<1>4. StageInv' /\ IndexInv'
  BY <1>1 DEF StageInv, IndexInv, IndexRecoverable, Loaded, Free
<1> QED
  BY <1>3, <1>4 DEF RecoveryInv

LEMMA RecoveryNext == NoTorn /\ TypeInv /\ RecoveryInv /\ [Next]_vars => RecoveryInv'
<1> SUFFICES ASSUME NoTorn, TypeInv, RecoveryInv, [Next]_vars PROVE RecoveryInv'
  OBVIOUS
<1>0. TypeInv'
  BY TypeNext
<1>1. ASSUME Open \/ OpenDone \/ CleanupInterrupted PROVE RecoveryInv'
  <2>1. /\ UNCHANGED <<log, synced, earlier, records, op, may>> /\ op.at = "-"
    BY <1>1 DEF Open, OpenDone, CleanupInterrupted, fileVars, memoryVars, Free, TypeInv, LockOK
  <2>2. Survivors' = Survivors
    BY <2>1 DEF Survivors
  <2>3. FileInv'
    BY <2>1, <2>2
       DEF RecoveryInv, FileInv, Recoverable, Whole, Replay, ReplayTo, Versions, Intact
  <2>4. StageInv'
    BY <2>1 DEF StageInv
  <2>5. IndexInv'
    <3>1. CASE Open
      <4>1. \A id \in Ids : records[id] = None
        BY <3>1 DEF Open, TypeInv, LockOK
      <4>2. \A id \in Ids : ReplayTo(log, 0, id) = None
        BY DEF ReplayTo, Versions
      <4> QED
        BY <2>1, <3>1, <4>1, <4>2
           DEF Open, IndexInv, IndexRecoverable, Loaded, ReplayTo, Versions, Intact
    <3>2. CASE OpenDone
      <4>1. \A id \in Ids : records[id] = Replay(log, id)
        BY <3>2 DEF OpenDone, RecoveryInv, IndexInv, Replay
      <4>2. log \in Survivors
        BY SurvivorsType DEF TypeInv
      <4>3. \A id \in Ids : records[id] \in may[id]
        BY <4>1, <4>2 DEF RecoveryInv, FileInv, Recoverable
      <4> QED
        BY <2>1, <3>2, <4>3 DEF OpenDone, IndexInv, IndexRecoverable
    <3>3. CASE CleanupInterrupted
      BY <2>1, <3>3 DEF CleanupInterrupted, RecoveryInv, IndexInv, IndexRecoverable, Loaded
    <3> QED
      BY <1>1, <3>1, <3>2, <3>3
  <2> QED
    BY <2>3, <2>4, <2>5 DEF RecoveryInv
<1>2. CASE ReplayLine
  BY <1>2, RecoveryReplayLine
<1>3. CASE Write
  BY <1>3, RecoveryWrite
<1>4. CASE Sync
  BY <1>0, <1>4, RecoverySync
<1>5. CASE Close
  BY <1>5, RecoveryClose
<1>6. CASE Rewrite
  BY <1>0, <1>6, RecoveryRewrite
<1>7. CASE SyncDirectory
  BY <1>0, <1>7, RecoverySyncDirectory
<1>8. CASE Crash \/ PowerFailure
  BY <1>0, <1>8, RecoveryCrash
<1>9. ASSUME WriteFails \/ SyncFails \/ CloseFails \/ CompactFails \/ RemoveBundleFails
      PROVE  RecoveryInv'
  BY <1>9, RecoveryError DEF WriteFails, SyncFails, CloseFails, CompactFails, RemoveBundleFails,
     ReturnError, fileVars, memoryVars, bootVars, NoTorn
<1>10. ASSUME \/ \E id \in Ids : StartExport(id)
              \/ ExportFails \/ PublishBundle \/ UndoBundle \/ UNCHANGED vars
       PROVE  RecoveryInv'
  <2>1. UNCHANGED <<log, synced, earlier, records, phase, pos, op, may>>
    BY <1>10 DEF StartExport, ExportFails, PublishBundle, UndoBundle, vars, fileVars,
                 memoryVars, bootVars
  <2>2. Survivors' = Survivors
    BY <2>1 DEF Survivors
  <2>3. FileInv'
    BY <2>1, <2>2
       DEF RecoveryInv, FileInv, Recoverable, Whole, Replay, ReplayTo, Versions, Intact
  <2>4. StageInv'
    <3>1. Line("line")' = Line("line")
      BY <2>1 DEF Line
    <3>2. \A id \in Ids : Replay(log, id)' = Replay(log, id)
      BY <2>1 DEF Replay, ReplayTo, Versions, Intact
    <3> QED
      BY <2>1, <3>1, <3>2 DEF RecoveryInv, StageInv
  <2>5. IndexInv'
    BY <2>1 DEF RecoveryInv, IndexInv, IndexRecoverable, Loaded, ReplayTo, Versions, Intact
  <2> QED
    BY <2>3, <2>4, <2>5 DEF RecoveryInv
<1>11. ASSUME Compact \/ \E id \in Ids : Remove(id) PROVE RecoveryInv'
  <2>1. /\ UNCHANGED <<log, synced, earlier, records, phase, pos, may>>
        /\ op'.at \in {"rewrite", "bundle"}
    <3>1. CASE Compact
      BY <3>1 DEF Compact, Free, fileVars, memoryVars, bootVars
    <3>2. CASE \E id \in Ids : Remove(id)
      BY <3>2 DEF Remove, fileVars, memoryVars, bootVars
    <3> QED
      BY <1>11, <3>1, <3>2
  <2> QED
    BY <2>1, RecoveryKept DEF TypeInv, TypeOK
<1>12. CASE Add
  <2>1. export.id \in Ids /\ clock + 1 \in 0..MaxWrites
    BY <1>12, RegistryAssumption DEF Add, Begin, TypeInv, TypeOK, NoExport
  <2>2. [created |-> clock + 1, key |-> 0, renewed |-> 0] \in Values
    BY <2>1, RegistryAssumption DEF Record, Values
  <2> QED
    BY <1>12, <2>1, <2>2, RecoveryBegin DEF Add, fileVars, memoryVars, bootVars
<1>13. CASE \E id \in Ids : Renew(id) \/ \E public \in BOOLEAN : SetVisibility(id, public)
  <2>1. PICK id \in Ids : Renew(id) \/ \E public \in BOOLEAN : SetVisibility(id, public)
    BY <1>13
  <2> DEFINE renewed == [records[id] EXCEPT !.renewed = clock + 1]
             keyed(k) == [records[id] EXCEPT !.key = k]
  <2>2. \/ Update(id, renewed)
        \/ Update(id, keyed(0))
        \/ Update(id, keyed(clock + 1))
    BY <2>1 DEF Renew, SetVisibility
  <2>3. records[id] # None /\ clock < MaxWrites
    BY <2>2 DEF Update, Begin
  <2>4. records[id] \in Record /\ clock + 1 \in 0..MaxWrites /\ 0 \in 0..MaxWrites
    BY <2>3, RegistryAssumption DEF TypeInv, TypeOK, Values
  <2>5. renewed \in Values /\ keyed(0) \in Values /\ keyed(clock + 1) \in Values
    BY <2>4 DEF Record, Values
  <2> HIDE DEF renewed, keyed
  <2>6. ASSUME NEW val \in Values, Update(id, val) PROVE RecoveryInv'
    BY <2>6, RecoveryBegin DEF Update, fileVars, memoryVars, bootVars
  <2> QED
    BY <2>2, <2>5, <2>6
<1>14. CASE RemoveBundle
  <2>1. /\ UNCHANGED <<log, synced, earlier, records, phase, pos>>
        /\ op.id \in Ids /\ may \in [Ids -> SUBSET Values]
        /\ may' = [may EXCEPT ![op.id] = @ \cup {None}]
        /\ op'.at = "write" /\ op'.id = op.id /\ op'.val = op.val
    BY <1>14 DEF RemoveBundle, fileVars, memoryVars, bootVars, TypeInv, TypeOK
  <2>2. op.val = None
    BY <1>14 DEF RemoveBundle, TypeInv, LockOK
  <2>3. /\ may' \in [Ids -> SUBSET Values]
        /\ \A x \in Ids : may[x] \subseteq may'[x]
        /\ op'.val \in may'[op'.id]
    BY <2>1, <2>2, ValuesFacts
  <2> QED
    BY <2>1, <2>3, RecoveryKept
<1> QED
  BY <1>1, <1>2, <1>3, <1>4, <1>5, <1>6, <1>7, <1>8, <1>9, <1>10, <1>11, <1>12,
     <1>13, <1>14 DEF Next, Step, appendLocked

\* RecoverableAlways: if no write is short, then whatever else fails and
\* whenever the process dies or the power goes, the next Open shows the last
\* acknowledged state of every transcript or a newer, unacknowledged one.
THEOREM RecoverableAlways ==
  ASSUME NoTorn
  PROVE  Spec => []Recoverable
<1>1. Init => RecoveryInv
  BY RecoveryInit
<1>2. TypeInv /\ RecoveryInv /\ [Next]_vars => RecoveryInv'
  BY RecoveryNext
<1>3. RecoveryInv => Recoverable
  BY DEF RecoveryInv, FileInv
<1> QED
  BY <1>1, <1>2, <1>3, TypeInit, TypeNext, PTL DEF Spec

\* IndexRecoverableAlways: the loaded index never lags behind what was
\* acknowledged, in this process or in an earlier one.
THEOREM IndexRecoverableAlways ==
  ASSUME NoTorn
  PROVE  Spec => []IndexRecoverable
<1>1. Init => RecoveryInv
  BY RecoveryInit
<1>2. TypeInv /\ RecoveryInv /\ [Next]_vars => RecoveryInv'
  BY RecoveryNext
<1>3. RecoveryInv => IndexRecoverable
  BY DEF RecoveryInv, IndexInv
<1> QED
  BY <1>1, <1>2, <1>3, TypeInit, TypeNext, PTL DEF Spec

-------------------------------------------------------------------------------
(* The registry implements DurableMap. *)

\* A step that leaves the loaded index and the allowed values alone is a stutter.
LEMMA MapStutter ==
  ASSUME UNCHANGED <<records, may>>, Loaded' = Loaded
  PROVE  UNCHANGED Map!vars
  BY DEF Map!vars

\* While the index is not loaded, readers see the empty map before and after.
LEMMA MapClosed ==
  ASSUME UNCHANGED may, ~ Loaded, ~ Loaded'
  PROVE  UNCHANGED Map!vars
<1>1. (IF Loaded THEN records ELSE [id \in Ids |-> None]) = [id \in Ids |-> None]
  OBVIOUS
<1>2. (IF Loaded THEN records ELSE [id \in Ids |-> None])' = [id \in Ids |-> None]
  OBVIOUS
<1>3. Loaded' = Loaded
  BY DEF Loaded
<1> QED
  BY <1>1, <1>2, <1>3 DEF Map!vars

LEMMA MapRequest ==
  ASSUME TypeInv, NEW kind, NEW id \in Ids, NEW val \in Values, Begin(kind, id, val),
         UNCHANGED <<records, phase>>, phase = "serving"
  PROVE  Map!Next
<1>1. Map!Request(id, val)
  BY DEF Map!Request, Begin, Loaded
<1> QED
  BY <1>1 DEF Map!Next

LEMMA MapNext ==
  ASSUME NoTorn, TypeInv, TypeInv', RecoveryInv, RecoveryInv', [Next]_vars
  PROVE  [Map!Next]_(Map!vars)
<1>1. CASE \/ Open \/ ReplayLine
  <2>1. ~ Loaded /\ ~ Loaded' /\ may' = may
    BY <1>1 DEF Open, ReplayLine, Loaded
  <2> QED
    BY <2>1, MapClosed
<1>2. CASE OpenDone
  <2>1. ~ Loaded /\ Loaded' /\ may' = may /\ records' = records
    BY <1>2 DEF OpenDone, Loaded, memoryVars
  <2>2. records' \in [Ids -> Values] /\ \A id \in Ids : records'[id] \in may[id]
    BY <2>1 DEF TypeInv, TypeOK, RecoveryInv, IndexInv, IndexRecoverable
  <2>3. Map!Reopen
    BY <2>1, <2>2 DEF Map!Reopen
  <2> QED
    BY <2>3 DEF Map!Next
<1>3. CASE Close
  <2>1. /\ op.id \in Ids /\ op.val \in Values /\ op.val \in may[op.id] /\ Loaded
    BY <1>3 DEF Close, TypeInv, TypeOK, LockOK, Loaded, RecoveryInv, StageInv
  <2>2. /\ Loaded' /\ records' = [records EXCEPT ![op.id] = op.val]
        /\ may' = [may EXCEPT ![op.id] = {op.val}]
    BY <1>3, <2>1 DEF Close, bootVars, Loaded
  <2>3. Map!Acknowledge(op.id, op.val)
    BY <2>1, <2>2 DEF Map!Acknowledge
  <2> QED
    BY <2>1, <2>3 DEF Map!Next
<1>4. CASE SyncDirectory
  <2>1. Loaded /\ Loaded' /\ records' = records /\ may' = [id \in Ids |-> {records[id]}]
    BY <1>4 DEF SyncDirectory, memoryVars, bootVars, TypeInv, LockOK, Loaded
  <2>2. Map!Settle
    BY <2>1 DEF Map!Settle
  <2> QED
    BY <2>2 DEF Map!Next
<1>5. CASE Crash \/ PowerFailure
  <2>1. ~ Loaded' /\ may' = may
    BY <1>5 DEF Crash, PowerFailure, Stop, Loaded
  <2>2. CASE Loaded
    <3>1. Map!Crash
      BY <2>1, <2>2 DEF Map!Crash, Map!Empty
    <3> QED
      BY <3>1 DEF Map!Next
  <2>3. CASE ~ Loaded
    BY <2>1, <2>3, MapClosed
  <2> QED
    BY <2>2, <2>3
<1>6. CASE Add
  <2>1. export.id \in Ids /\ clock + 1 \in 0..MaxWrites /\ phase = "serving"
    BY <1>6, RegistryAssumption DEF Add, Begin, TypeInv, TypeOK, LockOK, NoExport
  <2>2. [created |-> clock + 1, key |-> 0, renewed |-> 0] \in Values
    BY <2>1, RegistryAssumption DEF Record, Values
  <2> QED
    BY <1>6, <2>1, <2>2, MapRequest DEF Add, memoryVars, bootVars
<1>7. CASE \E id \in Ids : Renew(id) \/ \E public \in BOOLEAN : SetVisibility(id, public)
  <2>1. PICK id \in Ids : Renew(id) \/ \E public \in BOOLEAN : SetVisibility(id, public)
    BY <1>7
  <2>2. PICK val : Update(id, val)
    BY <2>1 DEF Renew, SetVisibility
  <2>3. val \in may'[id]
    BY <2>2 DEF Update, Begin, TypeInv, TypeOK
  <2>4. val \in Values
    BY <2>3 DEF TypeInv, TypeOK
  <2> QED
    BY <2>2, <2>4, MapRequest DEF Update, memoryVars, bootVars
<1>8. CASE RemoveBundle
  <2>1. op.id \in Ids /\ Loaded
    BY <1>8 DEF RemoveBundle, TypeInv, TypeOK, LockOK, Loaded
  <2>2. /\ UNCHANGED <<records, phase>>
        /\ may' = [may EXCEPT ![op.id] = @ \cup {None}]
    BY <1>8 DEF RemoveBundle, memoryVars, bootVars
  <2>3. Map!Request(op.id, None)
    BY <2>1, <2>2 DEF Map!Request, Loaded
  <2> QED
    BY <2>1, <2>3, ValuesFacts DEF Map!Next
<1>9. CASE \/ CleanupInterrupted \/ Write \/ WriteFails \/ Sync \/ SyncFails \/ CloseFails
           \/ \E id \in Ids : StartExport(id)
           \/ ExportFails \/ PublishBundle \/ UndoBundle
           \/ \E id \in Ids : Remove(id)
           \/ RemoveBundleFails \/ Compact \/ CompactFails \/ UNCHANGED vars
  <2>1. UNCHANGED <<records, may>> /\ Loaded' = Loaded
    BY <1>9 DEF CleanupInterrupted, Write, WriteFails, Sync, SyncFails, CloseFails,
         ReturnError, StartExport, ExportFails, PublishBundle, UndoBundle, Remove,
         RemoveBundleFails, Compact, CompactFails, vars, memoryVars, bootVars, Loaded
  <2> QED
    BY <2>1, MapStutter
<1>10. CASE Rewrite
  <2>1. UNCHANGED <<records, may>> /\ Loaded' = Loaded
    BY <1>10, RewriteKeepsMay DEF Rewrite, memoryVars, bootVars, Loaded
  <2> QED
    BY <2>1, MapStutter
<1> QED
  BY <1>1, <1>2, <1>3, <1>4, <1>5, <1>6, <1>7, <1>8, <1>9, <1>10 DEF Next, Step, appendLocked

\* ImplementsMap: if no write is short, every behaviour of the log, its
\* failures, crashes, power failures and compactions included, is one that the
\* durable map allows.
THEOREM ImplementsMap ==
  ASSUME NoTorn
  PROVE  Spec => MapSpec
<1>1. Init => RecoveryInv
  BY RecoveryInit
<1>2. TypeInv /\ RecoveryInv /\ [Next]_vars => RecoveryInv'
  BY RecoveryNext
<1>3. Init => Map!Init
  BY DEF Init, Map!Init, Map!Empty, Loaded
<1>4. TypeInv /\ TypeInv' /\ RecoveryInv /\ RecoveryInv' /\ [Next]_vars => [Map!Next]_(Map!vars)
  BY MapNext
<1> QED
  BY <1>1, <1>2, <1>3, <1>4, TypeInit, TypeNext, PTL DEF Spec, MapSpec, Map!Spec

-------------------------------------------------------------------------------
(* Bundles, whatever fails: a transcript that was not drawn, or whose      *)
(* export has not come to its Add, is known to nobody, neither the index   *)
(* nor a call nor a file; nor is one without its bundle, until that is     *)
(* given up.                                                               *)

Mentions(file, id) == \E i \in 1..Len(file) : file[i].id = id

Unfinished(id) ==
    \/ id \notin used
    \/ export.at \in {"temp", "final"} /\ export.id = id

Unwritten(id) ==
    /\ records[id] = None
    /\ \A i \in DOMAIN order : order[i] # id
    /\ op.at \in {"bundle", "write", "sync", "close"} => op.id # id
    /\ \A file \in earlier \cup {log} : ~ Mentions(file, id)

\* Where the directory of the export in progress is.
ExportDir ==
    export # NoExport =>
        /\ export.id \in used
        /\ export.at = "final" => dirs[export.id] = "final"

BundleInv == ExportDir /\ \A id \in Ids : Unfinished(id) => Unwritten(id)

LEMMA UnmentionedReplay ==
  ASSUME NEW file, NEW id, ~ Mentions(file, id)
  PROVE  Replay(file, id) = None
<1>1. Versions(file, id, Len(file)) = {}
  BY DEF Versions, Mentions
<1> QED
  BY <1>1 DEF Replay, ReplayTo

LEMMA AppendMentions ==
  ASSUME NEW file \in Seq(Chunk), NEW c \in Chunk, NEW id, c.id # id, ~ Mentions(file, id)
  PROVE  ~ Mentions(Append(file, c), id)
<1>1. /\ Len(Append(file, c)) = Len(file) + 1 /\ Len(file) \in Nat
      /\ \A i \in 1..Len(file) : Append(file, c)[i] = file[i]
      /\ Append(file, c)[Len(file) + 1] = c
  BY AppendProperties
<1> QED
  BY <1>1 DEF Mentions

\* What a power failure leaves mentions no transcript that no file mentioned.
LEMMA SurvivorsMention ==
  ASSUME TypeOK, NEW id, \A file \in earlier \cup {log} : ~ Mentions(file, id)
  PROVE  \A file \in Survivors : ~ Mentions(file, id)
<1>1. log \in Seq(Chunk) /\ synced \in Nat /\ Len(log) \in Nat
  BY DEF TypeOK
<1>2. \A i \in 1..Len(log) : log[i].id # id
  BY DEF Mentions
<1>3. ASSUME NEW n \in 0..Len(log)
      PROVE  SubSeq(log, 1, n) \in Seq(Chunk) /\ ~ Mentions(SubSeq(log, 1, n), id)
  <2>1. \A i \in 1..n : log[i] \in Chunk
    BY <1>1
  <2>2. /\ SubSeq(log, 1, n) \in Seq(Chunk) /\ Len(SubSeq(log, 1, n)) = n
        /\ \A i \in 1..n : SubSeq(log, 1, n)[i] = log[i]
    BY <1>1, <2>1, SubSeqProperties
  <2> QED
    BY <1>2, <2>2 DEF Mentions
<1>4. ASSUME NEW n \in 0..(Len(log) - 1)
      PROVE  ~ Mentions(Append(SubSeq(log, 1, n), [log[n + 1] EXCEPT !.form = "part"]), id)
  <2>1. log[n + 1] \in Chunk /\ log[n + 1].id # id /\ n \in 0..Len(log)
    BY <1>1, <1>2
  <2>2. [log[n + 1] EXCEPT !.form = "part"] \in Chunk
    BY <2>1 DEF Chunk
  <2>3. [log[n + 1] EXCEPT !.form = "part"].id # id
    BY <2>1 DEF Chunk
  <2> QED
    BY <1>3, <2>1, <2>2, <2>3, AppendMentions
<1>5. \A n \in synced..Len(log) : n \in 0..Len(log)
  BY <1>1
<1>6. \A n \in synced..(Len(log) - 1) : n \in 0..(Len(log) - 1)
  BY <1>1
<1>7. ASSUME NEW file \in Survivors PROVE ~ Mentions(file, id)
  <2>1. CASE file \in earlier
    BY <2>1
  <2>2. CASE file \in {SubSeq(log, 1, n) : n \in synced..Len(log)}
    BY <1>3, <1>5, <2>2
  <2>3. CASE file \in {Append(SubSeq(log, 1, n), [log[n + 1] EXCEPT !.form = "part"]) :
                         n \in synced..(Len(log) - 1)}
    BY <1>4, <1>6, <2>3
  <2> QED
    BY <2>1, <2>2, <2>3 DEF Survivors
<1> QED
  BY <1>7

\* A compacted file mentions the transcripts of the index and no other.
LEMMA RewritesMention ==
  ASSUME TypeOK, NEW file \in Rewrites, NEW id, records[id] = None
  PROVE  ~ Mentions(file, id)
<1> DEFINE entry(i) == [id |-> order[i], val |-> records[order[i]], form |-> "line"]
<1>1. Len(order) \in Nat
  BY DEF TypeOK
<1>2. PICK q \in UNION {[1..n -> Listed] : n \in 0..Len(order)} :
         file = [k \in DOMAIN q |-> entry(q[k])]
  BY DEF Rewrites
<1>3. PICK n \in 0..Len(order) : q \in [1..n -> Listed]
  BY <1>2
<1>4. \A k \in 1..n : records[order[q[k]]] # None
  BY <1>3 DEF Listed
<1>5. Len(file) = n /\ \A k \in 1..n : file[k].id = order[q[k]]
  <2>1. DOMAIN file = 1..n /\ n \in Nat
    BY <1>1, <1>2, <1>3
  <2>2. \A k \in 1..n : file[k] = entry(q[k])
    BY <1>2, <1>3
  <2>3. file = [k \in 1..n |-> file[k]]
    BY <1>2, <1>3
  <2>4. Len(file) = n
    BY <2>1, <2>3
  <2> QED
    BY <2>2, <2>4
<1> QED
  BY <1>4, <1>5 DEF Mentions

\* No step makes a bundle unfinished: an export draws an ID that was never used.
LEMMA UnfinishedShrinks ==
  ASSUME TypeInv, [Next]_vars, NEW id \in Ids, Unfinished(id)'
  PROVE  Unfinished(id)
<1> USE DEF Unfinished, exportVars, TypeInv, TypeOK
<1>1. CASE \/ Open \/ ReplayLine \/ OpenDone \/ appendLocked \/ UNCHANGED vars
           \/ \E x \in Ids, public \in BOOLEAN : SetVisibility(x, public)
           \/ \E x \in Ids : Renew(x) \/ Remove(x)
           \/ Add \/ Compact \/ Rewrite \/ SyncDirectory \/ CompactFails
  <2>1. UNCHANGED <<used, dirs>>
    BY <1>1 DEF Open, ReplayLine, OpenDone, appendLocked, Write, WriteFails, Sync, SyncFails,
         Close, CloseFails, ReturnError, SetVisibility, Renew, Update, Remove, Add, Compact,
         Rewrite, SyncDirectory, CompactFails, vars
  <2>2. export' = export \/ export'.at \notin {"temp", "final"}
    <3>1. [export EXCEPT !.at = "undo"].at = "undo" /\ NoExport.at = "-"
      BY DEF NoExport
    <3>2. CASE ReturnError \/ Close
      BY <3>1, <3>2 DEF ReturnError, Close
    <3>3. CASE Add
      BY <3>3 DEF Add
    <3>4. CASE ~ (ReturnError \/ Close \/ Add)
      BY <1>1, <3>4 DEF Open, ReplayLine, OpenDone, appendLocked, Write, WriteFails, Sync,
         SyncFails, CloseFails, SetVisibility, Renew, Update, Remove, Compact, Rewrite,
         SyncDirectory, CompactFails, vars
    <3> QED
      BY <3>2, <3>3, <3>4
  <2> QED
    BY <2>1, <2>2
<1>2. CASE CleanupInterrupted
  BY <1>2 DEF CleanupInterrupted
<1>3. CASE \E x \in Ids : StartExport(x)
  BY <1>3 DEF StartExport
<1>4. CASE ExportFails
  BY <1>4 DEF ExportFails, NoExport
<1>5. CASE PublishBundle
  BY <1>5 DEF PublishBundle
<1>6. CASE UndoBundle
  BY <1>6 DEF UndoBundle, NoExport
<1>7. CASE RemoveBundle
  BY <1>7 DEF RemoveBundle
<1>8. CASE RemoveBundleFails
  BY <1>8 DEF RemoveBundleFails
<1>9. CASE Crash \/ PowerFailure
  BY <1>9 DEF Crash, PowerFailure, Stop, NoExport
<1> QED
  BY <1>1, <1>2, <1>3, <1>4, <1>5, <1>6, <1>7, <1>8, <1>9 DEF Next, Step

LEMMA ExportDirKept == TypeInv /\ BundleInv /\ [Next]_vars => ExportDir'
<1> SUFFICES ASSUME TypeInv, BundleInv, [Next]_vars PROVE ExportDir'
  OBVIOUS
<1> USE DEF ExportDir, BundleInv, exportVars, NoExport, TypeInv, TypeOK, LockOK
<1>1. CASE \/ Open \/ ReplayLine \/ OpenDone \/ Write \/ Sync \/ UNCHANGED vars
           \/ \E x \in Ids, public \in BOOLEAN : SetVisibility(x, public)
           \/ \E x \in Ids : Renew(x) \/ Remove(x)
           \/ Compact \/ Rewrite \/ SyncDirectory
  <2>1. UNCHANGED <<used, dirs, export>>
    BY <1>1 DEF Open, ReplayLine, OpenDone, Write, Sync, SetVisibility, Renew, Update,
         Remove, Compact, Rewrite, SyncDirectory, vars
  <2> QED
    BY <2>1
<1>2. CASE WriteFails \/ SyncFails \/ CloseFails \/ CompactFails
  <2>1. ReturnError
    BY <1>2 DEF WriteFails, SyncFails, CloseFails, CompactFails
  <2> QED
    BY <2>1 DEF ReturnError
<1>3. CASE Close
  BY <1>3 DEF Close
<1>4. CASE CleanupInterrupted
  BY <1>4 DEF CleanupInterrupted
<1>5. CASE \E x \in Ids : StartExport(x)
  BY <1>5 DEF StartExport
<1>6. CASE ExportFails \/ UndoBundle \/ Crash \/ PowerFailure
  BY <1>6 DEF ExportFails, UndoBundle, Crash, PowerFailure, Stop
<1>7. CASE PublishBundle
  BY <1>7 DEF PublishBundle
<1>8. CASE Add
  BY <1>8 DEF Add, Begin
<1>9. CASE RemoveBundle
  BY <1>9 DEF RemoveBundle, RemoveAll, Unfinished, Unwritten
<1>10. CASE RemoveBundleFails
  BY <1>10 DEF RemoveBundleFails, RemoveAll, Unfinished, Unwritten
<1> QED
  BY <1>1, <1>2, <1>3, <1>4, <1>5, <1>6, <1>7, <1>8, <1>9, <1>10 DEF Next, Step, appendLocked

\* A chunk that the call in progress writes mentions its own transcript.
LEMMA UnwrittenWrite ==
  ASSUME TypeInv, op.at = "write", NEW form \in {"line", "bare", "part"},
         NEW id, op.id # id, ~ Mentions(log, id)
  PROVE  ~ Mentions(Append(log, Line(form)), id)
<1>1. log \in Seq(Chunk) /\ op.id \in Ids /\ op.val \in Values
  BY DEF TypeInv, TypeOK
<1>2. Line(form) \in Chunk /\ Line(form).id # id
  BY <1>1 DEF Line, Chunk
<1> QED
  BY <1>1, <1>2, AppendMentions

LEMMA OrderWithout ==
  ASSUME NEW o \in Seq(Ids), NEW x \in Ids, NEW id, x # id, \A i \in DOMAIN o : o[i] # id
  PROVE  \A i \in DOMAIN Append(o, x) : Append(o, x)[i] # id
<1>1. /\ DOMAIN o = 1..Len(o) /\ Len(o) \in Nat
      /\ DOMAIN Append(o, x) = 1..(Len(o) + 1)
      /\ \A i \in 1..Len(o) : Append(o, x)[i] = o[i]
      /\ Append(o, x)[Len(o) + 1] = x
  BY AppendProperties
<1> QED
  BY <1>1

\* An unknown transcript stays unknown: a record, a call or a chunk comes from a
\* record, a call or a chunk of the same transcript, or from its Add.
LEMMA UnwrittenKept ==
  ASSUME TypeInv, [Next]_vars, NEW id \in Ids, Unwritten(id), Add => export.id # id
  PROVE  Unwritten(id)'
<1>1. /\ records[id] = None
      /\ \A i \in DOMAIN order : order[i] # id
      /\ op.at \in {"bundle", "write", "sync", "close"} => op.id # id
      /\ \A file \in earlier : ~ Mentions(file, id)
      /\ ~ Mentions(log, id)
  BY DEF Unwritten
<1>2. /\ TypeOK /\ log \in Seq(Chunk) /\ records \in [Ids -> Values]
      /\ order \in Seq(Ids)
  BY DEF TypeInv, TypeOK
<1>3. ASSUME UNCHANGED <<records, order, log, earlier>>,
             op'.at \in {"bundle", "write", "sync", "close"} => op'.id # id
      PROVE  Unwritten(id)'
  BY <1>1, <1>3 DEF Unwritten, Mentions
<1>4. CASE \/ Open \/ OpenDone \/ CleanupInterrupted \/ SyncFails \/ CloseFails \/ CompactFails
           \/ (\E x \in Ids : StartExport(x)) \/ ExportFails \/ PublishBundle \/ UndoBundle
           \/ RemoveBundle \/ RemoveBundleFails \/ Compact \/ UNCHANGED vars
  <2>1. UNCHANGED <<records, order, log, earlier>> /\ (op' = op \/ op' = Free
           \/ op' = [Free EXCEPT !.kind = "compact", !.at = "rewrite"] \/ RemoveBundle)
    BY <1>4 DEF Open, OpenDone, CleanupInterrupted, SyncFails, CloseFails, CompactFails,
         ReturnError, StartExport, ExportFails, PublishBundle, UndoBundle, RemoveBundle,
         RemoveBundleFails, Compact, fileVars, memoryVars, exportVars, vars
  <2>2. CASE RemoveBundle
    BY <1>1, <1>3, <2>1, <2>2 DEF RemoveBundle, TypeInv, TypeOK
  <2>3. CASE op' = op
    BY <1>1, <1>3, <2>1, <2>3
  <2>4. CASE op' = Free \/ op' = [Free EXCEPT !.kind = "compact", !.at = "rewrite"]
    <3>1. Free.at = "-" /\ [Free EXCEPT !.kind = "compact", !.at = "rewrite"].at = "rewrite"
      BY DEF Free
    <3>2. op'.at \in {"-", "rewrite"}
      BY <2>4, <3>1
    <3> QED
      BY <1>3, <2>1, <3>2
  <2> QED
    BY <2>1, <2>2, <2>3, <2>4
<1>5. CASE ReplayLine
  <2>1. pos + 1 \in 1..Len(log)
    BY <1>5 DEF ReplayLine, TypeInv, TypeOK
  <2>2. log[pos + 1].id # id
    BY <1>1, <2>1 DEF Mentions
  <2>3. records'[id] = None
    BY <1>1, <1>2, <1>5, <2>2 DEF ReplayLine, memoryVars
  <2>4. order' = order \/ order' = Append(order, log[pos + 1].id)
    BY <1>5 DEF ReplayLine, memoryVars
  <2>5. \A i \in DOMAIN order' : order'[i] # id
    <3>1. log[pos + 1].id \in Ids
      <4>1. log[pos + 1] \in Chunk
        BY <1>2, <2>1
      <4> QED
        BY <4>1 DEF Chunk
    <3> QED
      BY <1>1, <1>2, <2>2, <2>4, <3>1, OrderWithout
  <2> QED
    BY <1>1, <1>5, <2>3, <2>5 DEF ReplayLine, Unwritten, fileVars, Mentions
<1>6. CASE Write
  <2>1. ~ Mentions(Append(log, Line("line")), id)
    BY <1>1, <1>6, UnwrittenWrite DEF Write
  <2>2. op'.id = op.id /\ UNCHANGED <<records, order, earlier>> /\ log' = Append(log, Line("line"))
    BY <1>6 DEF Write, memoryVars, TypeInv, TypeOK
  <2> QED
    BY <1>1, <1>6, <2>1, <2>2 DEF Write, Unwritten, Mentions
<1>7. CASE WriteFails
  <2>1. ~ Mentions(log', id)
    BY <1>1, <1>7, UnwrittenWrite DEF WriteFails, Mentions
  <2> QED
    BY <1>1, <1>7, <2>1 DEF WriteFails, ReturnError, memoryVars, Free, Unwritten, Mentions
<1>8. CASE Sync
  <2>1. op'.id = op.id
    BY <1>8 DEF Sync, TypeInv, TypeOK
  <2> QED
    BY <1>1, <1>8, <2>1 DEF Sync, memoryVars, Unwritten, Mentions
<1>9. CASE Close
  <2>1. records'[id] = None
    BY <1>1, <1>2, <1>9 DEF Close
  <2>2. op.id \in Ids /\ op.id # id /\ (order' = order \/ order' = Append(order, op.id))
    BY <1>1, <1>2, <1>9 DEF Close, TypeOK
  <2>3. \A i \in DOMAIN order' : order'[i] # id
    BY <1>1, <1>2, <2>2, OrderWithout
  <2> QED
    BY <1>1, <1>9, <2>1, <2>3 DEF Close, fileVars, Free, Unwritten, Mentions
<1>10. CASE Add
  BY <1>3, <1>10 DEF Add, Begin, fileVars, memoryVars
<1>11. ASSUME NEW x \in Ids, NEW val, Update(x, val)
       PROVE  Unwritten(id)'
  BY <1>1, <1>3, <1>11 DEF Update, Begin, fileVars, memoryVars
<1>12. CASE \E x \in Ids, public \in BOOLEAN : SetVisibility(x, public)
  BY <1>11, <1>12 DEF SetVisibility
<1>13. CASE \E x \in Ids : Renew(x)
  BY <1>11, <1>13 DEF Renew
<1>14. CASE \E x \in Ids : Remove(x)
  BY <1>1, <1>3, <1>14 DEF Remove, fileVars, memoryVars
<1>15. CASE Rewrite
  <2>1. ~ Mentions(log', id)
    BY <1>1, <1>2, <1>15, RewritesMention DEF Rewrite, Mentions
  <2>2. \A file \in Survivors : ~ Mentions(file, id)
    BY <1>1, <1>2, SurvivorsMention
  <2>3. earlier' = Survivors /\ UNCHANGED <<records, order>> /\ op'.at = "dirsync"
    BY <1>15 DEF Rewrite, memoryVars, TypeInv, TypeOK
  <2> QED
    BY <1>1, <2>1, <2>2, <2>3 DEF Unwritten, Mentions
<1>16. CASE SyncDirectory
  BY <1>1, <1>16 DEF SyncDirectory, memoryVars, Free, Unwritten, Mentions
<1>17. CASE Crash \/ PowerFailure
  <2>1. records'[id] = None /\ order' = <<>> /\ op' = Free
    BY <1>17 DEF Crash, PowerFailure, Stop
  <2>2. ~ Mentions(log', id) /\ \A file \in earlier' : ~ Mentions(file, id)
    <3>1. CASE UNCHANGED fileVars
      BY <1>1, <3>1 DEF fileVars, Mentions
    <3>2. CASE log' \in Survivors /\ earlier' = {}
      BY <1>1, <1>2, <3>2, SurvivorsMention DEF Mentions
    <3>3. CASE /\ op.at = "write"
               /\ \E form \in {"bare", "part"} : log' = Append(log, Line(form))
               /\ UNCHANGED <<synced, earlier>>
      BY <1>1, <3>3, UnwrittenWrite DEF Mentions
    <3> QED
      BY <1>17, <3>1, <3>2, <3>3 DEF Crash, PowerFailure, Stop
  <2> QED
    BY <2>1, <2>2 DEF Unwritten, Mentions, Free
<1> QED
  BY <1>4, <1>5, <1>6, <1>7, <1>8, <1>9, <1>10, <1>12, <1>13, <1>14, <1>15, <1>16, <1>17
     DEF Next, Step, appendLocked

LEMMA BundleInit == Init => BundleInv
BY EmptySeq DEF Init, BundleInv, ExportDir, Unwritten, Mentions, Free

LEMMA BundleNext == TypeInv /\ BundleInv /\ [Next]_vars => BundleInv'
<1> SUFFICES ASSUME TypeInv, BundleInv, [Next]_vars, NEW id \in Ids, Unfinished(id)'
             PROVE  Unwritten(id)'
  BY ExportDirKept DEF BundleInv
<1>1. Unwritten(id)
  BY UnfinishedShrinks DEF BundleInv
<1>2. ASSUME Add PROVE export.id # id
  BY <1>2 DEF Add, exportVars, BundleInv, ExportDir, NoExport, Unfinished, TypeInv, TypeOK
<1> QED
  BY <1>1, <1>2, UnwrittenKept

\* A transcript that was not given up is unknown while its bundle is not whole; what is
\* being given up was noted, and only Remove has a bundle to remove.
Standing ==
    /\ GivenUp \subseteq unsettled
    /\ op.at = "bundle" => op.kind = "remove"
    /\ \A id \in Ids \ unsettled : dirs[id] # "final" => Unwritten(id)

\* What a process does to a whole bundle that is not given up: nothing.
LEMMA BundleStays ==
  ASSUME TypeInv, BundleInv, Standing, Step, NEW id \in Ids, id \notin GivenUp,
         dirs'[id] # "final"
  PROVE  dirs[id] # "final" \/ Unfinished(id)
<1> USE DEF TypeInv, TypeOK
<1>0. /\ op.at = "bundle" => op.id # id
      /\ export.at = "undo" => export.id # id
  BY DEF Standing, GivenUp
<1>1. CASE \/ Open \/ ReplayLine \/ OpenDone \/ appendLocked
           \/ \E x \in Ids, public \in BOOLEAN : SetVisibility(x, public)
           \/ \E x \in Ids : Renew(x) \/ Remove(x)
           \/ Add \/ Compact \/ Rewrite \/ SyncDirectory \/ CompactFails
  BY <1>1 DEF Open, ReplayLine, OpenDone, appendLocked, Write, WriteFails, Sync, SyncFails,
       Close, CloseFails, ReturnError, SetVisibility, Renew, Update, Remove, Add, Compact,
       Rewrite, SyncDirectory, CompactFails
<1>2. CASE CleanupInterrupted
  BY <1>2 DEF CleanupInterrupted
<1>3. CASE \E x \in Ids : StartExport(x)
  BY <1>3 DEF StartExport, Unfinished
<1>4. CASE ExportFails \/ PublishBundle
  BY <1>4 DEF ExportFails, PublishBundle, Unfinished
<1>5. CASE UndoBundle \/ RemoveBundle \/ RemoveBundleFails \/ Crash
  BY <1>0, <1>5 DEF UndoBundle, RemoveBundle, RemoveBundleFails, Crash, RemoveAll
<1> QED
  BY <1>1, <1>2, <1>3, <1>4, <1>5 DEF Step

LEMMA StandingNext ==
  TypeInv /\ BundleInv /\ Standing /\ [HistoryNext]_<<vars, refused, unsettled>> => Standing'
<1> SUFFICES ASSUME TypeInv, BundleInv, Standing, [HistoryNext]_<<vars, refused, unsettled>>
             PROVE  Standing'
  OBVIOUS
<1>1. CASE UNCHANGED <<vars, refused, unsettled>>
  BY <1>1 DEF vars, Standing, GivenUp, Unwritten, Mentions
<1>2. CASE Step /\ unsettled' = unsettled \cup GivenUp'
  <2>1. op'.at = "bundle" => op'.kind = "remove"
    <3> USE DEF Standing, TypeInv, TypeOK
    <3>1. CASE Open \/ ReplayLine \/ OpenDone \/ CleanupInterrupted \/ PublishBundle
               \/ ExportFails \/ UndoBundle \/ \E x \in Ids : StartExport(x)
      BY <3>1 DEF Open, ReplayLine, OpenDone, CleanupInterrupted, PublishBundle, ExportFails,
         UndoBundle, StartExport
    <3>2. CASE WriteFails \/ SyncFails \/ CloseFails \/ CompactFails \/ Close
               \/ RemoveBundleFails \/ SyncDirectory \/ Crash
      BY <3>2 DEF WriteFails, SyncFails, CloseFails, CompactFails, ReturnError, Close,
         RemoveBundleFails, SyncDirectory, Crash, Stop, Free
    <3>3. CASE Write \/ Sync \/ RemoveBundle \/ Rewrite
      BY <3>3 DEF Write, Sync, RemoveBundle, Rewrite
    <3>4. CASE Compact
      BY <3>4 DEF Compact, Free
    <3>5. CASE \/ Add
               \/ \E x \in Ids, public \in BOOLEAN : SetVisibility(x, public)
               \/ \E x \in Ids : Renew(x)
      BY <3>5 DEF Add, SetVisibility, Renew, Update, Begin
    <3>6. CASE \E x \in Ids : Remove(x)
      BY <3>6 DEF Remove
    <3> QED
      BY <1>2, <3>1, <3>2, <3>3, <3>4, <3>5, <3>6 DEF Step, appendLocked
  <2>2. ASSUME NEW id \in Ids, id \notin unsettled', dirs'[id] # "final"
        PROVE  Unwritten(id)'
    <3>1. id \notin unsettled /\ id \notin GivenUp
      BY <1>2, <2>2 DEF Standing
    <3>2. Unwritten(id)
      BY <1>2, <2>2, <3>1, BundleStays DEF Standing, BundleInv
    <3>3. ASSUME Add PROVE export.id # id
      BY <2>2, <3>3 DEF Add, BundleInv, ExportDir, NoExport, TypeInv, TypeOK
    <3> QED
      BY <1>2, <3>2, <3>3, UnwrittenKept DEF Next
  <2> QED
    BY <1>2, <2>1, <2>2 DEF Standing
<1>3. CASE PowerFailure /\ unsettled' = unsettled \cup used
  <2>1. op' = Free /\ export' = NoExport /\ used' = used
    BY <1>3 DEF PowerFailure, Stop
  <2>2. op'.at # "bundle" /\ GivenUp' = {}
    BY <2>1 DEF Free, NoExport, GivenUp
  <2>3. ASSUME NEW id \in Ids, id \notin unsettled' PROVE Unwritten(id)'
    <3>1. id \notin used
      BY <1>3, <2>3
    <3>2. Unwritten(id)
      BY <3>1 DEF BundleInv, Unfinished
    <3>3. ASSUME Add PROVE export.id # id
      BY <3>1, <3>3 DEF Add, BundleInv, ExportDir, NoExport
    <3> QED
      BY <1>3, <3>2, <3>3, UnwrittenKept DEF Next
  <2> QED
    BY <2>2, <2>3 DEF Standing
<1> QED
  BY <1>1, <1>2, <1>3 DEF HistoryNext

\* RecordsAlwaysHaveBundles: whatever fails, and wherever the process dies, a record that the
\* index or any file a restart may read shows has its whole bundle under its final name,
\* unless its deletion has begun, its addition was refused or the power failed since it was
\* drawn.
THEOREM RecordsAlwaysHaveBundles == HistorySpec => []RecordsHaveBundles
<1> DEFINE Inv == TypeInv /\ BundleInv /\ Standing
<1>1. HistoryInit => Inv
  <2>1. HistoryInit => TypeInv /\ BundleInv
    BY TypeInit, BundleInit DEF HistoryInit
  <2>2. HistoryInit => Standing
    BY EmptySeq DEF HistoryInit, Init, Standing, GivenUp, Unwritten, Mentions, Free, NoExport
  <2> QED
    BY <2>1, <2>2
<1>2. Inv /\ [HistoryNext]_<<vars, refused, unsettled>> => Inv'
  <2>1. [HistoryNext]_<<vars, refused, unsettled>> => [Next]_vars
    BY DEF HistoryNext, Next
  <2> QED
    BY <2>1, TypeNext, BundleNext, StandingNext
<1>3. Inv => RecordsHaveBundles
  <2> SUFFICES ASSUME Inv, NEW id \in Ids \ unsettled, dirs[id] # "final"
               PROVE  /\ records[id] = None
                      /\ \A file \in Survivors : Replay(file, id) = None
    BY DEF RecordsHaveBundles
  <2>1. Unwritten(id)
    BY DEF Standing
  <2>2. \A file \in Survivors : ~ Mentions(file, id)
    BY <2>1, SurvivorsMention DEF TypeInv, Unwritten
  <2> QED
    BY <2>1, <2>2, UnmentionedReplay DEF Unwritten
<1> QED
  BY <1>1, <1>2, <1>3, PTL DEF HistorySpec

-------------------------------------------------------------------------------
(* Torn writes, whatever else fails: how much one of them can hide. The    *)
(* invariant is about what a file holds, not about what Open makes of it,  *)
(* since a later torn write can change the latter and never the former.    *)

\* From some whole line on, or from the start, the file holds nothing of id that is not
\* allowed.
Remembers(file, id, allowed) ==
    \E a \in 0..Len(file) :
        /\ IF a = 0 THEN None \in allowed
           ELSE file[a].id = id /\ file[a].form = "line" /\ file[a].val \in allowed
        /\ \A i \in (a + 1)..Len(file) : file[i].id = id => file[i].val \in allowed

\* The call that holds the lock, in terms of what the file holds.
StageKept ==
    /\ op.at \in {"write", "sync", "close"} => op.val \in may[op.id]
    /\ op.at \in {"sync", "close"} => log # <<>> /\ log[Len(log)] = Line("line")
    /\ op.at = "close" => synced = Len(log) /\ earlier = {}
    /\ op.at = "dirsync" =>
          /\ synced = Len(log)
          /\ \A id \in Ids : Remembers(log, id, {records[id]})

FilesKept == \A file \in Survivors, id \in Ids : Remembers(file, id, may[id])

KeptInv == FilesKept /\ StageKept

\* A file that remembers shows an allowed value, or its line of one is glued.
LEMMA RemembersShows ==
  ASSUME NEW file \in Seq(Chunk), NEW id \in Ids, NEW allowed, Remembers(file, id, allowed),
         Replay(file, id) \notin allowed
  PROVE  \E i \in 2..Len(file) :
            /\ file[i].id = id /\ file[i].form = "line" /\ file[i].val \in allowed
            /\ file[i - 1].form # "line"
<1> DEFINE V == Versions(file, id, Len(file))
<1>1. PICK a \in 0..Len(file) :
         /\ IF a = 0 THEN None \in allowed
            ELSE file[a].id = id /\ file[a].form = "line" /\ file[a].val \in allowed
         /\ \A i \in (a + 1)..Len(file) : file[i].id = id => file[i].val \in allowed
  BY DEF Remembers
<1>2. V \in SUBSET (1..Len(file)) /\ Len(file) \in Nat
  BY DEF Versions
<1>3. \A i \in V : file[i].id = id /\ i \in 1..Len(file)
  BY DEF Versions
<1>4. Replay(file, id) = IF V = {} THEN None ELSE file[LastOf(V)].val
  BY DEF Replay, ReplayTo
<1>5. ASSUME V # {}
      PROVE  \E last \in 1..Len(file) :
                /\ last \in V /\ last <= a /\ \A j \in V : j <= last
                /\ file[last].val \notin allowed
  <2>1. LastOf(V) \in V /\ \A j \in V : j <= LastOf(V)
    <3> HIDE DEF V
    <3> QED
      BY <1>2, <1>5, LastOfExists
  <2>2. PICK last \in 1..Len(file) : last = LastOf(V)
    BY <1>3, <2>1
  <2>3. file[last].id = id /\ file[last].val \notin allowed
    BY <1>3, <1>4, <1>5, <2>1, <2>2
  <2>4. last \notin (a + 1)..Len(file)
    BY <1>1, <2>3
  <2>5. last <= a
    <3> HIDE DEF V
    <3> QED
      BY <1>2, <2>4
  <2> QED
    BY <2>1, <2>2, <2>3, <2>5
<1>6. CASE V = {}
  <2>1. a # 0
    BY <1>1, <1>4, <1>6
  <2>2. a \in 1..Len(file) /\ ~ Intact(file, a)
    BY <1>1, <1>2, <1>6, <2>1 DEF Versions
  <2>3. file[a].id = id /\ file[a].form = "line" /\ file[a].val \in allowed
    BY <1>1, <2>1
  <2>4. a # 1 /\ file[a - 1].form # "line"
    BY <2>2, <2>3 DEF Intact
  <2> QED
    BY <2>2, <2>3, <2>4
<1>7. CASE V # {}
  <2>1. PICK last \in 1..Len(file) :
           /\ last \in V /\ last <= a /\ \A j \in V : j <= last
           /\ file[last].val \notin allowed
    BY <1>5, <1>7
  <2>2. a # 0 /\ a \in 1..Len(file)
    BY <2>1
  <2>3. file[a].id = id /\ file[a].form = "line" /\ file[a].val \in allowed
    BY <1>1, <2>2
  <2>4. a \notin V
    <3> HIDE DEF V
    <3>1. a \in V => a <= last
      BY <2>1
    <3>2. a # last
      BY <2>1, <2>3
    <3> QED
      BY <2>1, <3>1, <3>2
  <2>5. ~ Intact(file, a)
    BY <2>2, <2>3, <2>4 DEF Versions
  <2>6. a # 1 /\ file[a - 1].form # "line"
    BY <2>3, <2>5 DEF Intact
  <2> QED
    BY <2>2, <2>3, <2>6
<1> QED
  BY <1>6, <1>7

LEMMA RemembersMore ==
  ASSUME NEW file, NEW id, NEW allowed, NEW more, allowed \subseteq more,
         Remembers(file, id, allowed)
  PROVE  Remembers(file, id, more)
  BY DEF Remembers

\* What is written after it, of other transcripts or allowed, takes nothing away.
LEMMA RemembersAppend ==
  ASSUME NEW file \in Seq(Chunk), NEW c \in Chunk, NEW id, NEW allowed,
         Remembers(file, id, allowed), c.id = id => c.val \in allowed
  PROVE  Remembers(Append(file, c), id, allowed)
<1> DEFINE more == Append(file, c)
<1>1. /\ Len(more) = Len(file) + 1 /\ Len(file) \in Nat
      /\ \A i \in 1..Len(file) : more[i] = file[i]
      /\ more[Len(file) + 1] = c
  BY AppendProperties
<1>2. PICK a \in 0..Len(file) :
         /\ IF a = 0 THEN None \in allowed
            ELSE file[a].id = id /\ file[a].form = "line" /\ file[a].val \in allowed
         /\ \A i \in (a + 1)..Len(file) : file[i].id = id => file[i].val \in allowed
  BY DEF Remembers
<1> HIDE DEF more
<1>3. a \in 0..Len(more) /\ (a # 0 => more[a] = file[a])
  BY <1>1
<1>4. ASSUME NEW i \in (a + 1)..Len(more), more[i].id = id
      PROVE  more[i].val \in allowed
  <2>1. CASE i = Len(file) + 1
    BY <1>1, <1>4, <2>1
  <2>2. CASE i # Len(file) + 1
    <3>1. i \in (a + 1)..Len(file) /\ i \in 1..Len(file)
      BY <1>1, <2>2
    <3> QED
      BY <1>1, <1>2, <1>4, <3>1
  <2> QED
    BY <2>1, <2>2
<1>5. Remembers(more, id, allowed)
  BY <1>2, <1>3, <1>4 DEF Remembers
<1> QED
  BY <1>5 DEF more

\* A file that ends in a whole line remembers that line.
LEMMA RemembersLast ==
  ASSUME NEW file \in Seq(Chunk), file # <<>>, file[Len(file)].form = "line"
  PROVE  Remembers(file, file[Len(file)].id, {file[Len(file)].val})
<1>1. Len(file) \in 0..Len(file) /\ Len(file) # 0
  BY EmptySeq
<1>2. \A i \in (Len(file) + 1)..Len(file) : FALSE
  BY <1>1
<1> QED
  BY <1>1, <1>2 DEF Remembers

\* A compacted file remembers the index.
LEMMA RewritesRemember ==
  ASSUME TypeOK, ListsEveryRecord, NEW file \in Rewrites, NEW id \in Ids
  PROVE  Remembers(file, id, {records[id]})
<1> DEFINE entry(i) == [id |-> order[i], val |-> records[order[i]], form |-> "line"]
<1>1. PICK q \in UNION {[1..n -> Listed] : n \in 0..Len(order)} :
         /\ Listed \subseteq {q[k] : k \in DOMAIN q}
         /\ file = [k \in DOMAIN q |-> entry(q[k])]
  BY DEF Rewrites
<1>2. PICK n \in 0..Len(order) : q \in [1..n -> Listed]
  BY <1>1
<1>3. file \in Seq(Chunk)
  BY RewritesFacts
<1>4. /\ Len(file) = n /\ n \in Nat
      /\ \A k \in 1..n : file[k] = entry(q[k])
  <2>1. DOMAIN file = 1..n /\ n \in Nat /\ \A k \in 1..n : file[k] = entry(q[k])
    BY <1>1, <1>2 DEF TypeOK
  <2>2. Len(file) \in Nat /\ DOMAIN file = 1..Len(file)
    BY <1>3
  <2> QED
    BY <2>1, <2>2
<1>5. \A k \in 1..n : /\ file[k].form = "line" /\ file[k].id = order[q[k]]
                      /\ file[k].val = records[file[k].id]
  BY <1>4
<1>6. CASE records[id] = None
  <2>1. \A k \in 1..n : records[order[q[k]]] # None
    BY <1>2 DEF Listed
  <2>2. \A k \in (0 + 1)..Len(file) : file[k].id # id
    BY <1>4, <1>5, <1>6, <2>1
  <2>3. 0 \in 0..Len(file)
    BY <1>4
  <2> QED
    BY <1>6, <2>2, <2>3 DEF Remembers
<1>7. CASE records[id] # None
  <2>1. PICK i \in DOMAIN order : order[i] = id
    BY <1>7 DEF ListsEveryRecord
  <2>2. PICK k \in 1..n : q[k] = i
    BY <1>1, <1>2, <1>7, <2>1 DEF Listed
  <2>3. k \in 0..Len(file) /\ k # 0
    BY <1>4
  <2>4. file[k].id = id /\ file[k].form = "line" /\ file[k].val = records[id]
    BY <1>5, <2>1, <2>2
  <2>5. \A j \in (k + 1)..Len(file) : file[j].id = id => file[j].val = records[id]
    BY <1>4, <1>5
  <2> QED
    BY <2>3, <2>4, <2>5 DEF Remembers
<1> QED
  BY <1>6, <1>7

\* A chunk more in the file: a power failure leaves what it could leave before, or all
\* of the new file, or all but the end of its last chunk.
LEMMA SurvivorsAppend ==
  ASSUME TypeOK, NEW c \in Chunk, log' = Append(log, c), UNCHANGED <<synced, earlier>>,
         NEW file \in Survivors'
  PROVE  \/ file \in Survivors
         \/ file = Append(log, c)
         \/ file = Append(log, [c EXCEPT !.form = "part"])
<1> DEFINE torn(f, n) == Append(SubSeq(f, 1, n), [f[n + 1] EXCEPT !.form = "part"])
<1>1. log \in Seq(Chunk) /\ Len(log) \in Nat /\ synced \in 0..Len(log)
  BY DEF TypeOK
<1>2. /\ log' \in Seq(Chunk) /\ Len(log') = Len(log) + 1
      /\ \A i \in 1..Len(log) : log'[i] = log[i]
      /\ log'[Len(log) + 1] = c
  BY <1>1, AppendProperties
<1>3. CASE file \in earlier'
  BY <1>3 DEF Survivors
<1>4. CASE file \in {SubSeq(log', 1, n) : n \in synced'..Len(log')}
  <2>1. {SubSeq(Append(log, c), 1, n) : n \in synced..Len(Append(log, c))} =
           {SubSeq(log, 1, n) : n \in synced..Len(log)} \cup {Append(log, c)}
    BY <1>1, PrefixesOfAppend
  <2>2. file \in {SubSeq(log, 1, n) : n \in synced..Len(log)} \cup {Append(log, c)}
    BY <1>4, <2>1
  <2> QED
    BY <2>2 DEF Survivors
<1>5. CASE "short" \in Faults /\ \E n \in synced'..(Len(log') - 1) : file = torn(log', n)
  <2>0. PICK n \in synced'..(Len(log') - 1) : file = torn(log', n)
    BY <1>5
  <2>1. n \in synced..Len(log) /\ file = torn(log', n)
    <3>1. n \in synced..Len(log)
      <4> HIDE DEF torn
      <4> QED
        BY <1>1, <1>2
    <3> QED
      BY <2>0, <3>1
  <2>2. SubSeq(log', 1, n) = SubSeq(log, 1, n)
    BY <1>1, <1>2
  <2>3. CASE n = Len(log)
    <3>1. SubSeq(log, 1, n) = log
      BY <1>1, <2>3, SubSeqFull
    <3> QED
      BY <1>2, <2>1, <2>2, <2>3, <3>1
  <2>4. CASE n # Len(log)
    <3>1. n \in synced..(Len(log) - 1) /\ n + 1 \in 1..Len(log)
      BY <1>1, <2>4
    <3>2. file = torn(log, n)
      BY <1>2, <2>1, <2>2, <3>1
    <3> QED
      BY <1>5, <3>1, <3>2 DEF Survivors
  <2> QED
    BY <2>3, <2>4
<1> QED
  BY <1>3, <1>4, <1>5 DEF Survivors

\* All of the file synced: a power failure leaves that file, or an earlier one.
LEMMA SurvivorsSynced ==
  ASSUME log \in Seq(Chunk), synced = Len(log)
  PROVE  Survivors = earlier \cup {log}
<1>1. {SubSeq(log, 1, n) : n \in synced..Len(log)} = {log}
  BY AllSynced
<1>2. \A n \in synced..(Len(log) - 1) : FALSE
  OBVIOUS
<1> QED
  BY <1>1, <1>2 DEF Survivors

LEMMA SurvivorsSyncedNext ==
  ASSUME log' \in Seq(Chunk), synced' = Len(log')
  PROVE  Survivors' = earlier' \cup {log'}
<1>1. {SubSeq(log', 1, n) : n \in synced'..Len(log')} = {log'}
  BY AllSynced
<1>2. \A n \in synced'..(Len(log') - 1) : FALSE
  OBVIOUS
<1> QED
  BY <1>1, <1>2 DEF Survivors

LEMMA KeptInit == Init => KeptInv
<1> SUFFICES ASSUME Init PROVE KeptInv
  OBVIOUS
<1>1. log = <<>> /\ log \in Seq(Chunk) /\ Len(log) = 0 /\ synced = 0 /\ earlier = {}
  BY EmptySeq DEF Init
<1>2. Survivors = {<<>>}
  BY <1>1, SurvivorsSynced
<1>3. \A id \in Ids : Remembers(<<>>, id, may[id])
  BY <1>1 DEF Init, Remembers
<1> QED
  BY <1>2, <1>3 DEF Init, KeptInv, FilesKept, StageKept, Free

\* A step that leaves the files alone and withdraws no allowed value.
LEMMA FilesStay ==
  ASSUME KeptInv, UNCHANGED <<log, synced, earlier>>, \A id \in Ids : may[id] \subseteq may'[id]
  PROVE  FilesKept'
<1>1. Survivors' = Survivors
  BY DEF Survivors
<1>2. ASSUME NEW file \in Survivors', NEW id \in Ids
      PROVE  Remembers(file, id, may'[id])
  BY <1>1, RemembersMore DEF KeptInv, FilesKept
<1> QED
  BY <1>2 DEF FilesKept, Remembers

LEMMA KeptStay ==
  ASSUME KeptInv, UNCHANGED <<log, synced, earlier>>, \A id \in Ids : may[id] \subseteq may'[id],
         op'.at \notin {"sync", "close", "dirsync"},
         op'.at = "write" => op'.val \in may'[op'.id]
  PROVE  KeptInv'
  BY FilesStay DEF KeptInv, StageKept

\* A chunk that the call in progress writes, whole or torn.
LEMMA FilesGrow ==
  ASSUME TypeInv, KeptInv, op.at = "write", NEW form \in {"line", "bare", "part"},
         log' = Append(log, Line(form)), UNCHANGED <<synced, earlier, may>>
  PROVE  FilesKept'
<1> DEFINE c == Line(form)
           part == [c EXCEPT !.form = "part"]
<1>1. log \in Seq(Chunk) /\ TypeOK /\ log \in Survivors
  BY SurvivorsType DEF TypeInv, TypeOK
<1>2. c \in Chunk /\ c.id = op.id /\ c.val = op.val
  <2>1. c \in Chunk
    BY LogGrows
  <2> QED
    BY <2>1 DEF Line
<1>3. part \in Chunk /\ part.id = op.id /\ part.val = op.val
  BY <1>2 DEF Chunk
<1>4. op.val \in may[op.id]
  BY DEF KeptInv, StageKept
<1> HIDE DEF part
<1>5. ASSUME NEW id \in Ids
      PROVE  Remembers(Append(log, c), id, may[id]) /\ Remembers(Append(log, part), id, may[id])
  <2> HIDE DEF c
  <2>1. Remembers(log, id, may[id])
    BY <1>1 DEF KeptInv, FilesKept
  <2> QED
    BY <1>1, <1>2, <1>3, <1>4, <2>1, RemembersAppend
<1>6. ASSUME NEW file \in Survivors', NEW id \in Ids
      PROVE  Remembers(file, id, may'[id])
  <2>1. file \in Survivors \/ file = Append(log, c) \/ file = Append(log, part)
    BY <1>1, <1>2, SurvivorsAppend DEF part
  <2>2. file \in Survivors => Remembers(file, id, may[id])
    BY DEF KeptInv, FilesKept
  <2> QED
    BY <1>5, <2>1, <2>2
<1> QED
  BY <1>6 DEF FilesKept, Remembers

\* Every step keeps what the files remember, one step of the proof per action.
LEMMA KeptNext == TypeInv /\ KeptInv /\ [Next]_vars => KeptInv'
<1> SUFFICES ASSUME TypeInv, KeptInv, [Next]_vars PROVE KeptInv'
  OBVIOUS
<1>0. /\ TypeInv' /\ TypeOK /\ log \in Seq(Chunk) /\ log \in Survivors
      /\ may \in [Ids -> SUBSET Values] /\ records \in [Ids -> Values]
  BY TypeNext, SurvivorsType DEF TypeInv, TypeOK
<1>1. CASE Open \/ ReplayLine \/ OpenDone \/ CleanupInterrupted
  <2>1. UNCHANGED <<log, synced, earlier, op, may>> /\ op.at = "-"
    BY <1>1 DEF Open, ReplayLine, OpenDone, CleanupInterrupted, fileVars, Free, TypeInv, LockOK
  <2> QED
    BY <2>1, KeptStay
<1>2. CASE Write
  <2>1. /\ op'.at = "sync" /\ op'.id = op.id /\ op'.val = op.val /\ op.at = "write"
        /\ log' = Append(log, Line("line")) /\ UNCHANGED <<synced, earlier, may>>
    BY <1>2 DEF Write, TypeInv, TypeOK
  <2>2. log' # <<>> /\ log'[Len(log')] = Line("line") /\ Line("line")' = Line("line")
    <3>1. Line("line") \in Chunk
      BY <2>1, LogGrows
    <3>2. log' # <<>> /\ log'[Len(log')] = Line("line")
      BY <1>0, <2>1, <3>1, AppendProperties
    <3>3. Line("line")' = Line("line")
      BY <2>1 DEF Line
    <3> QED
      BY <3>2, <3>3
  <2>3. StageKept'
    BY <2>1, <2>2 DEF KeptInv, StageKept
  <2> QED
    BY <2>1, <2>3, FilesGrow DEF KeptInv
<1>3. CASE WriteFails
  <2>1. op' = Free /\ may' = may /\ UNCHANGED <<synced, earlier>> /\ op.at = "write"
    BY <1>3 DEF WriteFails, ReturnError
  <2>2. CASE log' = log
    BY <2>1, <2>2, KeptStay DEF Free
  <2>3. CASE \E form \in {"bare", "part"} : log' = Append(log, Line(form))
    <3>1. FilesKept'
      BY <2>1, <2>3, FilesGrow
    <3> QED
      BY <2>1, <3>1 DEF KeptInv, StageKept, Free
  <2> QED
    BY <1>3, <2>2, <2>3 DEF WriteFails
<1>4. CASE Sync
  <2>1. /\ op'.at = "close" /\ op'.id = op.id /\ op'.val = op.val /\ op.at = "sync"
        /\ UNCHANGED <<log, may>> /\ synced' = Len(log) /\ earlier' = {}
    BY <1>4 DEF Sync, TypeInv, TypeOK
  <2>2. Survivors' = {log}
    BY <1>0, <2>1, SurvivorsSyncedNext
  <2>3. FilesKept'
    BY <1>0, <2>1, <2>2 DEF KeptInv, FilesKept, Remembers
  <2>4. Line("line")' = Line("line")
    BY <2>1 DEF Line
  <2>5. StageKept'
    BY <2>1, <2>4 DEF KeptInv, StageKept
  <2> QED
    BY <2>3, <2>5 DEF KeptInv
<1>5. CASE SyncFails \/ CloseFails \/ CompactFails \/ RemoveBundleFails
  <2>1. UNCHANGED <<log, synced, earlier, may>> /\ op' = Free
    BY <1>5 DEF SyncFails, CloseFails, CompactFails, RemoveBundleFails, ReturnError, fileVars
  <2> QED
    BY <2>1, KeptStay DEF Free
<1>6. CASE Close
  <2>1. /\ UNCHANGED <<log, synced, earlier>> /\ op' = Free /\ op.at = "close" /\ op.id \in Ids
        /\ may' = [may EXCEPT ![op.id] = {op.val}]
    BY <1>6 DEF Close, fileVars, TypeInv, TypeOK
  <2>2. /\ log # <<>> /\ log[Len(log)] = Line("line") /\ synced = Len(log) /\ earlier = {}
    BY <2>1 DEF KeptInv, StageKept
  <2>3. Survivors' = {log}
    <3>1. Survivors = {log}
      BY <1>0, <2>2, SurvivorsSynced
    <3> QED
      BY <2>1, <3>1 DEF Survivors
  <2>4. Remembers(log, op.id, {op.val})
    <3>1. /\ log[Len(log)].id = op.id /\ log[Len(log)].val = op.val
          /\ log[Len(log)].form = "line"
      BY <2>2 DEF Line
    <3>2. Remembers(log, log[Len(log)].id, {log[Len(log)].val})
      BY <1>0, <2>2, <3>1, RemembersLast
    <3> QED
      BY <3>1, <3>2
  <2>5. \A id \in Ids : Remembers(log, id, may[id])
    BY <1>0 DEF KeptInv, FilesKept
  <2>6. \A id \in Ids : Remembers(log, id, may'[id])
    BY <1>0, <2>1, <2>4, <2>5
  <2>7. FilesKept'
    BY <2>3, <2>6 DEF FilesKept, Remembers
  <2> QED
    BY <2>1, <2>7 DEF KeptInv, StageKept, Free
<1>7. CASE Rewrite
  <2>1. /\ log' \in Rewrites /\ synced' = Len(log') /\ earlier' = Survivors
        /\ op'.at = "dirsync" /\ records' = records
        /\ may' = [id \in Ids |-> may[id] \cup {records[id]}]
    BY <1>7 DEF Rewrite, memoryVars, TypeInv, TypeOK
  <2>2. \A id \in Ids : Remembers(log', id, {records[id]})
    BY <2>1, RewritesRemember DEF TypeInv
  <2>3. Survivors' = Survivors \cup {log'}
    <3>1. log' \in Seq(Chunk)
      BY <1>0 DEF TypeInv, TypeOK
    <3> QED
      BY <2>1, <3>1, SurvivorsSyncedNext
  <2>4. ASSUME NEW file \in Survivors', NEW id \in Ids
        PROVE  Remembers(file, id, may'[id])
    <3>1. may[id] \subseteq may'[id] /\ {records[id]} \subseteq may'[id]
      BY <2>1
    <3>2. CASE file \in Survivors
      <4>1. Remembers(file, id, may[id])
        BY <3>2 DEF KeptInv, FilesKept
      <4> QED
        BY <3>1, <4>1, RemembersMore
    <3>3. CASE file = log'
      <4>1. Remembers(file, id, {records[id]})
        BY <2>2, <3>3
      <4> QED
        BY <3>1, <4>1, RemembersMore
    <3> QED
      BY <2>3, <3>2, <3>3
  <2>5. FilesKept'
    BY <2>4 DEF FilesKept, Remembers
  <2>6. StageKept'
    BY <2>1, <2>2 DEF StageKept, Remembers
  <2> QED
    BY <2>5, <2>6 DEF KeptInv
<1>8. CASE SyncDirectory
  <2>1. /\ UNCHANGED <<log, synced, records>> /\ earlier' = {} /\ op' = Free
        /\ op.at = "dirsync" /\ may' = [id \in Ids |-> {records[id]}]
    BY <1>8 DEF SyncDirectory, memoryVars
  <2>2. synced = Len(log) /\ \A id \in Ids : Remembers(log, id, {records[id]})
    BY <2>1 DEF KeptInv, StageKept
  <2>3. Survivors' = {log}
    BY <1>0, <2>1, <2>2, SurvivorsSyncedNext
  <2>4. FilesKept'
    BY <2>1, <2>2, <2>3 DEF FilesKept, Remembers
  <2> QED
    BY <2>1, <2>4 DEF KeptInv, StageKept, Free
<1>9. CASE Crash \/ PowerFailure
  <2>1. op' = Free /\ may' = may
    BY <1>9 DEF Crash, PowerFailure, Stop
  <2>2. FilesKept'
    <3>1. CASE UNCHANGED fileVars
      BY <2>1, <3>1, FilesStay DEF fileVars
    <3>2. CASE log' \in Survivors /\ synced' = Len(log') /\ earlier' = {}
      <4>1. Survivors' = {log'}
        <5>1. log' \in Seq(Chunk)
          BY <1>0 DEF TypeInv, TypeOK
        <5> QED
          BY <3>2, <5>1, SurvivorsSyncedNext
      <4>2. \A id \in Ids : Remembers(log', id, may[id])
        BY <3>2 DEF KeptInv, FilesKept
      <4> QED
        BY <2>1, <4>1, <4>2 DEF FilesKept, Remembers
    <3>3. CASE /\ op.at = "write"
               /\ \E form \in {"bare", "part"} : log' = Append(log, Line(form))
               /\ UNCHANGED <<synced, earlier>>
      BY <2>1, <3>3, FilesGrow
    <3> QED
      BY <1>9, <3>1, <3>2, <3>3 DEF Crash, PowerFailure, Stop
  <2> QED
    BY <2>1, <2>2 DEF KeptInv, StageKept, Free
<1>10. ASSUME \/ \E id \in Ids : StartExport(id)
              \/ ExportFails \/ PublishBundle \/ UndoBundle \/ UNCHANGED vars
       PROVE  KeptInv'
  <2>1. UNCHANGED <<log, synced, earlier, records, op, may>>
    BY <1>10 DEF StartExport, ExportFails, PublishBundle, UndoBundle, vars, fileVars, memoryVars
  <2>2. FilesKept'
    BY <2>1, FilesStay
  <2>3. StageKept'
    <3>1. Line("line")' = Line("line")
      BY <2>1 DEF Line
    <3> QED
      BY <2>1, <3>1 DEF KeptInv, StageKept, Remembers
  <2> QED
    BY <2>2, <2>3 DEF KeptInv
<1>11. ASSUME Compact \/ \E id \in Ids : Remove(id) PROVE KeptInv'
  <2>1. UNCHANGED <<log, synced, earlier, may>> /\ op'.at \in {"rewrite", "bundle"}
    <3>1. CASE Compact
      BY <3>1 DEF Compact, Free, fileVars
    <3>2. CASE \E id \in Ids : Remove(id)
      BY <3>2 DEF Remove, fileVars
    <3> QED
      BY <1>11, <3>1, <3>2
  <2> QED
    BY <2>1, KeptStay
<1>12. ASSUME NEW kind, NEW id \in Ids, NEW val, Begin(kind, id, val),
              UNCHANGED <<log, synced, earlier>>
       PROVE  KeptInv'
  <2>1. /\ op'.at = "write" /\ op'.id = id /\ op'.val = val
        /\ may' = [may EXCEPT ![id] = @ \cup {val}]
    BY <1>12 DEF Begin
  <2>2. \A x \in Ids : may[x] \subseteq may'[x]
    BY <1>0, <2>1
  <2>3. op'.val \in may'[op'.id]
    BY <1>0, <2>1
  <2> QED
    BY <1>12, <2>1, <2>2, <2>3, KeptStay
<1>13. CASE Add
  <2>1. export.id \in Ids
    BY <1>13 DEF Add, TypeInv, TypeOK, NoExport
  <2> QED
    BY <1>12, <1>13, <2>1 DEF Add, fileVars
<1>14. ASSUME NEW id \in Ids, NEW val, Update(id, val) PROVE KeptInv'
  BY <1>12, <1>14 DEF Update, fileVars
<1>15. CASE \E id \in Ids : Renew(id)
  BY <1>14, <1>15 DEF Renew
<1>16. CASE \E id \in Ids, public \in BOOLEAN : SetVisibility(id, public)
  BY <1>14, <1>16 DEF SetVisibility
<1>17. CASE RemoveBundle
  <2>1. /\ UNCHANGED <<log, synced, earlier>> /\ op.id \in Ids
        /\ may' = [may EXCEPT ![op.id] = @ \cup {None}]
        /\ op'.at = "write" /\ op'.id = op.id /\ op'.val = op.val
    BY <1>17 DEF RemoveBundle, fileVars, TypeInv, TypeOK
  <2>2. op.val = None
    BY <1>17 DEF RemoveBundle, TypeInv, LockOK
  <2>3. /\ \A x \in Ids : may[x] \subseteq may'[x]
        /\ op'.val \in may'[op'.id]
    BY <1>0, <2>1, <2>2
  <2> QED
    BY <2>1, <2>3, KeptStay
<1> QED
  BY <1>1, <1>2, <1>3, <1>4, <1>5, <1>6, <1>7, <1>8, <1>9, <1>10, <1>11, <1>13, <1>15,
     <1>16, <1>17 DEF Next, Step, appendLocked

\* DamageAlwaysLocal: whatever fails, short writes and power failures included, a
\* restart shows each transcript as it may be shown, unless that transcript's line is
\* there and is glued to a torn write.
THEOREM DamageAlwaysLocal == Spec => []DamageIsLocal
<1>1. TypeInv /\ KeptInv => DamageIsLocal
  <2> SUFFICES ASSUME TypeInv, KeptInv, NEW file \in Survivors, NEW id \in Ids,
                      Replay(file, id) \notin may[id]
               PROVE  \E i \in 2..Len(file) :
                         /\ file[i].id = id /\ file[i].form = "line" /\ file[i].val \in may[id]
                         /\ file[i - 1].form # "line"
    BY DEF DamageIsLocal
  <2>1. file \in Seq(Chunk)
    BY SurvivorsType DEF TypeInv
  <2>2. Remembers(file, id, may[id])
    BY DEF KeptInv, FilesKept
  <2> QED
    BY <2>1, <2>2, RemembersShows
<1> QED
  BY <1>1, KeptInit, KeptNext, TypeInit, TypeNext, PTL DEF Spec

-------------------------------------------------------------------------------
(* The listing. As long as no append has failed after its line was         *)
(* written, transcripts are in the file, in order and in the index by      *)
(* their creation, and none comes back.                                    *)

\* What the first n chunks of a file show, and of whom they speak.
ShownBy(file, n) == [id \in Ids |-> ReplayTo(file, n, id)]
IdsOf(file, n) == {file[m].id : m \in 1..n}

Ordered == {order[i] : i \in DOMAIN order}

\* A value for id may follow what is shown: it changes a record, created when it was, or
\* it is the first of a transcript, and the newest of all.
Follows(shown, seen, id, val) ==
    val # None =>
        \/ shown[id] # None /\ val.created = shown[id].created
        \/ /\ shown[id] = None /\ id \notin seen
           /\ \A other \in Ids : shown[other] # None => shown[other].created < val.created

Steady(file, n) ==
    Follows(ShownBy(file, n - 1), IdsOf(file, n - 1), file[n].id, file[n].val)

CreatedBy(val, moment) == val # None => val.created <= moment

InOrder(file, moment) ==
    \A n \in 1..Len(file) : Steady(file, n) /\ CreatedBy(file[n].val, moment)

\* The index, as it is listed: by creation.
Ascending(listed, shown) ==
    \A i, j \in DOMAIN listed :
        i < j /\ shown[listed[i]] # None /\ shown[listed[j]] # None
            => shown[listed[i]].created < shown[listed[j]].created

\* How many chunks of the file the index holds.
Applied ==
    IF phase = "opening" THEN pos
    ELSE IF op.at \in {"sync", "close"} THEN Len(log) - 1 ELSE Len(log)

\* The value that the call that holds the lock writes, or has written.
LineFollows ==
    op.at \in {"write", "sync", "close"} =>
        /\ Follows(records, Ordered, op.id, op.val) /\ CreatedBy(op.val, clock)
        /\ op.at = "write" /\ op.val # None /\ records[op.id] = None
              => op.id \notin IdsOf(log, Len(log))

ListInv ==
    /\ \A file \in Survivors : InOrder(file, clock)
    /\ phase # "down" => records = ShownBy(log, Applied)
    /\ Ascending(order, records)
    /\ phase \in {"down", "opening"} => Ordered \subseteq IdsOf(log, pos)
    /\ LineFollows

\* The index with one value more.
LEMMA AscendingStep ==
  ASSUME NEW listed \in Seq(Ids), NEW shown \in [Ids -> Values], NEW id \in Ids,
         NEW val \in Values, Ascending(listed, shown),
         Follows(shown, {listed[i] : i \in DOMAIN listed}, id, val)
  PROVE  Ascending(IF val # None /\ shown[id] = None THEN Append(listed, id) ELSE listed,
                   [shown EXCEPT ![id] = val])
<1> DEFINE after == [shown EXCEPT ![id] = val]
           more == Append(listed, id)
<1>1. /\ DOMAIN listed = 1..Len(listed) /\ Len(listed) \in Nat
      /\ \A i \in DOMAIN listed : listed[i] \in Ids
  OBVIOUS
<1>2. after[id] = val /\ \A other \in Ids : other # id => after[other] = shown[other]
  OBVIOUS
<1> HIDE DEF after
<1>3. CASE val # None /\ shown[id] = None
  <2>1. /\ DOMAIN more = 1..(Len(listed) + 1)
        /\ \A i \in 1..Len(listed) : more[i] = listed[i]
        /\ more[Len(listed) + 1] = id
    BY <1>1, AppendProperties
  <2>2. /\ \A i \in DOMAIN listed : listed[i] # id
        /\ \A other \in Ids : shown[other] # None => shown[other].created < val.created
    BY <1>3 DEF Follows
  <2> HIDE DEF more
  <2>3. ASSUME NEW i \in DOMAIN more, NEW j \in DOMAIN more, i < j,
               after[more[i]] # None, after[more[j]] # None
        PROVE  after[more[i]].created < after[more[j]].created
    <3>1. i \in DOMAIN listed /\ more[i] = listed[i] /\ after[more[i]] = shown[listed[i]]
      BY <1>1, <1>2, <2>1, <2>2, <2>3
    <3>2. CASE j \in DOMAIN listed
      <4>1. more[j] = listed[j] /\ after[more[j]] = shown[listed[j]]
        BY <1>1, <1>2, <2>1, <2>2, <3>2
      <4> QED
        BY <2>3, <3>1, <3>2, <4>1 DEF Ascending
    <3>3. CASE j \notin DOMAIN listed
      <4>1. j = Len(listed) + 1 /\ more[j] = id
        BY <1>1, <2>1, <3>3
      <4> QED
        BY <1>1, <1>2, <2>2, <2>3, <3>1, <4>1
    <3> QED
      BY <3>2, <3>3
  <2>4. Ascending(more, after)
    BY <2>3 DEF Ascending
  <2> QED
    BY <1>3, <2>4 DEF more, after
<1>4. CASE ~ (val # None /\ shown[id] = None)
  <2>1. \A i \in DOMAIN listed : after[listed[i]] # None =>
           /\ shown[listed[i]] # None
           /\ after[listed[i]].created = shown[listed[i]].created
    BY <1>1, <1>2, <1>4 DEF Follows
  <2>2. Ascending(listed, after)
    BY <2>1 DEF Ascending
  <2> QED
    BY <1>4, <2>2 DEF after
<1> QED
  BY <1>3, <1>4

\* One chunk of a whole file more.
LEMMA ShownStep ==
  ASSUME NEW file \in Seq(Chunk), Whole(file), NEW n \in 1..Len(file)
  PROVE  /\ ShownBy(file, n) = [ShownBy(file, n - 1) EXCEPT ![file[n].id] = file[n].val]
         /\ IdsOf(file, n) = IdsOf(file, n - 1) \cup {file[n].id}
<1>1. Intact(file, n)
  BY WholeIntact
<1>2. \A id \in Ids : ReplayTo(file, n, id) =
         IF file[n].id = id THEN file[n].val ELSE ReplayTo(file, n - 1, id)
  BY <1>1, ReplayStep
<1>3. 1..n = (1..(n - 1)) \cup {n}
  OBVIOUS
<1> QED
  BY <1>2, <1>3 DEF ShownBy, IdsOf

\* What is shown is what some chunk says.
LEMMA ShownFrom ==
  ASSUME NEW file \in Seq(Chunk), NEW n \in 0..Len(file), NEW id \in Ids,
         ReplayTo(file, n, id) # None
  PROVE  \E m \in 1..n : file[m].id = id /\ file[m].val = ReplayTo(file, n, id)
<1> DEFINE V == Versions(file, id, n)
<1>1. V \in SUBSET (1..n) /\ n \in Nat /\ V # {}
  BY DEF Versions, ReplayTo
<1>2. LastOf(V) \in V
  <2> HIDE DEF V
  <2> QED
    BY <1>1, LastOfExists
<1> QED
  BY <1>1, <1>2 DEF ReplayTo, Versions

LEMMA ShownType ==
  ASSUME NEW file \in Seq(Chunk), NEW n \in 0..Len(file)
  PROVE  ShownBy(file, n) \in [Ids -> Values]
<1>1. ASSUME NEW id \in Ids PROVE ReplayTo(file, n, id) \in Values
  <2>1. CASE ReplayTo(file, n, id) = None
    BY <2>1, ValuesFacts
  <2>2. CASE ReplayTo(file, n, id) # None
    <3>1. PICK m \in 1..n : file[m].val = ReplayTo(file, n, id)
      BY <2>2, ShownFrom
    <3>2. file[m] \in Chunk
      BY <3>1
    <3> QED
      BY <3>1, <3>2 DEF Chunk
  <2> QED
    BY <2>1, <2>2
<1> QED
  BY <1>1 DEF ShownBy

\* A longer file shows the same up to where it is the same.
LEMMA ShownAppend ==
  ASSUME NEW file \in Seq(Chunk), Whole(file), NEW c \in Chunk, c.form = "line",
         NEW n \in 0..Len(file)
  PROVE  /\ ShownBy(Append(file, c), n) = ShownBy(file, n)
         /\ IdsOf(Append(file, c), n) = IdsOf(file, n)
<1> DEFINE more == Append(file, c)
<1>1. /\ more \in Seq(Chunk) /\ Len(more) = Len(file) + 1
      /\ \A i \in 1..Len(file) : more[i] = file[i]
  BY AppendProperties
<1>2. Whole(more)
  BY ReplayAppend
<1>3. 1..n \subseteq 1..Len(file) /\ 1..n \subseteq 1..Len(more)
  BY <1>1
<1> HIDE DEF more
<1>4. \A i \in 1..n : more[i] = file[i] /\ Intact(more, i) /\ Intact(file, i)
  BY <1>1, <1>2, <1>3, WholeIntact
<1>5. ASSUME NEW id \in Ids PROVE ReplayTo(more, n, id) = ReplayTo(file, n, id)
  <2>1. Versions(more, id, n) = Versions(file, id, n)
    BY <1>4 DEF Versions
  <2>2. CASE Versions(file, id, n) = {}
    BY <2>1, <2>2 DEF ReplayTo
  <2>3. CASE Versions(file, id, n) # {}
    <3>1. Versions(file, id, n) \in SUBSET (1..n) /\ n \in Nat
      BY DEF Versions
    <3>2. LastOf(Versions(file, id, n)) \in 1..n
      BY <2>3, <3>1, LastOfExists
    <3> QED
      BY <1>4, <2>1, <2>3, <3>2 DEF ReplayTo
  <2> QED
    BY <2>2, <2>3
<1> QED
  BY <1>4, <1>5 DEF ShownBy, IdsOf, more

LEMMA InOrderLater ==
  ASSUME NEW file \in Seq(Chunk), NEW moment \in Nat, NEW later \in Nat, moment <= later,
         InOrder(file, moment)
  PROVE  InOrder(file, later)
<1>1. ASSUME NEW n \in 1..Len(file) PROVE CreatedBy(file[n].val, later)
  <2>1. file[n] \in Chunk
    OBVIOUS
  <2>2. file[n].val # None => file[n].val.created \in Nat
    BY <2>1, RegistryAssumption DEF Chunk, Values, Record
  <2> QED
    BY <2>2 DEF InOrder, CreatedBy
<1> QED
  BY <1>1 DEF InOrder

LEMMA InOrderAppend ==
  ASSUME NEW file \in Seq(Chunk), Whole(file), NEW c \in Chunk, c.form = "line",
         NEW moment, InOrder(file, moment), CreatedBy(c.val, moment),
         Follows(ShownBy(file, Len(file)), IdsOf(file, Len(file)), c.id, c.val)
  PROVE  InOrder(Append(file, c), moment)
<1> DEFINE more == Append(file, c)
<1>1. /\ more \in Seq(Chunk) /\ Len(more) = Len(file) + 1 /\ Len(file) \in Nat
      /\ \A i \in 1..Len(file) : more[i] = file[i]
      /\ more[Len(file) + 1] = c
  BY AppendProperties
<1>2. ASSUME NEW n \in 1..Len(more)
      PROVE  ShownBy(more, n - 1) = ShownBy(file, n - 1) /\ IdsOf(more, n - 1) = IdsOf(file, n - 1)
  <2>1. n - 1 \in 0..Len(file)
    BY <1>1
  <2> QED
    BY <2>1, ShownAppend
<1> HIDE DEF more
<1>3. ASSUME NEW n \in 1..Len(more) PROVE Steady(more, n) /\ CreatedBy(more[n].val, moment)
  <2>1. CASE n \in 1..Len(file)
    BY <1>1, <1>2, <2>1 DEF InOrder, Steady
  <2>2. CASE n = Len(file) + 1
    <3>1. n - 1 = Len(file)
      BY <1>1, <2>2
    <3> QED
      BY <1>1, <1>2, <2>2, <3>1 DEF Steady
  <2> QED
    BY <1>1, <2>1, <2>2
<1> QED
  BY <1>3 DEF InOrder, more

\* A compaction writes the records by their creation.
LEMMA InOrderRewrite ==
  ASSUME TypeOK, ListsEveryRecord, Ascending(order, records),
         \A id \in Ids : CreatedBy(records[id], clock), NEW file \in Rewrites
  PROVE  InOrder(file, clock)
<1> DEFINE entry(i) == [id |-> order[i], val |-> records[order[i]], form |-> "line"]
<1>1. /\ order \in Seq(Ids) /\ Len(order) \in Nat /\ DOMAIN order = 1..Len(order)
      /\ records \in [Ids -> Values]
  BY DEF TypeOK
<1>2. PICK q \in UNION {[1..n -> Listed] : n \in 0..Len(order)} :
         Sorted(q) /\ file = [k \in DOMAIN q |-> entry(q[k])]
  BY DEF Rewrites
<1>3. PICK n \in 0..Len(order) : q \in [1..n -> Listed]
  BY <1>2
<1>4. file \in Seq(Chunk) /\ Whole(file)
  BY RewritesFacts
<1>5. \A k \in 1..n : /\ q[k] \in DOMAIN order /\ order[q[k]] \in Ids
                      /\ records[order[q[k]]] # None
  BY <1>1, <1>3 DEF Listed
<1>6. DOMAIN file = 1..n /\ Len(file) = n
  <2>1. DOMAIN file = 1..n /\ n \in Nat
    BY <1>1, <1>2, <1>3
  <2> QED
    BY <1>4, <2>1
<1>7. \A k \in 1..n : file[k].id = order[q[k]] /\ file[k].val = records[order[q[k]]]
  BY <1>2, <1>3
<1> HIDE DEF entry
<1>8. ASSUME NEW k \in 1..n, NEW m \in 1..n, m < k
      PROVE  file[m].val.created < file[k].val.created
  <2>1. \/ records[order[q[m]]].created < records[order[q[k]]].created
        \/ /\ records[order[q[m]]].created = records[order[q[k]]].created
           /\ q[m] < q[k]
    BY <1>2, <1>3, <1>8 DEF Sorted
  <2>2. q[m] < q[k] => records[order[q[m]]].created < records[order[q[k]]].created
    BY <1>5 DEF Ascending
  <2> QED
    BY <1>7, <2>1, <2>2
<1>9. ASSUME NEW k \in 1..n PROVE Steady(file, k) /\ CreatedBy(file[k].val, clock)
  <2> DEFINE shown == ShownBy(file, k - 1)
             id == file[k].id
             val == file[k].val
  <2>1. id \in Ids /\ val = records[id] /\ val # None
    BY <1>5, <1>7
  <2>6. CreatedBy(val, clock)
    BY <2>1
  <2>2. k - 1 \in 0..Len(file) /\ 1..(k - 1) \subseteq 1..n
    BY <1>6
  <2>3. ASSUME NEW other \in Ids, shown[other] # None
        PROVE  /\ shown[other] = records[other]
               /\ \E m \in 1..(k - 1) : file[m].id = other /\ file[m].val = shown[other]
    <3>1. PICK m \in 1..(k - 1) : file[m].id = other /\ file[m].val = shown[other]
      BY <1>4, <2>2, <2>3, ShownFrom DEF ShownBy
    <3> QED
      BY <1>7, <2>2, <3>1
  <2>4. CASE shown[id] # None
    BY <2>1, <2>3, <2>4, <2>6 DEF Steady, Follows
  <2>5. CASE shown[id] = None
    <3>1. ASSUME NEW m \in 1..(k - 1), file[m].id = id PROVE FALSE
      <4> DEFINE V == Versions(file, id, k - 1)
      <4>1. m \in V /\ V \in SUBSET (1..(k - 1)) /\ k - 1 \in Nat
        BY <1>4, <1>6, <2>2, <3>1, WholeIntact DEF Versions
      <4>2. LastOf(V) \in 1..(k - 1)
        <5> HIDE DEF V
        <5> QED
          BY <4>1, LastOfExists
      <4>3. ReplayTo(file, k - 1, id) = file[LastOf(V)].val
        BY <4>1 DEF ReplayTo
      <4>4. file[LastOf(V)].val # None
        <5> HIDE DEF V
        <5> QED
          BY <1>5, <1>7, <2>2, <4>2
      <4> QED
        BY <2>1, <2>5, <4>3, <4>4 DEF ShownBy
    <3>2. ASSUME NEW other \in Ids, shown[other] # None
          PROVE  shown[other].created < val.created
      <4>1. PICK m \in 1..(k - 1) : file[m].id = other /\ file[m].val = shown[other]
        BY <2>3, <3>2
      <4>2. m \in 1..n /\ m < k
        BY <2>2, <4>1
      <4> QED
        BY <1>8, <4>1, <4>2
    <3>3. id \notin IdsOf(file, k - 1)
      BY <3>1 DEF IdsOf
    <3>4. Follows(shown, IdsOf(file, k - 1), id, val)
      <4> HIDE DEF shown, id, val
      <4> QED
        BY <2>5, <3>2, <3>3 DEF Follows
    <3> QED
      BY <2>6, <3>4 DEF Steady
  <2> QED
    BY <2>1, <2>4, <2>5
<1> QED
  BY <1>6, <1>9 DEF InOrder

\* What the loaded index shows was created by now.
LEMMA IndexCreated ==
  ASSUME TypeInv, ListInv
  PROVE  \A id \in Ids : CreatedBy(records[id], clock)
<1> SUFFICES ASSUME NEW id \in Ids, records[id] # None PROVE records[id].created <= clock
  BY DEF CreatedBy
<1>1. phase # "down"
  BY DEF TypeInv, LockOK
<1>2. records[id] = ReplayTo(log, Applied, id)
  BY <1>1 DEF ListInv, ShownBy
<1>3. log \in Seq(Chunk) /\ Len(log) \in Nat /\ pos \in 0..Len(log)
  BY DEF TypeInv, TypeOK
<1>4. PICK m \in 1..Len(log) : log[m].val = records[id]
  <2>1. CASE Applied \in 0..Len(log)
    BY <1>2, <1>3, <2>1, ShownFrom
  <2>2. CASE Applied \notin 0..Len(log)
    <3>1. Applied = Len(log) - 1 /\ Len(log) = 0
      BY <1>3, <2>2 DEF Applied
    <3>2. Versions(log, id, Applied) = {}
      BY <3>1 DEF Versions
    <3> QED
      BY <1>2, <3>2 DEF ReplayTo
  <2> QED
    BY <2>1, <2>2
<1>5. log \in Survivors
  BY SurvivorsType DEF TypeInv
<1> QED
  BY <1>4, <1>5 DEF ListInv, InOrder, CreatedBy

\* A step that leaves the file and the index alone.
LEMMA ListStay ==
  ASSUME TypeInv, TypeInv', ListInv, UNCHANGED <<log, synced, earlier, records, order>>,
         clock <= clock', phase' # "down" => phase # "down" /\ Applied' = Applied,
         phase' \in {"down", "opening"} => phase' = phase /\ pos' = pos,
         LineFollows'
  PROVE  ListInv'
<1>1. Survivors' = Survivors /\ Survivors \subseteq Seq(Chunk)
  BY SurvivorsType DEF Survivors, TypeInv
<1>2. clock \in Nat /\ clock' \in Nat
  BY RegistryAssumption DEF TypeInv, TypeOK
<1>3. ASSUME NEW file \in Survivors' PROVE InOrder(file, clock')
  BY <1>1, <1>2, <1>3, InOrderLater DEF ListInv
<1>4. phase' # "down" => records' = ShownBy(log, Applied)'
  <2> SUFFICES ASSUME phase' # "down" PROVE records' = ShownBy(log, Applied)'
    OBVIOUS
  <2>1. Applied' = Applied /\ records = ShownBy(log, Applied)
    BY DEF ListInv
  <2>2. \A n : ShownBy(log', n) = ShownBy(log, n)
    OBVIOUS
  <2>3. ShownBy(log, Applied)' = ShownBy(log', Applied')
    BY DEF ShownBy, ReplayTo, Versions, Intact
  <2> QED
    BY <2>1, <2>2, <2>3
<1>5. phase' \in {"down", "opening"} => Ordered' \subseteq IdsOf(log, pos)'
  BY DEF ListInv, Ordered, IdsOf
<1>6. Ascending(order', records')
  BY DEF ListInv
<1> QED
  BY <1>3, <1>4, <1>5, <1>6 DEF ListInv, InOrder, Steady, Follows, ShownBy, IdsOf, ReplayTo,
     Versions, Intact, CreatedBy, Ascending

\* A call that takes the lock with a value that may follow.
LEMMA ListBegin ==
  ASSUME TypeInv, TypeInv', ListInv, NEW kind, NEW id \in Ids, NEW val \in Values,
         Begin(kind, id, val), UNCHANGED <<log, synced, earlier, records, order, phase, pos>>,
         Follows(records, Ordered, id, val), CreatedBy(val, clock + 1),
         records[id] = None /\ val # None => id \notin IdsOf(log, Len(log))
  PROVE  ListInv'
<1>1. /\ clock' = clock + 1 /\ op.at = "-" /\ clock \in Nat
      /\ op'.at = "write" /\ op'.id = id /\ op'.val = val
  BY RegistryAssumption DEF Begin, Free, TypeInv, TypeOK
<1>2. LineFollows'
  BY <1>1 DEF LineFollows, Follows, Ordered, CreatedBy, IdsOf
<1>3. Applied' = Applied
  BY <1>1 DEF Applied
<1> QED
  BY <1>1, <1>2, <1>3, ListStay

\* The files after a step, when each was one before it, or is in order anyway.
LEMMA FilesIn ==
  ASSUME TypeInv, ListInv, clock' = clock,
         \A file \in Survivors' : file \in Survivors \/ InOrder(file, clock)
  PROVE  \A file \in Survivors' : InOrder(file, clock')
  BY DEF ListInv

\* ListInv after a step, from its parts.
LEMMA ListFromParts ==
  ASSUME \A file \in Survivors' : InOrder(file, clock'),
         phase' # "down" => records' = ShownBy(log', Applied'),
         Ascending(order', records'),
         phase' \in {"down", "opening"} => Ordered' \subseteq IdsOf(log', pos'),
         LineFollows'
  PROVE  ListInv'
<1>1. /\ ShownBy(log, Applied)' = ShownBy(log', Applied')
      /\ IdsOf(log, pos)' = IdsOf(log', pos')
  BY DEF ShownBy, IdsOf, ReplayTo, Versions, Intact
<1>2. Ascending(order, records)' <=> Ascending(order', records')
  BY DEF Ascending
<1>3. (\A file \in Survivors : InOrder(file, clock))' <=>
        \A file \in Survivors' : InOrder(file, clock')
  BY DEF InOrder, Steady, CreatedBy, Follows, ShownBy, IdsOf, ReplayTo, Versions, Intact
<1> QED
  BY <1>1, <1>2, <1>3 DEF ListInv

LEMMA ListOpen == ASSUME TypeInv, ListInv, Open PROVE ListInv'
<1>1. /\ UNCHANGED <<log, synced, earlier, records, order, op, clock>>
      /\ phase = "down" /\ phase' = "opening" /\ pos' = 0
  BY DEF Open, fileVars, memoryVars
<1>2. \A id \in Ids : records[id] = None /\ ReplayTo(log, 0, id) = None
  BY <1>1 DEF TypeInv, LockOK, ReplayTo, Versions
<1>3. records = ShownBy(log, 0)
  BY <1>2 DEF ShownBy, TypeInv, TypeOK
<1>4. Applied' = 0 /\ op.at = "-" /\ pos = 0
  BY <1>1 DEF Applied, TypeInv, LockOK
<1>5. Survivors' = Survivors
  BY <1>1 DEF Survivors
<1>6. Ordered' \subseteq IdsOf(log, 0)
  BY <1>1, <1>4 DEF ListInv, Ordered
<1>7. LineFollows'
  BY <1>1, <1>4 DEF LineFollows
<1> QED
  BY <1>1, <1>3, <1>4, <1>5, <1>6, <1>7, ListFromParts DEF ListInv

\* What a transcript more adds to order.
LEMMA OrderedStep ==
  ASSUME order \in Seq(Ids), NEW id \in Ids, order' = order \/ order' = Append(order, id)
  PROVE  Ordered' \subseteq Ordered \cup {id}
<1>1. CASE order' = order
  BY <1>1 DEF Ordered
<1>2. CASE order' = Append(order, id)
  <2>1. /\ DOMAIN order = 1..Len(order) /\ DOMAIN order' = 1..(Len(order) + 1)
        /\ \A i \in 1..Len(order) : order'[i] = order[i]
        /\ order'[Len(order) + 1] = id /\ Len(order) \in Nat
    BY <1>2, AppendProperties
  <2>2. \A i \in DOMAIN order' : i \in DOMAIN order \/ i = Len(order) + 1
    BY <2>1
  <2> QED
    BY <2>1, <2>2 DEF Ordered
<1> QED
  BY <1>1, <1>2

LEMMA ListReplayLine == ASSUME TypeInv, RecoveryInv, ListInv, ReplayLine PROVE ListInv'
<1>1. /\ log \in Seq(Chunk) /\ pos + 1 \in 1..Len(log) /\ pos \in Nat
      /\ records \in [Ids -> Values] /\ order \in Seq(Ids)
  BY DEF ReplayLine, TypeInv, TypeOK
<1>2. /\ UNCHANGED <<log, synced, earlier, op, phase, clock>> /\ phase = "opening"
      /\ pos' = pos + 1
  BY DEF ReplayLine, fileVars
<1>3. Survivors' = Survivors /\ log \in Survivors
  BY <1>2, SurvivorsType DEF Survivors, TypeInv
<1>4. Whole(log) /\ InOrder(log, clock)
  BY <1>3 DEF RecoveryInv, FileInv, ListInv
<1>5. op.at = "-" /\ Applied = pos /\ Applied' = pos + 1
  BY <1>2 DEF TypeInv, LockOK, Applied
<1> DEFINE line == log[pos + 1]
<1>6. line \in Chunk /\ line.id \in Ids /\ line.val \in Values
  <2>1. line \in Chunk
    BY <1>1
  <2> QED
    BY <2>1 DEF Chunk
<1>7. /\ records' = [records EXCEPT ![line.id] = line.val]
      /\ order' = IF line.val # None /\ records[line.id] = None
                  THEN Append(order, line.id) ELSE order
  BY <1>1, <1>4, WholeIntact DEF ReplayLine
<1>8. records = ShownBy(log, pos) /\ Ordered \subseteq IdsOf(log, pos)
  BY <1>2, <1>5 DEF ListInv
<1>9. /\ ShownBy(log, pos + 1) = [ShownBy(log, pos) EXCEPT ![line.id] = line.val]
      /\ IdsOf(log, pos + 1) = IdsOf(log, pos) \cup {line.id}
  <2>1. (pos + 1) - 1 = pos
    BY <1>1
  <2> QED
    BY <1>1, <1>4, <2>1, ShownStep
<1>10. Follows(records, Ordered, line.id, line.val)
  <2>1. Steady(log, pos + 1) /\ (pos + 1) - 1 = pos
    BY <1>1, <1>4 DEF InOrder
  <2>2. Follows(ShownBy(log, (pos + 1) - 1), IdsOf(log, (pos + 1) - 1), line.id, line.val)
    BY <2>1 DEF Steady
  <2>3. ShownBy(log, (pos + 1) - 1) = records /\ IdsOf(log, (pos + 1) - 1) = IdsOf(log, pos)
    BY <1>8, <2>1
  <2>4. Follows(records, IdsOf(log, pos), line.id, line.val)
    BY <2>2, <2>3
  <2> QED
    BY <1>8, <2>4 DEF Follows
<1> HIDE DEF line
<1>11. Ascending(order', records')
  BY <1>1, <1>6, <1>7, <1>10, AscendingStep DEF ListInv, Ordered
<1>12. Ordered' \subseteq Ordered \cup {line.id}
  BY <1>1, <1>6, <1>7, OrderedStep
<1>13. LineFollows'
  BY <1>2, <1>5 DEF LineFollows
<1>14. Ordered' \subseteq IdsOf(log', pos')
  BY <1>2, <1>8, <1>9, <1>12
<1>15. records' = ShownBy(log', Applied')
  BY <1>2, <1>5, <1>7, <1>8, <1>9
<1>16. \A file \in Survivors' : InOrder(file, clock')
  BY <1>2, <1>3 DEF ListInv
<1> QED
  BY <1>11, <1>13, <1>14, <1>15, <1>16, ListFromParts

LEMMA ListWrite ==
  ASSUME NoTorn, TypeInv, TypeInv', RecoveryInv, RecoveryInv', ListInv, Write
  PROVE  ListInv'
<1> DEFINE c == Line("line")
           n == Len(log)
<1>1. /\ log \in Seq(Chunk) /\ n \in Nat /\ op.id \in Ids
  BY DEF TypeInv, TypeOK, Write
<1>2. c \in Chunk /\ c.form = "line" /\ c.id = op.id /\ c.val = op.val
  <2>1. c \in Chunk
    BY LogGrows DEF Write
  <2> QED
    BY <2>1 DEF Line
<1>3. /\ log' = Append(log, c) /\ op.at = "write" /\ phase = "serving"
      /\ UNCHANGED <<synced, earlier, records, order, phase, pos, clock>>
  BY DEF Write, memoryVars, bootVars, TypeInv, LockOK
<1>4. op'.at = "sync" /\ op'.id = op.id /\ op'.val = op.val
  BY DEF Write, TypeInv, TypeOK
<1> HIDE DEF c
<1>5. Applied = n /\ Len(log') = n + 1 /\ Applied' = n
  <2>1. Len(log') = n + 1
    BY <1>1, <1>2, <1>3, AppendProperties
  <2>2. Applied = n
    BY <1>3 DEF Applied
  <2>3. Applied' = Len(log') - 1
    BY <1>3, <1>4 DEF Applied
  <2> QED
    BY <1>1, <2>1, <2>2, <2>3
<1>6. log \in Survivors /\ Whole(log) /\ InOrder(log, clock)
  BY SurvivorsType DEF TypeInv, RecoveryInv, FileInv, ListInv
<1>7. records = ShownBy(log, n)
  BY <1>3, <1>5 DEF ListInv
<1>8. records' = ShownBy(log', Applied')
  <2>1. ShownBy(Append(log, c), n) = ShownBy(log, n)
    BY <1>1, <1>2, <1>6, ShownAppend
  <2> QED
    BY <1>3, <1>5, <1>7, <2>1
<1>9. /\ Follows(records, Ordered, op.id, op.val) /\ CreatedBy(op.val, clock)
      /\ op.val # None /\ records[op.id] = None => op.id \notin IdsOf(log, n)
  BY <1>3 DEF ListInv, LineFollows
<1>10. Follows(records, IdsOf(log, n), op.id, op.val)
  BY <1>9 DEF Follows
<1>11. InOrder(log', clock)
  <2>1. Follows(ShownBy(log, Len(log)), IdsOf(log, Len(log)), c.id, c.val)
    BY <1>2, <1>7, <1>10
  <2>2. CreatedBy(c.val, clock)
    BY <1>2, <1>9
  <2> QED
    BY <1>1, <1>2, <1>3, <1>6, <2>1, <2>2, InOrderAppend
<1>12. ASSUME NEW file \in Survivors' PROVE file \in Survivors \/ file = log'
  <2>1. Whole(file)
    BY <1>12 DEF RecoveryInv, FileInv, Whole
  <2>2. file # Append(log, [c EXCEPT !.form = "part"])
    <3> DEFINE torn == [c EXCEPT !.form = "part"]
    <3>1. torn \in Chunk /\ torn.form = "part"
      BY <1>2 DEF Chunk
    <3> HIDE DEF torn
    <3>2. /\ Len(Append(log, torn)) = n + 1 /\ Append(log, torn)[n + 1] = torn
      BY <1>1, <3>1, AppendProperties
    <3>3. n + 1 \in 1..(n + 1)
      BY <1>1
    <3>4. ~ Whole(Append(log, torn))
      BY <3>1, <3>2, <3>3 DEF Whole
    <3> QED
      BY <2>1, <3>4 DEF torn
  <2> QED
    BY <1>2, <1>3, <1>12, <2>2, SurvivorsAppend DEF TypeInv
<1>13. \A file \in Survivors' : InOrder(file, clock')
  BY <1>3, <1>11, <1>12 DEF ListInv
<1>14. LineFollows'
  BY <1>3, <1>4, <1>9 DEF LineFollows, Follows, Ordered, CreatedBy
<1>15. Ascending(order', records')
  BY <1>3 DEF ListInv
<1> QED
  BY <1>3, <1>8, <1>13, <1>14, <1>15, ListFromParts

LEMMA ListSync ==
  ASSUME NoTorn, TypeInv, TypeInv', ListInv, Sync
  PROVE  ListInv'
<1>1. /\ log' = log /\ synced' = Len(log) /\ earlier' = {} /\ op.at = "sync"
      /\ UNCHANGED <<records, order, phase, pos, clock>>
  BY DEF Sync, memoryVars, bootVars
<1>2. op'.at = "close" /\ op'.id = op.id /\ op'.val = op.val
  BY DEF Sync, TypeInv, TypeOK
<1>3. log \in Survivors /\ Survivors' = {log}
  BY <1>1, SurvivorsType, AllSynced DEF Survivors, NoTorn, TypeInv, TypeOK
<1>4. Applied' = Applied /\ phase = "serving"
  BY <1>1, <1>2 DEF Applied, TypeInv, LockOK
<1>5. LineFollows'
  BY <1>1, <1>2 DEF ListInv, LineFollows, Follows, Ordered, CreatedBy
<1>6. records' = ShownBy(log', Applied')
  BY <1>1, <1>4 DEF ListInv
<1> QED
  BY <1>1, <1>3, <1>4, <1>5, <1>6, ListFromParts DEF ListInv

LEMMA ListClose ==
  ASSUME NoTorn, TypeInv, TypeInv', RecoveryInv, ListInv, Close
  PROVE  ListInv'
<1>1. /\ UNCHANGED <<log, synced, earlier, phase, pos, clock>>
      /\ records' = [records EXCEPT ![op.id] = op.val]
      /\ order' = IF op.val # None /\ records[op.id] = None
                  THEN Append(order, op.id) ELSE order
      /\ op' = Free /\ op.at = "close"
  BY DEF Close, fileVars, bootVars
<1>2. /\ log \in Seq(Chunk) /\ op.id \in Ids /\ op.val \in Values /\ phase = "serving"
      /\ records \in [Ids -> Values] /\ order \in Seq(Ids)
  BY <1>1 DEF TypeInv, TypeOK, LockOK
<1>3. log # <<>> /\ log[Len(log)] = Line("line") /\ Len(log) \in 1..Len(log)
  BY <1>1, <1>2, EmptySeq DEF RecoveryInv, StageInv
<1>4. Survivors' = Survivors /\ log \in Survivors
  BY <1>1, SurvivorsType DEF Survivors, TypeInv
<1>5. Applied = Len(log) - 1 /\ Applied' = Len(log)
  BY <1>1, <1>2 DEF Applied, Free
<1>6. records = ShownBy(log, Len(log) - 1)
  BY <1>2, <1>5 DEF ListInv
<1>7. ShownBy(log, Len(log)) = records'
  <2>1. Line("line").id = op.id /\ Line("line").val = op.val
    BY DEF Line
  <2>2. Whole(log)
    BY <1>4 DEF RecoveryInv, FileInv
  <2>3. ShownBy(log, Len(log)) =
           [ShownBy(log, Len(log) - 1) EXCEPT ![Line("line").id] = Line("line").val]
    BY <1>2, <1>3, <2>2, ShownStep
  <2> QED
    BY <1>1, <1>6, <2>1, <2>3
<1>8. Ascending(order', records')
  <2>1. Follows(records, Ordered, op.id, op.val) /\ Ascending(order, records)
    BY <1>1 DEF ListInv, LineFollows
  <2> QED
    BY <1>1, <1>2, <2>1, AscendingStep DEF Ordered
<1>9. LineFollows'
  BY <1>1 DEF LineFollows, Free
<1>10. records' = ShownBy(log', Applied')
  BY <1>1, <1>5, <1>7
<1>11. \A file \in Survivors' : InOrder(file, clock')
  BY <1>1, <1>4 DEF ListInv
<1> QED
  BY <1>1, <1>2, <1>8, <1>9, <1>10, <1>11, ListFromParts

LEMMA ListRewrite ==
  ASSUME NoTorn, TypeInv, TypeInv', ListInv, Rewrite
  PROVE  ListInv'
<1>1. /\ log' \in Rewrites /\ synced' = Len(log') /\ earlier' = Survivors /\ op.at = "rewrite"
      /\ UNCHANGED <<records, order, phase, pos, clock>>
  BY DEF Rewrite, memoryVars, bootVars
<1>2. op'.at = "dirsync" /\ phase = "serving"
  BY DEF Rewrite, TypeInv, TypeOK, LockOK
<1>3. /\ log' \in Seq(Chunk) /\ \A id \in Ids : Replay(log', id) = records[id]
  BY <1>1, RewritesFacts DEF TypeInv
<1>4. Survivors' = Survivors \cup {log'}
  BY <1>1, <1>3, SurvivorsSyncedNext
<1>5. InOrder(log', clock)
  BY <1>1, IndexCreated, InOrderRewrite DEF TypeInv, ListInv
<1>6. \A file \in Survivors' : InOrder(file, clock')
  BY <1>1, <1>4, <1>5 DEF ListInv
<1>7. records' = ShownBy(log', Applied')
  <2>1. Applied' = Len(log')
    BY <1>1, <1>2 DEF Applied
  <2>2. records \in [Ids -> Values]
    BY DEF TypeInv, TypeOK
  <2>3. records = [id \in Ids |-> Replay(log', id)]
    BY <1>3, <2>2
  <2> QED
    BY <1>1, <2>1, <2>3 DEF ShownBy, Replay
<1>8. LineFollows'
  BY <1>2 DEF LineFollows
<1> QED
  BY <1>1, <1>2, <1>6, <1>7, <1>8, ListFromParts DEF ListInv

LEMMA ListSyncDirectory ==
  ASSUME NoTorn, TypeInv, TypeInv', RecoveryInv, ListInv, SyncDirectory
  PROVE  ListInv'
<1>1. /\ UNCHANGED <<log, synced, records, order, phase, pos, clock>> /\ earlier' = {}
      /\ op.at = "dirsync" /\ op' = Free
  BY DEF SyncDirectory, memoryVars, bootVars
<1>2. log \in Survivors /\ synced = Len(log)
  BY <1>1, SurvivorsType DEF RecoveryInv, StageInv, TypeInv
<1>3. Survivors' = {log}
  BY <1>1, <1>2, AllSynced DEF Survivors, NoTorn, TypeInv, TypeOK
<1>4. Applied' = Applied /\ phase = "serving"
  BY <1>1 DEF Applied, Free, TypeInv, LockOK
<1>5. LineFollows'
  BY <1>1 DEF LineFollows, Free
<1>6. records' = ShownBy(log', Applied')
  BY <1>1, <1>4 DEF ListInv
<1> QED
  BY <1>1, <1>2, <1>3, <1>4, <1>5, <1>6, ListFromParts DEF ListInv

LEMMA ListCrash ==
  ASSUME NoTorn, TypeInv, TypeInv', ListInv, Crash \/ PowerFailure
  PROVE  ListInv'
<1>1. /\ phase' = "down" /\ pos' = 0 /\ op' = Free /\ clock' = clock
      /\ records' = [id \in Ids |-> None] /\ order' = <<>>
  BY DEF Crash, PowerFailure, Stop
<1>2. Survivors' \subseteq Survivors
  <2>1. CASE UNCHANGED fileVars
    BY <2>1 DEF fileVars, Survivors
  <2>2. CASE log' \in Survivors /\ synced' = Len(log') /\ earlier' = {}
    <3>1. Survivors' = {log'}
      BY <2>2, AllSynced DEF Survivors, NoTorn, TypeInv, TypeOK
    <3> QED
      BY <2>2, <3>1
  <2> QED
    BY <2>1, <2>2 DEF Crash, PowerFailure, Stop, NoTorn
<1>3. DOMAIN order' = {}
  BY <1>1, EmptySeq
<1>4. Ascending(order', records') /\ Ordered' = {}
  BY <1>3 DEF Ascending, Ordered
<1>5. LineFollows'
  BY <1>1 DEF LineFollows, Free
<1> QED
  BY <1>1, <1>2, <1>4, <1>5, ListFromParts DEF ListInv

LEMMA ListInit == NoTorn /\ Init => ListInv
<1> SUFFICES ASSUME NoTorn, Init PROVE ListInv
  OBVIOUS
<1>1. log = <<>> /\ log \in Seq(Chunk) /\ Len(log) = 0 /\ synced = 0 /\ earlier = {}
  BY EmptySeq DEF Init
<1>2. Survivors = {<<>>}
  BY <1>1, SurvivorsSynced
<1>3. InOrder(<<>>, clock)
  BY <1>1 DEF InOrder
<1>4. DOMAIN order = {}
  BY EmptySeq DEF Init
<1>5. Ascending(order, records) /\ Ordered = {}
  BY <1>4 DEF Ascending, Ordered
<1> QED
  BY <1>2, <1>3, <1>5 DEF Init, ListInv, LineFollows, Free

\* A call that keeps when a transcript was created, for one that has a record.
LEMMA ListUpdate ==
  ASSUME TypeInv, TypeInv', ListInv, NEW id \in Ids, NEW val \in Values, Update(id, val),
         val.created = records[id].created
  PROVE  ListInv'
<1>1. /\ records[id] # None /\ Begin("update", id, val)
      /\ UNCHANGED <<log, synced, earlier, records, order, phase, pos>>
  BY DEF Update, fileVars, memoryVars, bootVars
<1>2. Follows(records, Ordered, id, val)
  BY <1>1 DEF Follows
<1>3. CreatedBy(val, clock + 1)
  <2>1. records[id] \in Record /\ records[id].created \in Nat /\ clock \in Nat
    BY <1>1, RegistryAssumption DEF TypeInv, TypeOK, Values, Record
  <2>2. records[id].created <= clock
    BY <1>1, IndexCreated DEF CreatedBy
  <2> QED
    BY <2>1, <2>2 DEF CreatedBy
<1> QED
  BY <1>1, <1>2, <1>3, ListBegin

LEMMA ListAdd ==
  ASSUME TypeInv, TypeInv', BundleInv, ListInv, Add
  PROVE  ListInv'
<1> DEFINE val == [created |-> clock + 1, key |-> 0, renewed |-> 0]
<1>1. /\ Begin("add", export.id, val) /\ export.at = "final"
      /\ UNCHANGED <<log, synced, earlier, records, order, phase, pos>>
  BY DEF Add, fileVars, memoryVars, bootVars
<1>2. export.id \in Ids /\ clock + 1 \in 0..MaxWrites /\ clock \in Nat
  BY <1>1, RegistryAssumption DEF Begin, TypeInv, TypeOK, NoExport
<1>3. val \in Values /\ val # None /\ val.created = clock + 1
  <2>1. val \in Record
    BY <1>2, RegistryAssumption DEF Record
  <2> QED
    BY <2>1, ValuesFacts
<1>4. /\ records[export.id] = None /\ \A i \in DOMAIN order : order[i] # export.id
      /\ ~ Mentions(log, export.id)
  BY <1>1, <1>2 DEF BundleInv, Unfinished, Unwritten
<1> HIDE DEF val
<1>5. ASSUME NEW other \in Ids, records[other] # None
      PROVE  records[other].created < val.created
  <2>1. records[other] \in Record /\ records[other].created \in Nat
    BY <1>5, RegistryAssumption DEF TypeInv, TypeOK, Values, Record
  <2>2. records[other].created <= clock
    BY <1>5, IndexCreated DEF CreatedBy
  <2> QED
    BY <1>2, <1>3, <2>1, <2>2
<1>6. Follows(records, Ordered, export.id, val)
  BY <1>4, <1>5 DEF Follows, Ordered
<1>7. CreatedBy(val, clock + 1)
  BY <1>2, <1>3 DEF CreatedBy
<1>8. export.id \notin IdsOf(log, Len(log))
  BY <1>4 DEF IdsOf, Mentions
<1> QED
  BY <1>1, <1>2, <1>3, <1>6, <1>7, <1>8, ListBegin

LEMMA ListRemoveBundle ==
  ASSUME TypeInv, TypeInv', ListInv, RemoveBundle
  PROVE  ListInv'
<1>1. /\ UNCHANGED <<log, synced, earlier, records, order, phase, pos>> /\ clock' = clock + 1
      /\ op'.at = "write" /\ op'.val = None /\ op.at = "bundle" /\ clock \in Nat
  BY RegistryAssumption DEF RemoveBundle, fileVars, memoryVars, bootVars, TypeInv, TypeOK, LockOK
<1>2. LineFollows'
  BY <1>1 DEF LineFollows, Follows, CreatedBy
<1>3. Applied' = Applied
  BY <1>1 DEF Applied
<1> QED
  BY <1>1, <1>2, <1>3, ListStay

LEMMA ListNext ==
  ASSUME NoTorn, TypeInv, RecoveryInv, BundleInv, ListInv, [Next]_vars,
         ~ SyncFails, ~ CloseFails
  PROVE  ListInv'
<1>0. TypeInv' /\ RecoveryInv'
  BY TypeNext, RecoveryNext
<1>1. CASE Open
  BY <1>1, ListOpen
<1>2. CASE ReplayLine
  BY <1>2, ListReplayLine
<1>3. CASE Write
  BY <1>0, <1>3, ListWrite
<1>4. CASE Sync
  BY <1>0, <1>4, ListSync
<1>5. CASE Close
  BY <1>0, <1>5, ListClose
<1>6. CASE Rewrite
  BY <1>0, <1>6, ListRewrite
<1>7. CASE SyncDirectory
  BY <1>0, <1>7, ListSyncDirectory
<1>8. CASE Crash \/ PowerFailure
  BY <1>0, <1>8, ListCrash
<1>9. CASE Add
  BY <1>0, <1>9, ListAdd
<1>10. CASE RemoveBundle
  BY <1>0, <1>10, ListRemoveBundle
<1>11. CASE \E id \in Ids : Renew(id) \/ \E public \in BOOLEAN : SetVisibility(id, public)
  <2>1. PICK id \in Ids : Renew(id) \/ \E public \in BOOLEAN : SetVisibility(id, public)
    BY <1>11
  <2> DEFINE renewed == [records[id] EXCEPT !.renewed = clock + 1]
             keyed(k) == [records[id] EXCEPT !.key = k]
  <2>2. Update(id, renewed) \/ Update(id, keyed(0)) \/ Update(id, keyed(clock + 1))
    BY <2>1 DEF Renew, SetVisibility
  <2>3. records[id] # None /\ clock < MaxWrites
    BY <2>2 DEF Update, Begin
  <2>4. records[id] \in Record /\ clock + 1 \in 0..MaxWrites /\ 0 \in 0..MaxWrites
    BY <2>3, RegistryAssumption DEF TypeInv, TypeOK, Values
  <2>5. /\ renewed \in Values /\ keyed(0) \in Values /\ keyed(clock + 1) \in Values
        /\ renewed.created = records[id].created /\ keyed(0).created = records[id].created
        /\ keyed(clock + 1).created = records[id].created
    BY <2>4 DEF Record, Values
  <2> HIDE DEF renewed, keyed
  <2> QED
    BY <1>0, <2>2, <2>5, ListUpdate
<1>12. CASE \/ OpenDone \/ CleanupInterrupted \/ UNCHANGED vars
            \/ \E id \in Ids : StartExport(id)
            \/ ExportFails \/ PublishBundle \/ UndoBundle
  <2>1. UNCHANGED <<log, synced, earlier, records, order, op, clock>>
    BY <1>12 DEF OpenDone, CleanupInterrupted, vars, StartExport, ExportFails, PublishBundle,
         UndoBundle, fileVars, memoryVars
  <2>2. LineFollows'
    BY <2>1 DEF ListInv, LineFollows, Follows, CreatedBy, Ordered, IdsOf
  <2>3. clock <= clock'
    BY <2>1, RegistryAssumption DEF TypeInv, TypeOK
  <2>4. CASE OpenDone
    <3>1. /\ phase = "opening" /\ phase' = "starting" /\ pos = Len(log) /\ op.at = "-"
      BY <2>4 DEF OpenDone, TypeInv, LockOK
    <3>2. Applied' = Applied
      BY <2>1, <3>1 DEF Applied
    <3> QED
      BY <1>0, <2>1, <2>2, <2>3, <3>1, <3>2, ListStay
  <2>5. CASE CleanupInterrupted
    <3>1. phase = "starting" /\ phase' = "serving"
      BY <2>5 DEF CleanupInterrupted
    <3>2. Applied' = Applied
      BY <2>1, <3>1 DEF Applied
    <3> QED
      BY <1>0, <2>1, <2>2, <2>3, <3>1, <3>2, ListStay
  <2>6. CASE ~ (OpenDone \/ CleanupInterrupted)
    <3>1. UNCHANGED <<phase, pos>>
      BY <1>12, <2>6 DEF vars, StartExport, ExportFails, PublishBundle, UndoBundle, bootVars
    <3>2. Applied' = Applied
      BY <2>1, <3>1 DEF Applied
    <3> QED
      BY <1>0, <2>1, <2>2, <2>3, <3>1, <3>2, ListStay
  <2> QED
    BY <2>4, <2>5, <2>6
<1>13. CASE \/ WriteFails \/ CompactFails \/ RemoveBundleFails \/ Compact \/ \E id \in Ids : Remove(id)
  <2>1. /\ UNCHANGED <<log, synced, earlier, records, order, phase, pos, clock>>
        /\ op'.at \in {"-", "rewrite", "bundle"} /\ op.at \notin {"sync", "close"}
    <3>1. CASE WriteFails \/ CompactFails \/ RemoveBundleFails
      BY <1>13, <3>1 DEF WriteFails, CompactFails, RemoveBundleFails, ReturnError, NoTorn,
           fileVars, memoryVars, bootVars, Free
    <3>2. CASE Compact
      BY <3>2 DEF Compact, Free, fileVars, memoryVars, bootVars
    <3>3. CASE \E id \in Ids : Remove(id)
      BY <3>3 DEF Remove, Free, fileVars, memoryVars, bootVars
    <3> QED
      BY <1>13, <3>1, <3>2, <3>3
  <2>2. LineFollows'
    BY <2>1 DEF LineFollows
  <2>3. clock <= clock'
    BY <2>1, RegistryAssumption DEF TypeInv, TypeOK
  <2>4. Applied' = Applied
    BY <2>1 DEF Applied
  <2> QED
    BY <1>0, <2>1, <2>2, <2>3, <2>4, ListStay
<1> QED
  BY <1>1, <1>2, <1>3, <1>4, <1>5, <1>6, <1>7, <1>8, <1>9, <1>10, <1>11, <1>12, <1>13
     DEF Next, Step, appendLocked

-------------------------------------------------------------------------------
(* What List makes of order: its loop is a recursion over the numbers, and *)
(* keeps the transcripts with a record, from the end of order.             *)

Entry(n) == order[Len(order) + 1 - n]

Loop(of, top) ==
    of = [n \in 0..top |->
            IF n = 0 THEN <<>>
            ELSE IF records[Entry(n)] # None THEN Append(of[n - 1], Entry(n)) ELSE of[n - 1]]

LEMMA LoopExists == \A top \in Nat : \E of : Loop(of, top)
<1> DEFINE Reached == {n \in Nat : \E of : Loop(of, n)}
<1>1. 0 \in Reached
  <2> DEFINE of == [n \in 0..0 |-> <<>>]
  <2>1. \A n \in 0..0 : n = 0
    OBVIOUS
  <2>2. Loop(of, 0)
    BY <2>1 DEF Loop
  <2> HIDE DEF of
  <2> QED
    BY <2>2
<1>2. ASSUME NEW n \in Nat, n \in Reached PROVE n + 1 \in Reached
  <2>1. PICK of : Loop(of, n)
    BY <1>2
  <2> DEFINE more == [m \in 0..(n + 1) |->
               IF m = 0 THEN <<>>
               ELSE IF records[Entry(m)] # None THEN Append(of[m - 1], Entry(m)) ELSE of[m - 1]]
  <2>2. \A m \in 0..n : m \in 0..(n + 1)
    OBVIOUS
  <2>3. \A m \in 0..n :
           of[m] = IF m = 0 THEN <<>>
                   ELSE IF records[Entry(m)] # None THEN Append(of[m - 1], Entry(m)) ELSE of[m - 1]
    BY <2>1 DEF Loop
  <2>4. \A m \in 0..(n + 1) :
           more[m] = IF m = 0 THEN <<>>
                     ELSE IF records[Entry(m)] # None THEN Append(of[m - 1], Entry(m)) ELSE of[m - 1]
    OBVIOUS
  <2>5. more = [m \in 0..(n + 1) |-> more[m]]
    OBVIOUS
  <2> HIDE DEF more
  <2>6. \A m \in 0..n : more[m] = of[m]
    BY <2>2, <2>3, <2>4
  <2>7. \A m \in 0..(n + 1) : m # 0 => m - 1 \in 0..n
    OBVIOUS
  <2>8. \A m \in 0..(n + 1) : m # 0 => of[m - 1] = more[m - 1]
    BY <2>6, <2>7
  <2>9. Loop(more, n + 1)
    BY <2>4, <2>5, <2>8 DEF Loop
  <2> QED
    BY <2>9
<1>3. Nat \subseteq Reached
  <2> HIDE DEF Reached
  <2> QED
    BY <1>1, <1>2, NumberInduction
<1> QED
  BY <1>3

LEMMA FilteredIs == \E of : Loop(of, Len(order)) /\ Filtered = of[Len(order)]
<1> DEFINE loop == CHOOSE of : Loop(of, Len(order))
<1>1. Loop(loop, Len(order))
  BY LoopExists
<1>2. Filtered = loop[Len(order)]
  BY DEF Filtered, Loop, Entry
<1> QED
  BY <1>1, <1>2

\* Rows of the listing after n entries: those of them that have a record, newest first.
Rows(rows, n) ==
    /\ rows \in Seq(Ids)
    /\ \A r \in 1..Len(rows) : \E m \in 1..n : rows[r] = Entry(m) /\ records[Entry(m)] # None
    /\ \A m \in 1..n : records[Entry(m)] # None => \E r \in 1..Len(rows) : rows[r] = Entry(m)
    /\ \A r, later \in 1..Len(rows) :
          r < later => records[rows[later]].created < records[rows[r]].created

LEMMA RowsStep ==
  ASSUME TypeOK, Ascending(order, records), NEW n \in 1..Len(order), NEW rows, Rows(rows, n - 1)
  PROVE  Rows(IF records[Entry(n)] # None THEN Append(rows, Entry(n)) ELSE rows, n)
<1>1. /\ order \in Seq(Ids) /\ Len(order) \in Nat /\ DOMAIN order = 1..Len(order)
      /\ rows \in Seq(Ids) /\ Len(rows) \in Nat
  BY DEF TypeOK, Rows
<1>2. \A m \in 1..n : m \in 1..(n - 1) \/ m = n
  OBVIOUS
<1>3. \A m \in 1..(n - 1) : m \in 1..n /\ m < n
  OBVIOUS
<1>4. Entry(n) \in Ids
  <2>1. Len(order) + 1 - n \in 1..Len(order)
    BY <1>1
  <2> QED
    BY <1>1, <2>1 DEF Entry
<1>5. CASE records[Entry(n)] = None
  BY <1>2, <1>3, <1>5 DEF Rows
<1>6. CASE records[Entry(n)] # None
  <2> DEFINE more == Append(rows, Entry(n))
  <2>1. /\ more \in Seq(Ids) /\ Len(more) = Len(rows) + 1
        /\ \A r \in 1..Len(rows) : more[r] = rows[r]
        /\ more[Len(rows) + 1] = Entry(n)
    BY <1>1, <1>4, AppendProperties
  <2>2. \A r \in 1..Len(more) : r \in 1..Len(rows) \/ r = Len(rows) + 1
    BY <1>1, <2>1
  <2>3. 1..Len(rows) \subseteq 1..Len(more) /\ Len(rows) + 1 \in 1..Len(more) /\ n \in 1..n
    BY <1>1, <2>1
  <2> HIDE DEF more
  <2>4. \A r \in 1..Len(more) : \E m \in 1..n : more[r] = Entry(m) /\ records[Entry(m)] # None
    <3> TAKE r \in 1..Len(more)
    <3>1. CASE r \in 1..Len(rows)
      <4>1. PICK m \in 1..(n - 1) : rows[r] = Entry(m) /\ records[Entry(m)] # None
        BY <3>1 DEF Rows
      <4> QED
        BY <1>3, <2>1, <3>1, <4>1
    <3>2. CASE r = Len(rows) + 1
      BY <1>6, <2>1, <2>3, <3>2
    <3> QED
      BY <2>2, <3>1, <3>2
  <2>5. \A m \in 1..n : records[Entry(m)] # None => \E r \in 1..Len(more) : more[r] = Entry(m)
    BY <1>2, <2>1, <2>3 DEF Rows
  <2>6. ASSUME NEW r \in 1..Len(rows)
        PROVE  records[Entry(n)].created < records[rows[r]].created
    <3>1. PICK m \in 1..(n - 1) : rows[r] = Entry(m) /\ records[Entry(m)] # None
      BY DEF Rows
    <3>2. /\ Len(order) + 1 - n \in DOMAIN order /\ Len(order) + 1 - m \in DOMAIN order
          /\ Len(order) + 1 - n < Len(order) + 1 - m
      BY <1>1, <1>3, <3>1
    <3> QED
      BY <1>6, <3>1, <3>2 DEF Ascending, Entry
  <2>7. \A r, later \in 1..Len(more) :
           r < later => records[more[later]].created < records[more[r]].created
    <3> SUFFICES ASSUME NEW r \in 1..Len(more), NEW later \in 1..Len(more), r < later
                 PROVE  records[more[later]].created < records[more[r]].created
      OBVIOUS
    <3>1. r \in 1..Len(rows)
      BY <1>1, <2>1, <2>2
    <3>2. CASE later \in 1..Len(rows)
      BY <2>1, <3>1, <3>2 DEF Rows
    <3>3. CASE later = Len(rows) + 1
      BY <2>1, <2>6, <3>1, <3>3
    <3> QED
      BY <2>2, <3>2, <3>3
  <2> QED
    BY <1>6, <2>1, <2>4, <2>5, <2>7 DEF Rows, more
<1> QED
  BY <1>5, <1>6

LEMMA FilteredRows ==
  ASSUME TypeOK, Ascending(order, records)
  PROVE  Rows(Filtered, Len(order))
<1>1. PICK of : Loop(of, Len(order)) /\ Filtered = of[Len(order)]
  BY FilteredIs
<1>2. Len(order) \in Nat
  BY DEF TypeOK
<1> DEFINE Reached == {n \in Nat : n <= Len(order) => Rows(of[n], n)}
<1>3. 0 \in Reached
  <2>1. of[0] = <<>>
    BY <1>1, <1>2 DEF Loop
  <2>2. <<>> \in Seq(Ids) /\ Len(<<>>) = 0
    BY EmptySeq
  <2>3. 1..0 = {}
    OBVIOUS
  <2> QED
    BY <2>1, <2>2, <2>3 DEF Rows
<1>4. ASSUME NEW n \in Nat, n \in Reached PROVE n + 1 \in Reached
  <2> SUFFICES ASSUME n + 1 <= Len(order) PROVE Rows(of[n + 1], n + 1)
    OBVIOUS
  <2>1. Rows(of[n], n) /\ (n + 1) - 1 = n /\ n + 1 \in 1..Len(order) /\ n + 1 \in 0..Len(order)
    BY <1>2, <1>4
  <2>2. of[n + 1] = IF records[Entry(n + 1)] # None THEN Append(of[n], Entry(n + 1)) ELSE of[n]
    <3>1. n + 1 # 0
      OBVIOUS
    <3>2. of[n + 1] = IF n + 1 = 0 THEN <<>>
                      ELSE IF records[Entry(n + 1)] # None
                           THEN Append(of[(n + 1) - 1], Entry(n + 1)) ELSE of[(n + 1) - 1]
      BY <1>1, <2>1 DEF Loop
    <3> QED
      BY <2>1, <3>1, <3>2
  <2>3. Rows(of[n], (n + 1) - 1)
    BY <2>1
  <2> QED
    BY <2>1, <2>2, <2>3, RowsStep
<1>5. Nat \subseteq Reached
  <2> HIDE DEF Reached
  <2> QED
    BY <1>3, <1>4, NumberInduction
<1> QED
  BY <1>1, <1>2, <1>5

LEMMA EachHasRow ==
  ASSUME TypeInv, Ascending(order, records), NEW id \in Ids, records[id] # None
  PROVE  \E k \in 1..Len(Filtered) : Filtered[k] = id
<1>1. Rows(Filtered, Len(order))
  BY FilteredRows DEF TypeInv
<1>2. PICK i \in DOMAIN order : order[i] = id
  BY DEF TypeInv, ListsEveryRecord
<1>3. Len(order) \in Nat /\ i \in 1..Len(order)
  BY DEF TypeInv, TypeOK
<1> DEFINE m == Len(order) + 1 - i
<1>4. m \in 1..Len(order) /\ Len(order) + 1 - m = i
  BY <1>3
<1>5. Entry(m) = id
  BY <1>2, <1>4 DEF Entry
<1> HIDE DEF m
<1> QED
  BY <1>1, <1>4, <1>5 DEF Rows

\* The row of a transcript is the number of those that are not older.
LEMMA RowIs ==
  ASSUME TypeInv, Ascending(order, records), NEW k \in 1..Len(Filtered)
  PROVE  /\ Filtered[k] \in Ids /\ records[Filtered[k]] # None
         /\ Cardinality(NotOlder(Filtered[k])) = k
<1> DEFINE f == Filtered
<1>1. Rows(f, Len(order))
  BY FilteredRows DEF TypeInv
<1>2. f \in Seq(Ids) /\ Len(f) \in Nat
  BY <1>1 DEF Rows
<1> HIDE DEF f
<1>3. \A l \in 1..Len(f) : /\ f[l] \in Ids /\ records[f[l]] # None
                           /\ records[f[l]].created \in Nat
  <2> TAKE l \in 1..Len(f)
  <2>1. f[l] \in Ids /\ records[f[l]] # None
    BY <1>1, <1>2 DEF Rows
  <2>2. records[f[l]] \in Record
    BY <2>1 DEF TypeInv, TypeOK, Values
  <2> QED
    BY <2>1, <2>2, RegistryAssumption DEF Record
<1>4. \A id \in Ids : records[id] # None => \E l \in 1..Len(f) : f[l] = id
  BY EachHasRow DEF f
<1>5. k \in 1..Len(f) /\ \A l \in 1..k : l \in 1..Len(f)
  BY <1>2 DEF f
<1> DEFINE S == NotOlder(f[k])
           g == [l \in 1..k |-> f[l]]
<1>6. \A l \in 1..k : f[l] \in S
  <2> TAKE l \in 1..k
  <2>1. l < k => records[f[k]].created < records[f[l]].created
    BY <1>1, <1>5 DEF Rows
  <2>2. records[f[l]].created >= records[f[k]].created
    BY <1>3, <1>5, <2>1
  <2> QED
    BY <1>3, <1>5, <2>2 DEF NotOlder
<1>7. ASSUME NEW other \in S PROVE \E l \in 1..k : f[l] = other
  <2>1. /\ other \in Ids /\ records[other] # None
        /\ records[other].created >= records[f[k]].created
    BY <1>7 DEF NotOlder
  <2>2. PICK l \in 1..Len(f) : f[l] = other
    BY <1>4, <2>1
  <2>3. k < l => records[f[l]].created < records[f[k]].created
    BY <1>1, <1>5, <2>2 DEF Rows
  <2>4. l <= k
    BY <1>3, <1>5, <2>1, <2>2, <2>3
  <2>5. l \in 1..k
    BY <1>5, <2>2, <2>4
  <2> QED
    BY <2>2, <2>5
<1>8. \A l, m \in 1..k : f[l] = f[m] => l = m
  <2> TAKE l, m \in 1..k
  <2>1. /\ l < m => records[f[m]].created < records[f[l]].created
        /\ m < l => records[f[l]].created < records[f[m]].created
    BY <1>1, <1>5 DEF Rows
  <2>2. records[f[l]].created \in Nat /\ records[f[m]].created \in Nat
    BY <1>3, <1>5
  <2> QED
    BY <2>1, <2>2
<1> HIDE DEF S
<1>9. g \in Bijection(1..k, S)
  <2>1. g \in [1..k -> S]
    BY <1>6
  <2>2. \A l, m \in 1..k : g[l] = g[m] => l = m
    BY <1>8
  <2>3. \A other \in S : \E l \in 1..k : g[l] = other
    BY <1>7
  <2> HIDE DEF g
  <2> QED
    BY <2>1, <2>2, <2>3 DEF Bijection, Injection, Surjection, IsInjective
<1>10. Cardinality(S) = k
  <2>1. ExistsBijection(1..k, S) /\ k \in Nat
    BY <1>9 DEF ExistsBijection
  <2> HIDE DEF g
  <2> QED
    BY <2>1, FS_CountingElements
<1> QED
  BY <1>3, <1>5, <1>10 DEF S, f

\* A page is the part of the listing that starts where the pages before it end.
LEMMA PageRows ==
  ASSUME NEW f \in Seq(Ids), Filtered = f, NEW page \in Nat \ {0}, NEW limit \in 1..100,
         NEW row \in 1..limit
  PROVE  /\ row \in DOMAIN List(page, limit) <=> (page - 1) * limit + row <= Len(f)
         /\ row \in DOMAIN List(page, limit) =>
               List(page, limit)[row] = f[(page - 1) * limit + row]
<1> DEFINE before == (page - 1) * limit
           start  == Within(before, Len(f))
           last   == Within(start + limit, Len(f))
           shown  == SubSeq(f, start + 1, last)
<1>1. before \in Nat /\ Len(f) \in Nat /\ limit \in Nat /\ row \in Nat
  OBVIOUS
<1>2. List(page, limit) = shown
  <2>1. ~ (limit < 1) /\ Within(limit, 100) = limit /\ ~ (page < 1)
    BY DEF Within
  <2> QED
    BY <2>1 DEF List
<1> HIDE DEF before
<1>3. /\ start \in 0..Len(f) /\ last \in start..Len(f)
      /\ before + row <= Len(f) => start = before
      /\ row <= last - start <=> before + row <= Len(f)
  BY <1>1 DEF Within
<1> HIDE DEF start, last
<1>4. \A i \in (start + 1)..last : f[i] \in Ids
  BY <1>1, <1>3
<1>5. /\ shown \in Seq(Ids)
      /\ Len(shown) = IF start + 1 <= last THEN last - (start + 1) + 1 ELSE 0
      /\ \A i \in 1..(last - (start + 1) + 1) : shown[i] = f[(start + 1) + i - 1]
  BY <1>1, <1>3, <1>4, SubSeqProperties
<1>6. last - (start + 1) + 1 = last - start /\ (start + 1) + row - 1 = start + row
  BY <1>1, <1>3
<1> HIDE DEF shown
<1>7. row \in DOMAIN shown <=> row <= last - start
  BY <1>1, <1>3, <1>5
<1>8. row \in DOMAIN shown => shown[row] = f[start + row]
  BY <1>1, <1>3, <1>5, <1>6, <1>7
<1> QED
  BY <1>2, <1>3, <1>7, <1>8 DEF before

LEMMA ListedByCreation == TypeInv /\ ListInv => PagesInOrder
<1> SUFFICES ASSUME TypeInv, ListInv,
                    NEW page \in 1..Cardinality(Ids),
                    NEW limit \in 1..Within(Cardinality(Ids), 100),
                    NEW row \in 1..limit, NEW id \in Ids
             PROVE  (row \in DOMAIN List(page, limit) /\ List(page, limit)[row] = id)
                    <=> /\ records[id] # None
                        /\ (page - 1) * limit + row = Cardinality(NotOlder(id))
  BY DEF PagesInOrder
<1>1. page \in Nat \ {0} /\ limit \in 1..100 /\ limit \in Nat /\ row \in Nat
  <2>1. Cardinality(Ids) \in Nat
    BY RegistryAssumption, FS_CardinalityType
  <2> QED
    BY <2>1 DEF Within
<1>2. Ascending(order, records)
  BY DEF ListInv
<1> DEFINE f == Filtered
           at == (page - 1) * limit + row
<1>3. f \in Seq(Ids) /\ Len(f) \in Nat
  BY <1>2, FilteredRows DEF TypeInv, Rows
<1>4. /\ row \in DOMAIN List(page, limit) <=> at <= Len(f)
      /\ row \in DOMAIN List(page, limit) => List(page, limit)[row] = f[at]
  BY <1>1, <1>3, PageRows
<1>5. at \in Nat \ {0}
  <2>1. (page - 1) * limit \in Nat
    BY <1>1
  <2>2. row \in Nat \ {0}
    BY <1>1
  <2> QED
    BY <2>1, <2>2
<1>6. \A k \in 1..Len(f) : /\ records[f[k]] # None
                           /\ Cardinality(NotOlder(f[k])) = k
  BY <1>2, RowIs
<1>7. records[id] # None => \E k \in 1..Len(f) : f[k] = id
  BY <1>2, EachHasRow
<1> HIDE DEF f, at
<1>8. ASSUME row \in DOMAIN List(page, limit), List(page, limit)[row] = id
      PROVE  records[id] # None /\ at = Cardinality(NotOlder(id))
  <2>1. at \in 1..Len(f) /\ f[at] = id
    BY <1>3, <1>4, <1>5, <1>8
  <2> QED
    BY <1>6, <2>1
<1>9. ASSUME records[id] # None, at = Cardinality(NotOlder(id))
      PROVE  row \in DOMAIN List(page, limit) /\ List(page, limit)[row] = id
  <2>1. PICK k \in 1..Len(f) : f[k] = id
    BY <1>7, <1>9
  <2>2. at = k
    BY <1>6, <1>9, <2>1
  <2> QED
    BY <1>3, <1>4, <2>1, <2>2
<1> QED
  BY <1>8, <1>9 DEF at

\* For all IDs and any number of writes, if no write is cut short: as long as no append has
\* failed after its line was written, a page of List shows each transcript on the row that
\* its creation gives it, before and after any restart, power failure or compaction.
THEOREM AlwaysListedInOrder == ASSUME NoTorn PROVE HistorySpec => []ListedInOrder
<1> DEFINE Inv == /\ TypeInv /\ RecoveryInv /\ BundleInv
                  /\ refused \in BOOLEAN /\ (refused = FALSE => ListInv)
<1>1. HistoryInit => Inv
  BY TypeInit, RecoveryInit, BundleInit, ListInit DEF HistoryInit
<1>2. Inv /\ [HistoryNext]_<<vars, refused, unsettled>> => Inv'
  <2> SUFFICES ASSUME Inv, [HistoryNext]_<<vars, refused, unsettled>> PROVE Inv'
    OBVIOUS
  <2>1. [Next]_vars /\ refused' \in BOOLEAN
    BY DEF HistoryNext, Next
  <2>2. TypeInv' /\ RecoveryInv' /\ BundleInv'
    BY <2>1, TypeNext, RecoveryNext, BundleNext
  <2>3. ASSUME refused' = FALSE PROVE ListInv'
    <3>1. CASE UNCHANGED <<vars, refused, unsettled>>
      <4>1. refused = FALSE
        BY <2>3, <3>1
      <4>2. ~ SyncFails /\ ~ CloseFails
        <5>1. op' = op
          BY <3>1 DEF vars
        <5> QED
          BY <5>1 DEF SyncFails, CloseFails, ReturnError, Free
      <4> QED
        BY <2>1, <4>1, <4>2, ListNext
    <3>2. CASE HistoryNext
      <4>1. refused = FALSE /\ ~ SyncFails /\ ~ CloseFails
        BY <2>3, <3>2 DEF HistoryNext
      <4> QED
        BY <2>1, <4>1, ListNext
    <3> QED
      BY <3>1, <3>2
  <2> QED
    BY <2>1, <2>2, <2>3
<1>3. Inv => ListedInOrder
  BY ListedByCreation DEF ListedInOrder
<1> QED
  BY <1>1, <1>2, <1>3, PTL DEF HistorySpec
===============================================================================

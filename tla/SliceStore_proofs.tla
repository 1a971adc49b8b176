-------------------------- MODULE SliceStore_proofs -------------------------
(***************************************************************************)
(* Proofs about SliceStore, for every set of slices, payloads and deltas,  *)
(* every threshold, every bound and every choice of failures; the          *)
(* refinement at the end, for the failures the code handles.               *)
(***************************************************************************)
EXTENDS SliceStore, SliceRecords_proofs, FiniteSetTheorems

-----------------------------------------------------------------------------
(***************************************************************************)
(* The shapes of what is written to the journal.                           *)
(***************************************************************************)

\* The constructor builds a journal.
LEMMA JournalType ==
  ASSUME NEW g \in Nat, NEW ls \in Seq(Lines), NEW o \in BOOLEAN, NEW s \in Nat,
         s <= Len(ls), o => ls # <<>>
  PROVE  Journal(g, ls, o, s) \in Journals
BY DEF Journal, Journals

\* What the parts of a journal are.
LEMMA JournalFields ==
  ASSUME NEW j \in Journals
  PROVE  /\ j.gen \in Nat /\ j.lines \in Seq(Lines) /\ j.open \in BOOLEAN /\ j.synced \in Nat
         /\ j.synced <= Len(j.lines)
         /\ j.open => Len(j.lines) > 0
BY DEF Journals

\* A header without records is a journal.
LEMMA FreshType == \A g \in Nat : Fresh(g) \in Journals
BY DEF Fresh, Journals, Journal

\* An fsync changes nothing but how much is durable.
LEMMA SyncedType ==
  ASSUME NEW j \in Journals
  PROVE  /\ Synced(j) \in Journals
         /\ Synced(j).gen = j.gen /\ Synced(j).lines = j.lines /\ Synced(j).open = j.open
BY DEF Synced, Journals, Journal

\* An append keeps the header and shortens nothing; on a terminated line it
\* adds exactly the records handed to it.
LEMMA WrittenType ==
  ASSUME NEW j \in Journals, NEW ls \in Seq(Lines)
  PROVE  /\ Written(j, ls) \in Journals
         /\ Written(j, ls).gen = j.gen
         /\ Len(Written(j, ls).lines) >= Len(j.lines)
         /\ ls # <<>> => Written(j, ls).lines # <<>>
         /\ ~j.open => Written(j, ls).lines = j.lines \o ls
<1>1. CASE ls = <<>>
  <2>1. Written(j, ls) = j
    BY <1>1 DEF Written
  <2>2. j.lines \o ls = j.lines
    BY <1>1, JournalFields
  <2> QED BY <1>1, <2>1, <2>2, JournalFields
<1>2. CASE ls # <<>>
  <2> DEFINE new == IF j.open
                    THEN SubSeq(j.lines, 1, Len(j.lines) - 1) \o <<Garbage>> \o Tail(ls)
                    ELSE j.lines \o ls
  <2>1. Written(j, ls) = Journal(j.gen, new, FALSE, j.synced)
    BY <1>2 DEF Written
  <2>2. new \in Seq(Lines) /\ Len(new) >= Len(j.lines) /\ Len(new) > 0
    <3>0. Len(ls) > 0 /\ Len(ls) \in Nat /\ Len(j.lines) \in Nat
      BY <1>2, JournalFields
    <3>1. CASE ~j.open
      BY <3>0, <3>1, JournalFields
    <3>2. CASE j.open
      <4> DEFINE f == SubSeq(j.lines, 1, Len(j.lines) - 1)
                 t == Tail(ls)
      <4>1. f \in Seq(Lines) /\ Len(f) = Len(j.lines) - 1
        BY <3>0, <3>2, JournalFields
      <4>2. t \in Seq(Lines) /\ Len(t) = Len(ls) - 1
        BY <3>0
      <4>3. <<Garbage>> \in Seq(Lines)
        BY DEF Lines
      <4>4. new = f \o <<Garbage>> \o t
        BY <3>2
      <4> HIDE DEF f, t, new
      <4> QED BY <3>0, <3>2, <4>1, <4>2, <4>3, <4>4
    <3> QED BY <3>1, <3>2, JournalFields
  <2>3. ~j.open => new = j.lines \o ls
    OBVIOUS
  <2> HIDE DEF new
  <2>4. Journal(j.gen, new, FALSE, j.synced) \in Journals
    <3>1. j.gen \in Nat /\ j.synced \in Nat /\ j.synced <= Len(j.lines) /\ Len(j.lines) \in Nat
      BY JournalFields
    <3>2. j.synced <= Len(new)
      BY <2>2, <3>1
    <3> QED BY <2>2, <3>1, <3>2 DEF Journal, Journals
  <2> QED BY <2>1, <2>2, <2>3, <2>4 DEF Journal
<1> QED BY <1>1, <1>2

\* A torn append keeps the header.
LEMMA TornType ==
  ASSUME NEW j \in Journals, NEW ls \in Seq(Lines), NEW rec \in Lines,
         NEW t \in Torn(j, ls, rec)
  PROVE  t \in Journals /\ t.gen = j.gen
<1>1. PICK line \in {Garbage, rec} :
        t = Journal(j.gen, Written(j, Append(ls, line)).lines, TRUE, j.synced)
  BY DEF Torn
<1>2. Append(ls, line) \in Seq(Lines) /\ Append(ls, line) # <<>>
  BY DEF Lines
<1> DEFINE w == Written(j, Append(ls, line))
<1>3. w \in Journals /\ w.lines # <<>> /\ Len(w.lines) >= Len(j.lines)
  BY <1>2, WrittenType
<1> HIDE DEF w
<1>4. w.lines \in Seq(Lines) /\ j.synced <= Len(w.lines)
  BY <1>3, JournalFields
<1>5. t = Journal(j.gen, w.lines, TRUE, j.synced)
  BY <1>1 DEF w
<1>6. t \in Journals
  BY <1>3, <1>4, <1>5, JournalFields, JournalType
<1> QED BY <1>5, <1>6 DEF Journal

\* So does an interrupted flush, however far it came.
LEMMA PartlyWrittenType ==
  ASSUME jrnl \in Journals, NEW ls \in Seq(Lines), NEW j \in PartlyWritten(ls)
  PROVE  j \in Journals /\ j.gen = jrnl.gen
<1>0. \A k \in 0 .. Len(ls) : SubSeq(ls, 1, k) \in Seq(Lines)
  OBVIOUS
<1>1. CASE \E k \in 0 .. Len(ls) : j = Written(jrnl, SubSeq(ls, 1, k))
  BY <1>0, <1>1, WrittenType
<1>2. CASE \E k \in 1 .. Len(ls) : j \in Torn(jrnl, SubSeq(ls, 1, k - 1), ls[k])
  <2>1. PICK k \in 1 .. Len(ls) : j \in Torn(jrnl, SubSeq(ls, 1, k - 1), ls[k])
    BY <1>2
  <2>2. SubSeq(ls, 1, k - 1) \in Seq(Lines) /\ ls[k] \in Lines
    BY <1>0, <2>1
  <2> QED BY <2>1, <2>2, TornType
<1> QED BY <1>1, <1>2 DEF PartlyWritten

\* So does a loss of power, whatever it takes.
LEMMA TruncatedType ==
  ASSUME NEW j \in Journals, NEW t \in Truncated(j)
  PROVE  t \in Journals /\ t.gen = j.gen
<1>0. j.lines \in Seq(Lines) /\ j.synced \in Nat /\ j.gen \in Nat /\ j.open \in BOOLEAN
      /\ Len(j.lines) \in Nat
  BY JournalFields
<1>1. \A k \in 0 .. Len(j.lines) : /\ SubSeq(j.lines, 1, k) \in Seq(Lines)
                                   /\ Len(SubSeq(j.lines, 1, k)) = k
  BY <1>0
<1>2. CASE \E k \in j.synced .. Len(j.lines) :
             t = Journal(j.gen, SubSeq(j.lines, 1, k), j.open /\ k = Len(j.lines), j.synced)
  <2>1. PICK k \in j.synced .. Len(j.lines) :
             t = Journal(j.gen, SubSeq(j.lines, 1, k), j.open /\ k = Len(j.lines), j.synced)
    BY <1>2
  <2> DEFINE ls == SubSeq(j.lines, 1, k)
             o  == j.open /\ k = Len(j.lines)
  <2>2. ls \in Seq(Lines) /\ Len(ls) = k /\ j.synced <= Len(ls)
    BY <1>0, <1>1, <2>1
  <2>3. o \in BOOLEAN /\ (o => ls # <<>>)
    <3>1. o => Len(ls) > 0
      BY <2>2, JournalFields
    <3> QED BY <3>1
  <2>4. t = Journal(j.gen, ls, o, j.synced)
    BY <2>1
  <2> HIDE DEF ls, o
  <2>5. t \in Journals
    BY <1>0, <2>2, <2>3, <2>4, JournalType
  <2> QED BY <2>4, <2>5 DEF Journal
<1>3. CASE \E k \in j.synced + 1 .. Len(j.lines) :
             t \in Torn(Journal(j.gen, SubSeq(j.lines, 1, k - 1), FALSE, j.synced),
                        <<>>, j.lines[k])
  <2>1. PICK k \in j.synced + 1 .. Len(j.lines) :
             t \in Torn(Journal(j.gen, SubSeq(j.lines, 1, k - 1), FALSE, j.synced),
                        <<>>, j.lines[k])
    BY <1>3
  <2> DEFINE u == Journal(j.gen, SubSeq(j.lines, 1, k - 1), FALSE, j.synced)
  <2>2. k - 1 \in 0 .. Len(j.lines) /\ j.synced <= k - 1 /\ j.lines[k] \in Lines
    BY <1>0, <2>1
  <2>3. u \in Journals
    BY <1>0, <1>1, <2>2, JournalType
  <2>4. u.gen = j.gen
    BY DEF Journal
  <2> DEFINE none == <<>>
             rec  == j.lines[k]
  <2>5. none \in Seq(Lines) /\ rec \in Lines
    BY <2>2
  <2>6. t \in Torn(u, none, rec)
    BY <2>1
  <2> HIDE DEF u, none, rec
  <2>7. t \in Journals /\ t.gen = u.gen
    BY <2>3, <2>5, <2>6, TornType
  <2> QED BY <2>4, <2>7
<1> QED BY <1>2, <1>3 DEF Truncated

-----------------------------------------------------------------------------
(***************************************************************************)
(* The records the mutations write.                                        *)
(***************************************************************************)

\* What Put journals is a record of an admitted slice.
LEMMA PutRecType ==
  ASSUME NEW id \in Ids, NEW p \in Payloads
  PROVE  PutRec(id, NewEntry(EnforceAdmission(p))) \in Recs
<1>1. p \in [type : SliceTypes, scope : Scopes]
  BY RecordsAssumption
<1>2. EnforceAdmission(p) \in Admitted
  BY <1>1 DEF EnforceAdmission, Admitted, SliceTypes, Scopes
<1> DEFINE q == EnforceAdmission(p)
<1> HIDE DEF q
<1>3. NewEntry(q) \in Entries
  BY <1>2 DEF NewEntry, Entries, q
<1> DEFINE e == NewEntry(q)
<1> HIDE DEF e
<1>4. PutRec(id, e) \in Recs
  BY <1>3 DEF PutRec, Recs, PutRecs, e
<1> QED BY <1>4 DEF e, q

\* Records of the other two kinds are records.
LEMMA OtherRecTypes ==
  ASSUME NEW id \in Ids
  PROVE  DelRec(id) \in Recs /\ \A d \in Deltas : StatRec(id, d) \in Recs
BY DEF DelRec, StatRec, Recs, DelRecs, StatRecs

\* A set of slices has a number of elements.
LEMMA IdsCardinality ==
  ASSUME NEW ids \in SUBSET Ids
  PROVE  Cardinality(ids) \in Nat
BY FS_Subset, FS_CardinalityType, StoreAssumption

\* Sequences of records are sequences of lines.
LEMMA RecsAreLines == ASSUME NEW s \in Seq(Recs) PROVE s \in Seq(Lines)
BY DEF Lines

\* What an open loads has the shape of a store's content.
LEMMA RecoveredType ==
  ASSUME TypeOK
  PROVE  Bound(base, jrnl) \in Seq(Lines) /\ Recovered \in States
<1>1. Bound(base, jrnl) \in Seq(Lines)
  BY JournalFields DEF TypeOK, Bound
<1>2. base.m \in States
  BY DEF TypeOK
<1> QED BY <1>1, <1>2, ReplayType DEF Recovered

\* The empty store is a store.
LEMMA EmptyType == Empty \in States
BY DEF Empty, States

\* A mutation of one record writes a sequence of records.
LEMMA OneRec == ASSUME NEW r \in Recs PROVE <<r>> \in Seq(Recs)
OBVIOUS

\* A mutation's first step keeps the types.
LEMMA BeginWriteType ==
  ASSUME TypeOK, NEW recs \in Seq(Recs), BeginWrite(recs)
  PROVE  TypeOK'
BY FreshType DEF TypeOK, BeginWrite, ensureJournal

\* So does the death of a process, whatever it leaves in the journal.
LEMMA GoneType ==
  ASSUME TypeOK, Gone, jrnl' \in Journals, prune' \subseteq Ids, unsafe' \in BOOLEAN,
         UNCHANGED <<base, archive>>
  PROVE  TypeOK'
<1>1. pend' \in Seq(Recs) /\ limbo' \subseteq Ids
  BY DEF Gone
<1> QED BY <1>1, EmptyType DEF TypeOK, Gone

\* Every step keeps the types.
LEMMA TypeStep == TypeOK /\ [Next]_vars => TypeOK'
<1> SUFFICES ASSUME TypeOK, [Next]_vars PROVE TypeOK'
  OBVIOUS
<1> USE DEF TypeOK
<1>e. Empty \in States
  BY EmptyType
<1>1. CASE Open
  <2>1. Len(Bound(base, jrnl)) \in Nat
    BY RecoveredType
  <2> QED BY <1>1, <2>1, RecoveredType, FreshType DEF Open, NoJournal
<1>2. ASSUME NEW id \in Ids, NEW p \in Payloads, Put(id, p) PROVE TypeOK'
  BY <1>2, PutRecType, OneRec, BeginWriteType DEF Put
<1>3. ASSUME NEW id \in Ids, Delete(id) PROVE TypeOK'
  BY <1>3, OtherRecTypes, OneRec, BeginWriteType DEF Delete
<1>4. ASSUME NEW id \in Ids, NEW d \in Deltas, UpdateStats(id, d) PROVE TypeOK'
  BY <1>4, OtherRecTypes, OneRec, BeginWriteType DEF UpdateStats
<1>5. ASSUME NEW ids \in SUBSET Ids, NEW d \in [Ids -> Deltas], UpdateStatsBatch(ids, d)
      PROVE  TypeOK'
  <2>1. PICK order \in [1 .. Cardinality(ids) -> ids] :
          BeginWrite([i \in 1 .. Cardinality(ids) |-> StatRec(order[i], d[order[i]])])
    BY <1>5 DEF UpdateStatsBatch
  <2> DEFINE recs == [i \in 1 .. Cardinality(ids) |-> StatRec(order[i], d[order[i]])]
  <2>2. \A i \in 1 .. Cardinality(ids) : StatRec(order[i], d[order[i]]) \in Recs
    BY OtherRecTypes
  <2>3. recs \in Seq(Recs)
    BY <2>2, IdsCardinality
  <2>4. BeginWrite(recs)
    BY <2>1
  <2> HIDE DEF recs
  <2> QED BY <2>3, <2>4, BeginWriteType
<1>6. CASE Flush
  <2>1. pend \in Seq(Lines) /\ Len(pend) \in Nat
    BY RecsAreLines
  <2>2. Written(jrnl, pend) \in Journals
    BY <2>1, WrittenType
  <2> QED BY <1>6, <2>1, <2>2, JournalFields DEF Flush
<1>7. CASE FlushFails
  <2>1. jrnl' \in Journals
    BY <1>7, RecsAreLines, PartlyWrittenType DEF FlushFails
  <2> QED BY <1>7, <2>1, JournalFields DEF FlushFails
<1>8. CASE FinishWrite
  <2>1. Replay(mem, pend) \in States
    BY RecsAreLines, ReplayType
  <2>2. Synced(jrnl) \in Journals
    BY SyncedType
  <2> QED BY <1>8, <1>e, <2>1, <2>2 DEF FinishWrite
<1>9. CASE SyncFails
  BY <1>9 DEF SyncFails, disk
<1>10. CASE Close
  <2>1. jrnl' \in Journals
    BY <1>10, SyncedType DEF Close
  <2> QED BY <1>10, <2>1, GoneType DEF Close
<1>11. CASE Compact
  BY <1>11 DEF Compact, BeginFold
<1>12. ASSUME NEW evict \in SUBSET Live(mem), GC(evict) PROVE TypeOK'
  <2>1. Drop(mem, evict) \in States
    BY DEF Drop, States
  <2>2. archive' \subseteq Ids \X Entries
    BY <1>12 DEF GC, Live, States
  <2> QED BY <1>12, <2>1, <2>2 DEF GC, BeginFold
<1>13. CASE FoldRename
  <2>1. base' \in [gen : Nat \ {0}, m : States]
    BY <1>13 DEF FoldRename
  <2>2. limbo' \subseteq Ids
    BY <1>13 DEF FoldRename
  <2> QED BY <1>13, <2>1, <2>2 DEF FoldRename
<1>14. CASE FoldRenameFails
  BY <1>14, <1>e DEF FoldRenameFails, EndFold
<1>15. CASE FoldReopenFails
  BY <1>15, <1>e DEF FoldReopenFails, EndFold
<1>16. CASE FoldRemove
  BY <1>16, FreshType DEF FoldRemove, NoJournal
<1>17. CASE FoldStatFails
  BY <1>17, <1>e DEF FoldStatFails, EndFold
<1>18. CASE FoldRemoveFails
  BY <1>18, <1>e DEF FoldRemoveFails, EndFold
<1>19. CASE FoldHeader
  BY <1>19, <1>e, FreshType DEF FoldHeader, EndFold, ensureJournal
<1>20. CASE FoldHeaderFails
  BY <1>20, <1>e, FreshType DEF FoldHeaderFails, EndFold
<1>21. ASSUME NEW ids \in SUBSET Ids, PruneArchive(ids) PROVE TypeOK'
  <2>1. archive' \subseteq Ids \X Entries
    BY <1>21, RecoveredType DEF PruneArchive, Live, States
  <2> QED BY <1>21, <2>1 DEF PruneArchive, handle
<1>22. CASE PruneCommit
  <2>1. PICK order \in [1 .. Cardinality(prune) -> prune] :
          jrnl' = LET ls == jrnl.lines \o [i \in 1 .. Cardinality(prune) |-> DelRec(order[i])]
                  IN  Journal(base.gen, ls, FALSE, Len(ls))
    BY <1>22 DEF PruneCommit
  <2> DEFINE dels == [i \in 1 .. Cardinality(prune) |-> DelRec(order[i])]
             ls   == jrnl.lines \o dels
  <2>2. dels \in Seq(Lines)
    <3>1. \A i \in 1 .. Cardinality(prune) : DelRec(order[i]) \in Lines
      BY OtherRecTypes DEF Lines
    <3> QED BY <3>1, IdsCardinality
  <2>3. jrnl' = Journal(base.gen, ls, FALSE, Len(ls))
    BY <2>1
  <2> HIDE DEF dels
  <2>4. ls \in Seq(Lines) /\ Len(ls) \in Nat
    BY <2>2, JournalFields
  <2> HIDE DEF ls
  <2>5. jrnl' \in Journals
    BY <2>3, <2>4 DEF Journal, Journals
  <2> QED BY <1>22, <2>5 DEF PruneCommit, handle
<1>23. CASE PruneAbort
  BY <1>23 DEF PruneAbort, disk, handle
<1>24. CASE Crash
  <2>1. jrnl' \in Journals
    BY <1>24, RecsAreLines, PartlyWrittenType DEF Crash
  <2>2. unsafe' \in BOOLEAN
    BY <1>24, JournalFields DEF Crash
  <2> QED BY <1>24, <2>1, <2>2, GoneType DEF Crash
<1>25. CASE PowerLoss
  <2>1. jrnl' \in Journals
    BY <1>25, TruncatedType DEF PowerLoss
  <2> QED BY <1>25, <2>1, GoneType DEF PowerLoss
<1>26. CASE ensureJournalFails
  BY <1>26, FreshType DEF ensureJournalFails, handle
<1>27. CASE FoldCloseFails
  BY <1>27, <1>e DEF FoldCloseFails, disk
<1>28. CASE UNCHANGED vars
  BY <1>28 DEF vars, disk, handle
<1> QED BY <1>1, <1>2, <1>3, <1>4, <1>5, <1>6, <1>7, <1>8, <1>9, <1>10, <1>11, <1>12, <1>13,
           <1>14, <1>15, <1>16, <1>17, <1>18, <1>19, <1>20, <1>21, <1>22, <1>23, <1>24,
           <1>25, <1>26, <1>27, <1>28 DEF Next

\* A store that was never opened has the right types.
LEMMA InitType == Init => TypeOK
<1> SUFFICES ASSUME Init PROVE TypeOK
  OBVIOUS
<1>1. base \in [gen : Nat \ {0}, m : States]
  BY EmptyType DEF Init
<1>2. pend \in Seq(Recs)
  BY DEF Init
<1> QED BY <1>1, <1>2, EmptyType, FreshType DEF Init, TypeOK, NoJournal

(***************************************************************************)
(* Type correctness, with it the admission matrix: whatever the extractors *)
(* offer, no order of writes, folds, prunes, failures and restarts puts a  *)
(* User-scope tool pattern or result in memory, base or journal.           *)
(***************************************************************************)
THEOREM TypeCorrect == Spec => []TypeOK
BY InitType, TypeStep, PTL DEF Spec

-----------------------------------------------------------------------------
(***************************************************************************)
(* Why memory and disk agree.  ReloadSame speaks of pc "open" and "write"  *)
(* only and is not inductive: the other stages of an operation each need   *)
(* their own relation between memory, buffer, base and journal.            *)
(***************************************************************************)

\* A handle's writer appends to a journal bound to the base, a handle without
\* one has nothing in a journal to lose, and every handle knows the base,
\* except between the two renames of a fold.
WriterBound ==
  /\ jrnl.gen <= base.gen
  /\ pc # "down" /\ jw => jrnl.gen = base.gen
  /\ pc # "down" /\ ~jw => jrnl.gen # base.gen \/ jrnl.lines = <<>>
  /\ pc \notin {"down", "renamed"} => hgen = base.gen
  /\ pc \in {"write", "flushed"} => jw
  /\ pc \in {"renamed", "removed"} => ~jw

\* What memory is, or is about to become, against what a restart would load.
Agreement ==
  /\ pc \in {"open", "write", "fold"} => Match(mem, Recovered, limbo)
  /\ pc = "flushed" => Match(Replay(mem, pend), Recovered, limbo \ Settled(pend))
  /\ pc \in {"renamed", "removed"} => base.m = kept /\ Match(mem, kept, limbo)

\* A fold only removes; a prune and a handle exclude each other.
FoldKeeps ==
  /\ pc = "fold" => \A id \in Ids : kept[id] \in {mem[id], Absent}
  /\ prune # {} => pc = "down"

Consistent == WriterBound /\ Agreement /\ FoldKeeps

\* The inductive invariant.
IInv == TypeOK /\ (~unsafe => Consistent)

\* What a restart loads when no journal is bound to the base, or an empty one.
LEMMA RecoveredBase ==
  ASSUME jrnl.gen # base.gen \/ jrnl.lines = <<>>
  PROVE  Recovered = base.m
<1>1. Bound(base, jrnl) = <<>>
  BY DEF Bound
<1> QED BY <1>1, ReplayEmpty DEF Recovered

\* The same fact of the next state.
LEMMA RecoveredBaseNext ==
  ASSUME jrnl'.gen # base'.gen \/ jrnl'.lines = <<>>
  PROVE  Recovered' = base'.m
<1>1. Bound(base, jrnl)' = <<>>
  BY DEF Bound
<1> QED BY <1>1, ReplayEmpty DEF Recovered

\* A restart loads the same when base, generation and lines are the same.
LEMMA RecoveredSame ==
  ASSUME base' = base, jrnl'.gen = jrnl.gen, jrnl'.lines = jrnl.lines
  PROVE  Recovered' = Recovered
BY DEF Recovered, Bound

\* A mutation's first step, with or without a writer to start from.
LEMMA BeginWriteConsistent ==
  ASSUME TypeOK, Consistent, NEW recs, BeginWrite(recs)
  PROVE  Consistent'
<1> USE DEF Consistent
<1>1. /\ hgen = base.gen /\ Match(mem, Recovered, limbo)
      /\ ~jw => jrnl.gen # base.gen \/ jrnl.lines = <<>>
  BY DEF WriterBound, Agreement, BeginWrite
<1>2. CASE jw
  <2>1. jrnl' = jrnl /\ base' = base
    BY <1>2 DEF BeginWrite, ensureJournal
  <2>2. Recovered' = Recovered
    BY <2>1, RecoveredSame
  <2>3. WriterBound' /\ FoldKeeps'
    BY <1>1, <1>2, <2>1 DEF WriterBound, FoldKeeps, BeginWrite, ensureJournal
  <2> QED BY <1>1, <2>2, <2>3 DEF Agreement, BeginWrite
<1>3. CASE ~jw
  <2>1. jrnl' = Fresh(base.gen) /\ base' = base /\ jw'
    BY <1>1, <1>3 DEF BeginWrite, ensureJournal
  <2>2. jrnl'.gen = base.gen /\ jrnl'.lines = <<>>
    BY <2>1 DEF Fresh, Journal
  <2>3. Recovered' = Recovered
    BY <1>1, <1>3, <2>1, <2>2, RecoveredBase, RecoveredBaseNext
  <2>4. jrnl'.gen <= base'.gen /\ jrnl'.gen = base'.gen /\ hgen' = base'.gen
    BY <1>1, <2>1, <2>2 DEF TypeOK, BeginWrite
  <2>5. WriterBound' /\ FoldKeeps'
    BY <2>1, <2>4 DEF WriterBound, FoldKeeps, BeginWrite
  <2> QED BY <1>1, <2>3, <2>5 DEF Agreement, BeginWrite
<1> QED BY <1>2, <1>3 DEF TypeOK

\* When no process has the store open, only the generations matter.
LEMMA DownConsistent ==
  ASSUME Consistent, pc' = "down", base' = base, jrnl'.gen <= base.gen
  PROVE  Consistent'
BY DEF Consistent, WriterBound, Agreement, FoldKeeps

\* Every step that does not end in a failure the code cannot recover from
\* keeps memory and disk consistent.
LEMMA ConsistentStep ==
  ASSUME TypeOK, Consistent, Next, ~unsafe'
  PROVE  Consistent'
<1>g. /\ base.gen \in Nat \ {0} /\ jrnl.gen \in Nat /\ jrnl \in Journals
      /\ mem \in States /\ pend \in Seq(Recs) /\ jw \in BOOLEAN
  BY JournalFields DEF TypeOK
<1>w. WriterBound /\ Agreement /\ FoldKeeps
  BY DEF Consistent
<1>le. jrnl.gen <= base.gen
  BY <1>w DEF WriterBound
<1>1. CASE Open
  <2>1. base' = base
    BY <1>1 DEF Open
  <2>2. jrnl'.gen <= base.gen /\ (jrnl'.gen = base.gen) = (jrnl.gen = base.gen)
    BY <1>1, <1>g, <1>le DEF Open, NoJournal, Fresh, Journal
  <2>3. Recovered' = Recovered
    <3>1. CASE jrnl.gen = base.gen
      BY <1>1, <2>1, <3>1, RecoveredSame DEF Open
    <3>2. CASE jrnl.gen # base.gen
      BY <2>1, <2>2, <3>2, RecoveredBase, RecoveredBaseNext
    <3> QED BY <3>1, <3>2
  <2>4. WriterBound' /\ FoldKeeps'
    BY <1>1, <2>1, <2>2 DEF WriterBound, FoldKeeps, Open
  <2>5. Agreement'
    BY <1>1, <2>3 DEF Agreement, Match, Open
  <2> QED BY <2>4, <2>5 DEF Consistent
<1>2. ASSUME NEW recs, BeginWrite(recs) PROVE Consistent'
  BY <1>2, BeginWriteConsistent
<1>3. CASE Flush
  <2>1. ~jrnl.open /\ jrnl.gen = base.gen /\ Match(mem, Recovered, limbo)
    BY <1>3, <1>w, <1>g, JournalFields DEF Flush, WriterBound, Agreement
  <2>2. /\ base' = base /\ mem' = mem /\ pend' = pend /\ limbo' = limbo
        /\ pc' = "flushed" /\ jw' = jw /\ hgen' = hgen /\ prune' = prune
        /\ jrnl' = Written(jrnl, pend)
    BY <1>3 DEF Flush
  <2>3. pend \in Seq(Lines) /\ jrnl.lines \in Seq(Lines)
    BY <1>g, RecsAreLines, JournalFields
  <2>4. jrnl'.gen = jrnl.gen /\ jrnl'.lines = jrnl.lines \o pend
    BY <1>g, <2>1, <2>2, <2>3, WrittenType
  <2>5. Recovered' = Replay(Recovered, pend)
    <3>1. Recovered = Replay(base.m, jrnl.lines)
      BY <2>1 DEF Recovered, Bound
    <3>2. Recovered' = Replay(base.m, jrnl.lines \o pend)
      BY <2>1, <2>2, <2>4 DEF Recovered, Bound
    <3> QED BY <2>3, <3>1, <3>2, ReplayConcat
  <2>6. Match(Replay(mem, pend), Replay(Recovered, pend), limbo \ Settled(pend))
    BY <1>g, <2>1, RecoveredType, ReplayMatch
  <2>7. Agreement'
    BY <2>2, <2>5, <2>6 DEF Agreement
  <2>8. WriterBound' /\ FoldKeeps'
    BY <1>3, <1>w, <2>2, <2>4 DEF Flush, WriterBound, FoldKeeps
  <2> QED BY <2>7, <2>8 DEF Consistent
<1>4. CASE FlushFails
  <2>1. jrnl'.gen = jrnl.gen
    BY <1>4, <1>g, RecsAreLines, PartlyWrittenType DEF FlushFails
  <2>2. WriterBound' /\ FoldKeeps' /\ Agreement'
    BY <1>4, <1>w, <2>1 DEF FlushFails, WriterBound, FoldKeeps, Agreement
  <2> QED BY <2>2 DEF Consistent
<1>5. CASE FinishWrite
  <2>1. /\ base' = base /\ mem' = Replay(mem, pend) /\ limbo' = limbo \ Settled(pend)
        /\ jrnl' \in {jrnl, Synced(jrnl)} /\ jw' = jw /\ hgen' = hgen /\ prune' = prune
        /\ pc' \in {"fold", "open"} /\ (pc' = "fold" => kept' = mem')
    BY <1>5 DEF FinishWrite, Settled
  <2>2. jrnl'.gen = jrnl.gen /\ jrnl'.lines = jrnl.lines
    BY <1>g, <2>1, SyncedType
  <2>3. Recovered' = Recovered
    BY <2>1, <2>2, RecoveredSame
  <2>4. Agreement'
    BY <1>5, <1>w, <2>1, <2>3 DEF FinishWrite, Agreement
  <2>5. WriterBound' /\ FoldKeeps'
    BY <1>5, <1>w, <2>1, <2>2 DEF FinishWrite, WriterBound, FoldKeeps
  <2> QED BY <2>4, <2>5 DEF Consistent
<1>6. CASE Close
  <2>1. jrnl'.gen = jrnl.gen
    BY <1>6, <1>g, SyncedType DEF Close
  <2> QED BY <1>6, <1>le, <2>1, DownConsistent DEF Close, Gone
<1>7. ASSUME NEW m \in States, pc = "open", BeginFold(m), \A id \in Ids : m[id] \in {mem[id], Absent}
      PROVE  Consistent'
  <2>1. Recovered' = Recovered
    BY <1>7, RecoveredSame DEF BeginFold
  <2> QED BY <1>7, <1>w, <2>1 DEF BeginFold, Consistent, WriterBound, Agreement, FoldKeeps
<1>8. CASE Compact
  BY <1>7, <1>8, <1>g DEF Compact
<1>9. ASSUME NEW evict \in SUBSET Live(mem), GC(evict) PROVE Consistent'
  <2>1. Drop(mem, evict) \in States
    BY <1>g DEF Drop, States
  <2>2. \A id \in Ids : Drop(mem, evict)[id] \in {mem[id], Absent}
    BY DEF Drop
  <2> QED BY <1>7, <1>9, <2>1, <2>2 DEF GC
<1>10. CASE FoldRename
  <2>1. /\ base'.gen = base.gen + 1 /\ base'.m = kept /\ jrnl' = jrnl /\ jw' = FALSE
        /\ mem' = mem /\ kept' = kept /\ pc' = "renamed" /\ prune' = prune
        /\ limbo' = {id \in Ids : kept[id] # mem[id]}
    BY <1>10 DEF FoldRename
  <2>2. jrnl'.gen < base'.gen
    BY <1>g, <1>le, <2>1
  <2>3. Match(mem, kept, limbo')
    BY <1>10, <1>w, <2>1 DEF FoldRename, FoldKeeps, Match
  <2>4. WriterBound' /\ FoldKeeps'
    <3>1. jrnl'.gen \in Nat /\ base'.gen \in Nat
      BY <1>g, <2>1
    <3>2. jrnl'.gen <= base'.gen /\ jrnl'.gen # base'.gen
      BY <2>2, <3>1
    <3> QED BY <1>10, <1>w, <2>1, <3>2 DEF FoldRename, WriterBound, FoldKeeps
  <2>5. Agreement'
    BY <2>1, <2>3 DEF Agreement
  <2> QED BY <2>4, <2>5 DEF Consistent
<1>11. CASE FoldRenameFails
  <2>1. Recovered' = Recovered
    BY <1>11, RecoveredSame DEF FoldRenameFails, EndFold
  <2> QED BY <1>11, <1>w, <2>1 DEF FoldRenameFails, EndFold, Consistent, WriterBound,
                                   Agreement, FoldKeeps
<1>12. CASE FoldRemove
  <2>1. jrnl'.gen = 0 /\ jrnl'.lines = <<>>
    BY <1>12 DEF FoldRemove, NoJournal, Fresh, Journal
  <2>2. jrnl'.gen <= base'.gen /\ jrnl'.gen # base'.gen
    BY <1>12, <1>g, <2>1 DEF FoldRemove
  <2>3. WriterBound'
    BY <1>12, <1>w, <2>2 DEF FoldRemove, WriterBound
  <2> QED BY <1>12, <1>w, <2>3 DEF FoldRemove, Consistent, Agreement, FoldKeeps
<1>13. CASE FoldRemoveFails \/ FoldHeaderFails
  <2>1. /\ base' = base /\ jrnl' \in {jrnl, Fresh(base.gen)} /\ pc' = "open" /\ mem' = mem
        /\ limbo' = limbo /\ jw' = jw /\ hgen' = base.gen /\ prune' = prune
        /\ pc \in {"renamed", "removed"}
    BY <1>13, <1>w DEF FoldRemoveFails, FoldHeaderFails, EndFold, WriterBound
  <2>2. /\ ~jw /\ base.m = kept /\ Match(mem, kept, limbo)
        /\ jrnl.gen # base.gen \/ jrnl.lines = <<>>
    BY <1>w, <1>g, <2>1 DEF WriterBound, Agreement
  <2>3. /\ jrnl'.gen <= base.gen
        /\ jrnl'.gen # base'.gen \/ jrnl'.lines = <<>>
    BY <1>g, <1>le, <2>1, <2>2 DEF Fresh, Journal
  <2>4. Recovered' = base.m
    BY <2>1, <2>3, RecoveredBaseNext
  <2>5. WriterBound' /\ FoldKeeps'
    BY <1>w, <2>1, <2>2, <2>3 DEF WriterBound, FoldKeeps
  <2>6. Agreement'
    BY <2>1, <2>2, <2>4 DEF Agreement
  <2> QED BY <2>5, <2>6 DEF Consistent
<1>14. CASE FoldHeader
  <2>1. ~jw /\ hgen = base.gen /\ base.m = kept
    BY <1>14, <1>w DEF FoldHeader, WriterBound, Agreement
  <2>2. /\ base' = base /\ pc' = "open" /\ mem' = base.m /\ jw' = TRUE /\ hgen' = base.gen
        /\ prune' = prune /\ jrnl' = Fresh(base.gen)
    BY <1>14, <2>1 DEF FoldHeader, EndFold, ensureJournal
  <2>3. jrnl'.gen = base.gen /\ jrnl'.lines = <<>>
    BY <2>2 DEF Fresh, Journal
  <2>4. Recovered' = base.m
    BY <2>2, <2>3, RecoveredBaseNext
  <2>5. Agreement'
    BY <2>2, <2>4 DEF Agreement, Match
  <2>6. jrnl'.gen <= base'.gen
    BY <1>g, <2>2, <2>3
  <2>7. WriterBound' /\ FoldKeeps'
    BY <1>14, <1>w, <2>2, <2>3, <2>6 DEF FoldHeader, WriterBound, FoldKeeps
  <2> QED BY <2>5, <2>7 DEF Consistent
<1>15. ASSUME NEW ids, PruneArchive(ids) PROVE Consistent'
  BY <1>15, <1>le, DownConsistent DEF PruneArchive
<1>16. CASE PruneCommit
  <2>1. jrnl'.gen = base.gen
    BY <1>16 DEF PruneCommit, Journal
  <2>2. pc' = "down" /\ base' = base
    BY <1>16, <1>w DEF PruneCommit, FoldKeeps
  <2> QED BY <1>g, <2>1, <2>2, DownConsistent
<1>17. CASE PruneAbort
  <2>1. pc' = "down" /\ base' = base /\ jrnl' = jrnl
    BY <1>17, <1>w DEF PruneAbort, FoldKeeps, disk
  <2> QED BY <1>le, <2>1, DownConsistent
<1>18. CASE Crash
  <2>1. jrnl'.gen = jrnl.gen
    BY <1>18, <1>g, RecsAreLines, PartlyWrittenType DEF Crash
  <2> QED BY <1>18, <1>le, <2>1, DownConsistent DEF Crash, Gone
<1>19. CASE PowerLoss
  <2>1. jrnl'.gen = jrnl.gen
    BY <1>19, <1>g, TruncatedType DEF PowerLoss
  <2> QED BY <1>19, <1>le, <2>1, DownConsistent DEF PowerLoss, Gone
<1>20. CASE SyncFails \/ FoldReopenFails \/ FoldStatFails
  BY <1>20 DEF SyncFails, FoldReopenFails, FoldStatFails
<1>21. CASE ensureJournalFails
  <2>1. /\ base' = base /\ jrnl' = Fresh(base.gen) /\ pc' = "open" /\ pc = "open" /\ ~jw
        /\ UNCHANGED <<mem, limbo, jw, hgen, prune>>
    BY <1>21, <1>w DEF ensureJournalFails, handle, WriterBound
  <2>2. jrnl'.gen = base.gen /\ jrnl'.lines = <<>> /\ jrnl'.gen <= base.gen
    BY <1>g, <2>1 DEF Fresh, Journal
  <2>3. Recovered' = Recovered
    BY <1>w, <2>1, <2>2, RecoveredBase, RecoveredBaseNext DEF WriterBound
  <2>4. WriterBound' /\ FoldKeeps'
    BY <1>w, <2>1, <2>2 DEF WriterBound, FoldKeeps
  <2>5. Agreement'
    BY <1>w, <2>1, <2>3 DEF Agreement
  <2> QED BY <2>4, <2>5 DEF Consistent
<1>22. CASE FoldCloseFails
  BY <1>22, <1>w DEF FoldCloseFails, disk, Consistent, WriterBound, Agreement, FoldKeeps
<1> QED BY <1>1, <1>2, <1>3, <1>4, <1>5, <1>6, <1>8, <1>9, <1>10, <1>11, <1>12, <1>13, <1>14,
           <1>15, <1>16, <1>17, <1>18, <1>19, <1>20, <1>21, <1>22
        DEF Next, Put, Delete, UpdateStats, UpdateStatsBatch

\* A failure the code cannot recover from is never forgotten.
LEMMA UnsafeStays ==
  ASSUME TypeOK, [Next]_vars, unsafe
  PROVE  unsafe'
BY DEF Next, vars, disk, handle, Open, Put, Delete, UpdateStats, UpdateStatsBatch, BeginWrite,
       Flush, FlushFails, FinishWrite, SyncFails, Close, Compact, GC, BeginFold,
       ensureJournalFails, FoldRename, FoldRenameFails, FoldCloseFails, FoldReopenFails,
       FoldRemove, FoldStatFails, FoldRemoveFails,
       FoldHeader, FoldHeaderFails, PruneArchive, PruneCommit, PruneAbort, Crash, PowerLoss, TypeOK

\* The inductive invariant holds in every reachable state.
THEOREM Inductive == Spec => []IInv
<1>1. Init => TypeOK
  BY InitType
<1>2. Init => Consistent
  <2> SUFFICES ASSUME Init PROVE Consistent
    OBVIOUS
  <2>1. jrnl.gen = 0
    BY DEF Init, NoJournal, Fresh, Journal
  <2> QED BY <2>1 DEF Init, Consistent, WriterBound, Agreement, FoldKeeps
<1>3. IInv /\ [Next]_vars => IInv'
  <2> SUFFICES ASSUME IInv, [Next]_vars PROVE IInv'
    OBVIOUS
  <2>1. TypeOK'
    BY TypeStep DEF IInv
  <2>2. ASSUME ~unsafe', Next PROVE Consistent'
    BY <2>2, UnsafeStays, ConsistentStep DEF IInv
  <2>3. ASSUME ~unsafe', UNCHANGED vars PROVE Consistent'
    <3>1. Consistent
      BY <2>3 DEF IInv, vars
    <3>2. Recovered' = Recovered
      BY <2>3, RecoveredSame DEF vars, disk
    <3> QED BY <2>3, <3>1, <3>2 DEF vars, disk, handle, Consistent, WriterBound, Agreement, FoldKeeps
  <2> QED BY <2>1, <2>2, <2>3 DEF IInv
<1> QED BY <1>1, <1>2, <1>3, PTL DEF Spec, IInv

(***************************************************************************)
(* Between operations the open handle serves what a restart would load,    *)
(* for every number of slices, journal length, threshold and order of      *)
(* writes, folds, prunes, crashes and handled failures.                    *)
(***************************************************************************)
THEOREM ReloadIsSame == Spec => []ReloadSame
<1>1. IInv => ReloadSame
  BY DEF IInv, Consistent, Agreement, Match, ReloadSame
<1> QED BY <1>1, Inductive, PTL

-----------------------------------------------------------------------------
(***************************************************************************)
(* Archive before delete.  ArchivedFirst is about the step that removes,   *)
(* the archive was written steps before: what is about to go is in it from *)
(* the start of the pass, and nothing in between changes what a restart    *)
(* would load.                                                             *)
(***************************************************************************)

\* While a fold waits for its rename, or a prune for its commit, every slice
\* about to go is in the archive in the version a restart would load; and
\* "no journal" holds no line.
ArchiveReady ==
  /\ pc = "fold" => \A id \in Ids : Recovered[id] # Absent /\ kept[id] = Absent =>
                                      <<id, Recovered[id]>> \in archive
  /\ prune # {} => /\ jrnl.gen \in {0, base.gen}
                   /\ \A id \in prune : <<id, Recovered[id]>> \in archive
  /\ jrnl.gen = 0 => jrnl.lines = <<>>

\* A power loss lengthens no journal, fragment or not.
LEMMA TruncatedShorter ==
  ASSUME NEW j \in Journals, NEW t \in Truncated(j)
  PROVE  Len(t.lines) <= Len(j.lines)
<1>0. j.lines \in Seq(Lines) /\ j.synced \in Nat /\ j.gen \in Nat /\ Len(j.lines) \in Nat
  BY JournalFields
<1>2. CASE \E k \in j.synced .. Len(j.lines) :
             t = Journal(j.gen, SubSeq(j.lines, 1, k), j.open /\ k = Len(j.lines), j.synced)
  <2>1. PICK k \in j.synced .. Len(j.lines) :
             t = Journal(j.gen, SubSeq(j.lines, 1, k), j.open /\ k = Len(j.lines), j.synced)
    BY <1>2
  <2>2. t.lines = SubSeq(j.lines, 1, k)
    BY <2>1 DEF Journal
  <2>3. Len(SubSeq(j.lines, 1, k)) = k
    BY <1>0
  <2> QED BY <1>0, <2>2, <2>3
<1>3. CASE \E k \in j.synced + 1 .. Len(j.lines) :
             t \in Torn(Journal(j.gen, SubSeq(j.lines, 1, k - 1), FALSE, j.synced),
                        <<>>, j.lines[k])
  <2>1. PICK k \in j.synced + 1 .. Len(j.lines) :
             t \in Torn(Journal(j.gen, SubSeq(j.lines, 1, k - 1), FALSE, j.synced),
                        <<>>, j.lines[k])
    BY <1>3
  <2> DEFINE s == SubSeq(j.lines, 1, k - 1)
             h == Journal(j.gen, s, FALSE, j.synced)
  <2>2. PICK line \in {Garbage, j.lines[k]} :
          t = Journal(h.gen, Written(h, Append(<<>>, line)).lines, TRUE, h.synced)
    BY <2>1 DEF Torn
  <2>3. s \in Seq(Lines) /\ Len(s) = k - 1 /\ line \in Lines
    BY <1>0 DEF Lines
  <2>4. h \in Journals /\ ~h.open /\ h.lines = s
    <3>1. j.synced <= Len(s)
      BY <1>0, <2>3
    <3> HIDE DEF s
    <3> QED BY <1>0, <2>3, <3>1, JournalType DEF Journal
  <2>5. Append(<<>>, line) = <<line>> /\ <<line>> \in Seq(Lines)
    BY <2>3
  <2> HIDE DEF s, h
  <2>6. Written(h, <<line>>).lines = s \o <<line>>
    BY <2>4, <2>5, WrittenType
  <2>7. t.lines = s \o <<line>>
    BY <2>2, <2>5, <2>6 DEF Journal
  <2>8. Len(s \o <<line>>) = k
    BY <1>0, <2>3
  <2> QED BY <1>0, <2>7, <2>8
<1> QED BY <1>2, <1>3 DEF Truncated

\* Nothing is about to go when no fold and no prune is under way.
LEMMA NothingLeaving ==
  ASSUME pc' # "fold", prune' = {}, jrnl'.gen = 0 => jrnl'.lines = <<>>
  PROVE  ArchiveReady'
BY DEF ArchiveReady

\* An empty header has no line.
LEMMA FreshFields ==
  ASSUME NEW g
  PROVE  /\ Fresh(g).gen = g /\ Fresh(g).lines = <<>> /\ ~Fresh(g).open /\ Fresh(g).synced = 0
         /\ NoJournal.gen = 0 /\ NoJournal.lines = <<>> /\ ~NoJournal.open
BY DEF NoJournal, Fresh, Journal

\* Every step that does not end in a failure the code cannot recover from
\* keeps the archive ahead of what will be removed.
LEMMA ArchiveStep ==
  ASSUME TypeOK, Consistent, ArchiveReady, Next, ~unsafe'
  PROVE  ArchiveReady'
<1>g. /\ base.gen \in Nat \ {0} /\ jrnl.gen \in Nat /\ jrnl \in Journals
      /\ mem \in States /\ pend \in Seq(Recs) /\ jw \in BOOLEAN
  BY JournalFields DEF TypeOK
<1>w. WriterBound /\ Agreement /\ FoldKeeps /\ (jrnl.gen = 0 => jrnl.lines = <<>>)
  BY DEF Consistent, ArchiveReady
<1>c. Agreement'
  BY ConsistentStep DEF Consistent
<1>p. pc # "down" => prune = {}
  BY <1>w DEF FoldKeeps
<1>1. CASE Open
  BY <1>1, <1>w, NothingLeaving, FreshFields DEF Open
<1>2. ASSUME NEW recs, BeginWrite(recs) PROVE ArchiveReady'
  BY <1>2, <1>w, <1>p, <1>g, NothingLeaving, FreshFields DEF BeginWrite, ensureJournal
<1>3. CASE Flush
  <2>1. jrnl'.gen = jrnl.gen
    BY <1>3, <1>g, RecsAreLines, WrittenType DEF Flush
  <2>2. jrnl.gen = base.gen
    BY <1>3, <1>w DEF Flush, WriterBound
  <2> QED BY <1>3, <1>p, <1>g, <2>1, <2>2, NothingLeaving DEF Flush
<1>4. CASE FlushFails
  <2>1. jrnl'.gen = jrnl.gen
    BY <1>4, <1>g, RecsAreLines, PartlyWrittenType DEF FlushFails
  <2>2. jrnl.gen = base.gen
    BY <1>4, <1>w DEF FlushFails, WriterBound
  <2> QED BY <1>4, <1>p, <1>g, <2>1, <2>2, NothingLeaving DEF FlushFails
<1>5. CASE FinishWrite
  <2>1. /\ jrnl' \in {jrnl, Synced(jrnl)} /\ prune' = prune /\ prune = {}
        /\ pc' \in {"fold", "open"} /\ (pc' = "fold" => kept' = mem')
    BY <1>5, <1>p DEF FinishWrite
  <2>2. jrnl'.gen = jrnl.gen /\ jrnl'.lines = jrnl.lines
    BY <1>g, <2>1, SyncedType
  <2>3. ASSUME pc' = "fold", NEW id \in Ids, Recovered'[id] # Absent PROVE kept'[id] # Absent
    BY <1>c, <2>1, <2>3 DEF Agreement, Match
  <2> QED BY <1>w, <2>1, <2>2, <2>3 DEF ArchiveReady
<1>6. CASE Close
  <2>1. jrnl'.gen = jrnl.gen /\ jrnl'.lines = jrnl.lines
    BY <1>6, <1>g, SyncedType DEF Close
  <2> QED BY <1>6, <1>p, <1>w, <2>1, NothingLeaving DEF Close, Gone
<1>8. CASE Compact
  <2>1. kept' = mem' /\ jrnl' = jrnl /\ prune' = {} /\ pc' = "fold"
    BY <1>8, <1>p DEF Compact, BeginFold
  <2>2. ASSUME NEW id \in Ids, Recovered'[id] # Absent PROVE kept'[id] # Absent
    BY <1>c, <2>1, <2>2 DEF Agreement, Match
  <2> QED BY <1>w, <2>1, <2>2 DEF ArchiveReady
<1>9. ASSUME NEW evict \in SUBSET Live(mem), GC(evict) PROVE ArchiveReady'
  <2>1. /\ kept' = Drop(mem, evict) /\ jrnl' = jrnl /\ base' = base /\ prune' = {} /\ pc' = "fold"
        /\ archive' = {<<id, mem[id]>> : id \in evict} /\ pc = "open"
    BY <1>9, <1>p DEF GC, BeginFold
  <2>2. Recovered' = Recovered
    BY <2>1, RecoveredSame
  <2>3. ASSUME NEW id \in Ids, Recovered[id] # Absent, kept'[id] = Absent
        PROVE  <<id, Recovered[id]>> \in archive'
    <3>1. mem[id] = Recovered[id]
      BY <1>w, <2>1, <2>3 DEF Agreement, Match
    <3>2. id \in evict
      BY <2>1, <2>3, <3>1 DEF Drop
    <3> QED BY <2>1, <3>1, <3>2
  <2> QED BY <1>w, <2>1, <2>2, <2>3 DEF ArchiveReady
<1>10. CASE FoldRename
  BY <1>10, <1>w, <1>p, NothingLeaving DEF FoldRename
<1>11. CASE FoldRenameFails
  BY <1>11, <1>w, <1>p, NothingLeaving DEF FoldRenameFails, EndFold
<1>12. CASE FoldRemove
  BY <1>12, <1>p, NothingLeaving, FreshFields DEF FoldRemove
<1>13. CASE FoldRemoveFails
  BY <1>13, <1>w, <1>p, NothingLeaving DEF FoldRemoveFails, EndFold
<1>14. CASE FoldHeaderFails
  BY <1>14, <1>w, <1>p, NothingLeaving, FreshFields DEF FoldHeaderFails, EndFold
<1>15. CASE FoldHeader
  BY <1>15, <1>w, <1>p, NothingLeaving, FreshFields DEF FoldHeader, EndFold, ensureJournal
<1>16. ASSUME NEW ids \in SUBSET Ids, PruneArchive(ids) PROVE ArchiveReady'
  <2>1. /\ base' = base /\ jrnl' = jrnl /\ prune' = ids /\ pc' = "down"
        /\ archive' = {<<id, Recovered[id]>> : id \in ids} /\ jrnl.gen \in {0, base.gen}
    BY <1>16 DEF PruneArchive
  <2>2. Recovered' = Recovered
    BY <2>1, RecoveredSame
  <2> QED BY <1>w, <2>1, <2>2 DEF ArchiveReady
<1>17. CASE PruneCommit
  <2>1. pc' = "down" /\ prune' = {} /\ jrnl'.gen = base.gen
    BY <1>17, <1>w DEF PruneCommit, FoldKeeps, Journal
  <2> QED BY <1>g, <2>1, NothingLeaving
<1>18. CASE PruneAbort
  BY <1>18, <1>w, NothingLeaving DEF PruneAbort, FoldKeeps, disk
<1>19. CASE Crash
  <2>1. jrnl'.gen = jrnl.gen
    BY <1>19, <1>g, RecsAreLines, PartlyWrittenType DEF Crash
  <2>2. pc = "write" => jrnl.gen = base.gen
    BY <1>w DEF WriterBound
  <2>3. jrnl'.gen = 0 => jrnl'.lines = <<>>
    BY <1>19, <1>w, <1>g, <2>1, <2>2 DEF Crash
  <2> QED BY <1>19, <1>p, <2>3, NothingLeaving DEF Crash, Gone
<1>20. CASE PowerLoss
  <2>1. jrnl' \in Journals /\ jrnl'.gen = jrnl.gen /\ Len(jrnl'.lines) <= Len(jrnl.lines)
    BY <1>20, <1>g, TruncatedType, TruncatedShorter DEF PowerLoss
  <2>2. jrnl.gen = 0 => Len(jrnl'.lines) = 0
    BY <1>w, <2>1, JournalFields
  <2>3. jrnl'.gen = 0 => jrnl'.lines = <<>>
    BY <2>1, <2>2, JournalFields
  <2> QED BY <1>20, <2>3, NothingLeaving DEF PowerLoss, Gone
<1>21. CASE SyncFails \/ FoldReopenFails \/ FoldStatFails
  BY <1>21 DEF SyncFails, FoldReopenFails, FoldStatFails
<1>22. CASE ensureJournalFails
  BY <1>22, <1>p, NothingLeaving, FreshFields DEF ensureJournalFails
<1>23. CASE FoldCloseFails
  BY <1>23, <1>w, <1>p, NothingLeaving DEF FoldCloseFails, disk
<1> QED BY <1>1, <1>2, <1>3, <1>4, <1>5, <1>6, <1>8, <1>9, <1>10, <1>11, <1>12, <1>13, <1>14,
           <1>15, <1>16, <1>17, <1>18, <1>19, <1>20, <1>21, <1>22, <1>23
        DEF Next, Put, Delete, UpdateStats, UpdateStatsBatch

\* The archive is ahead in every reachable state before an unhandled failure.
THEOREM ArchiveIsReady == Spec => [](IInv /\ (~unsafe => ArchiveReady))
<1> DEFINE A == ~unsafe => ArchiveReady
<1>1. Init => A
  <2> SUFFICES ASSUME Init PROVE ArchiveReady
    OBVIOUS
  <2> QED BY FreshFields DEF Init, ArchiveReady
<1>2. IInv /\ A /\ [Next]_vars => A'
  <2> SUFFICES ASSUME IInv, A, [Next]_vars, ~unsafe' PROVE ArchiveReady'
    OBVIOUS
  <2>1. ~unsafe
    BY UnsafeStays DEF IInv
  <2>2. CASE Next
    BY <2>1, <2>2, ArchiveStep DEF IInv
  <2>3. CASE UNCHANGED vars
    <3>1. Recovered' = Recovered
      BY <2>3, RecoveredSame DEF vars, disk
    <3> QED BY <2>1, <2>3, <3>1 DEF vars, disk, handle, ArchiveReady
  <2> QED BY <2>2, <2>3
<1> HIDE DEF A
<1>3. Spec => []A
  BY <1>1, <1>2, Inductive, PTL DEF Spec
<1> QED BY <1>3, Inductive, PTL DEF A

\* Deleting slices changes nothing but them, and leaves nothing of them.
LEMMA ReplayDels ==
  ASSUME NEW m \in States, NEW ids \in SUBSET Ids, NEW s \in Seq({DelRec(id) : id \in ids})
  PROVE  \A id \in Ids : /\ Replay(m, s)[id] \in {m[id], Absent}
                         /\ id \notin ids => Replay(m, s)[id] = m[id]
<1> DEFINE D == {DelRec(id) : id \in ids}
           Good(r) == \A id \in Ids : r[id] \in {m[id], Absent} /\ (id \notin ids => r[id] = m[id])
           P == {u \in Seq(D) : Good(Replay(m, u))}
<1>0. D \subseteq Lines
  BY OtherRecTypes DEF Lines
<1>1. <<>> \in P
  BY ReplayEmpty
<1>2. ASSUME NEW u \in Seq(D), NEW e \in D, u \in P PROVE Append(u, e) \in P
  <2>1. PICK x \in ids : e = DelRec(x)
    OBVIOUS
  <2>2. u \in Seq(Lines) /\ e \in Lines /\ Append(u, e) \in Seq(D)
    BY <1>0
  <2>3. Replay(m, u) \in States /\ Good(Replay(m, u))
    BY <1>2, <2>2, ReplayType
  <2>4. e # Garbage /\ e.op = "del" /\ e.id = x
    BY <2>1, OtherRecTypes, RecordsAssumption DEF DelRec
  <2>5. Apply(Replay(m, u), e) = [Replay(m, u) EXCEPT ![x] = Absent]
    BY <2>4 DEF Apply
  <2>6. Good(Apply(Replay(m, u), e))
    BY <2>3, <2>5 DEF States
  <2>7. Replay(m, Append(u, e)) = Apply(Replay(m, u), e)
    BY <2>2, ReplayAppend
  <2> QED BY <2>2, <2>6, <2>7
<1>3. s \in P
  <2> HIDE DEF P, D
  <2>1. s \in Seq(D)
    BY DEF D
  <2> QED BY <1>1, <1>2, <2>1, SeqSetInduction
<1> QED BY <1>3

\* What a prune's commit leaves: the old content without the pruned slices.
LEMMA PruneCommitRecovers ==
  ASSUME TypeOK, ArchiveReady, PruneCommit
  PROVE  /\ base' = base /\ jrnl'.gen = base.gen /\ jrnl'.synced = Len(jrnl'.lines)
         /\ jrnl'.lines \in Seq(Lines)
         /\ \A id \in Ids : /\ Recovered'[id] \in {Recovered[id], Absent}
                            /\ id \notin prune => Recovered'[id] = Recovered[id]
<1>1. PICK order \in [1 .. Cardinality(prune) -> prune] :
        jrnl' = LET ls == jrnl.lines \o [i \in 1 .. Cardinality(prune) |-> DelRec(order[i])]
                IN  Journal(base.gen, ls, FALSE, Len(ls))
  BY DEF PruneCommit
<1> DEFINE D == {DelRec(id) : id \in prune}
           dels == [i \in 1 .. Cardinality(prune) |-> DelRec(order[i])]
<1>2. prune \in SUBSET Ids /\ Cardinality(prune) \in Nat
  BY IdsCardinality DEF TypeOK
<1>3. dels \in Seq(D)
  BY <1>2
<1>4. dels \in Seq(Lines) /\ jrnl.lines \in Seq(Lines) /\ base.m \in States
  <2>1. \A i \in 1 .. Cardinality(prune) : DelRec(order[i]) \in Lines
    BY <1>2, OtherRecTypes DEF Lines
  <2> QED BY <1>2, <2>1, JournalFields DEF TypeOK
<1>5. base' = base
  BY DEF PruneCommit
<1> HIDE DEF dels, D
<1>6. /\ jrnl'.gen = base.gen /\ jrnl'.lines = jrnl.lines \o dels
      /\ jrnl'.synced = Len(jrnl'.lines)
  BY <1>1 DEF Journal, dels
<1>7. Recovered' = Replay(Replay(base.m, jrnl.lines), dels)
  <2>1. Recovered' = Replay(base.m, jrnl.lines \o dels)
    BY <1>5, <1>6 DEF Recovered, Bound
  <2> QED BY <1>4, <2>1, ReplayConcat
<1>8. Recovered = Replay(base.m, jrnl.lines)
  BY DEF Recovered, Bound, ArchiveReady, PruneCommit
<1>9. Recovered \in States
  BY RecoveredType
<1>10. Recovered' = Replay(Recovered, dels)
  BY <1>7, <1>8
<1>11. jrnl'.lines \in Seq(Lines)
  BY <1>4, <1>6
<1> QED BY <1>2, <1>3, <1>5, <1>6, <1>9, <1>10, <1>11, ReplayDels DEF D

(***************************************************************************)
(* Archive before delete, for every number of slices, choice of evictions  *)
(* and candidates, thresholds and order of failures: when a GC's base swap *)
(* or a prune's journal swap makes a slice unrecoverable, the version a    *)
(* restart would have loaded is in the archive that pass wrote.            *)
(***************************************************************************)
THEOREM ArchivedBeforeDelete == Spec => ArchivedFirst
<1> DEFINE A == IInv /\ (~unsafe => ArchiveReady)
           Moved == base' # base \/ (prune # {} /\ Len(jrnl'.lines) > Len(jrnl.lines))
           Kept == \A id \in Ids : Recovered[id] # Absent /\ Recovered'[id] = Absent =>
                                     <<id, Recovered[id]>> \in archive
<1>1. A /\ [Next]_vars => (~unsafe /\ Moved => Kept)
  <2> SUFFICES ASSUME A, [Next]_vars, ~unsafe, Moved PROVE Kept
    OBVIOUS
  <2>1. TypeOK /\ Consistent /\ ArchiveReady
    BY DEF IInv
  <2>2. CASE base' # base
    <3>1. FoldRename
      BY <2>2 DEF Next, vars, disk, Open, Put, Delete, UpdateStats, UpdateStatsBatch, BeginWrite,
         Flush, FlushFails, FinishWrite, SyncFails, Close, Compact, GC, BeginFold, EndFold,
         ensureJournalFails, FoldRenameFails, FoldCloseFails, FoldReopenFails,
         FoldRemove, FoldStatFails, FoldRemoveFails,
         FoldHeader, FoldHeaderFails, PruneArchive, PruneCommit, PruneAbort, Crash, PowerLoss
    <3>2. base'.m = kept /\ jrnl' = jrnl /\ base'.gen = base.gen + 1 /\ pc = "fold"
      BY <3>1 DEF FoldRename
    <3>3. jrnl.gen <= base.gen /\ base.gen \in Nat /\ jrnl.gen \in Nat
      BY <2>1, JournalFields DEF Consistent, WriterBound, TypeOK
    <3>4. jrnl'.gen # base'.gen
      BY <3>2, <3>3
    <3>5. Recovered' = kept
      BY <3>2, <3>4, RecoveredBaseNext
    <3> QED BY <2>1, <3>2, <3>5 DEF ArchiveReady
  <2>3. CASE prune # {} /\ Len(jrnl'.lines) > Len(jrnl.lines)
    <3>1. pc = "down"
      BY <2>1, <2>3 DEF Consistent, FoldKeeps
    <3>2. jrnl \in Journals /\ Len(jrnl.lines) \in Nat
      BY <2>1, JournalFields DEF TypeOK
    <3>3. jrnl' # jrnl
      BY <2>3, <3>2
    <3>4. ~PowerLoss
      <4> SUFFICES ASSUME PowerLoss PROVE FALSE
        OBVIOUS
      <4>1. jrnl' \in Journals /\ Len(jrnl'.lines) <= Len(jrnl.lines)
        BY <3>2, TruncatedType, TruncatedShorter DEF PowerLoss
      <4> QED BY <2>3, <3>2, <4>1, JournalFields
    <3>5. PruneCommit
      BY <2>3, <3>1, <3>3, <3>4
         DEF Next, vars, disk, Open, Put, Delete, UpdateStats, UpdateStatsBatch, BeginWrite,
         Flush, FlushFails, FinishWrite, SyncFails, Close, Compact, GC,
         ensureJournalFails, FoldRename, FoldRenameFails, FoldCloseFails, FoldReopenFails,
         FoldRemove, FoldStatFails, FoldRemoveFails,
         FoldHeader, FoldHeaderFails, PruneArchive, PruneAbort, Crash
    <3>6. \A id \in Ids : id \notin prune => Recovered'[id] = Recovered[id]
      BY <2>1, <3>5, PruneCommitRecovers
    <3> QED BY <2>1, <2>3, <3>6 DEF ArchiveReady
  <2> QED BY <2>2, <2>3
<1> HIDE DEF A
<1>2. Spec => []A
  BY ArchiveIsReady DEF A
<1>3. Spec => [][~unsafe /\ Moved => Kept]_vars
  BY <1>1, <1>2, PTL DEF Spec
<1> QED BY <1>3 DEF ArchivedFirst

-----------------------------------------------------------------------------
(***************************************************************************)
(* The refinement.  It is about the failures the code handles: an fsync or *)
(* a stat that fails, a journal that cannot be reopened and a record torn  *)
(* in the middle are the four after which the store does not keep its      *)
(* promise (ghost unsafe).                                                 *)
(***************************************************************************)
HandledOnly == Faults \cap {"tear", "sync", "stat", "reopen"} = {}

\* The records a caller's mutation can write.
CallRecs ==
  {PutRec(id, NewEntry(EnforceAdmission(p))) : id \in Ids, p \in Payloads}
    \cup {DelRec(id) : id \in Ids}
    \cup {StatRec(id, d) : id \in Ids, d \in Deltas}

\* No unhandled failure happens and no line stays unterminated; evictions are
\* open only while a handle is; the buffer holds what a caller asked for.
Clean ==
  /\ ~unsafe /\ ~jrnl.open
  /\ pc = "down" => limbo = {}
  /\ pend \in Seq(CallRecs)

DInv == TypeOK /\ Consistent /\ ArchiveReady /\ Clean

\* The abstract module's data operators are the store's.
LEMMA AbsSame ==
  /\ Abs!Empty = Empty
  /\ \A m, l : Abs!Apply(m, l) = Apply(m, l)
  /\ \A id, e : Abs!PutRec(id, e) = PutRec(id, e)
  /\ \A id : Abs!DelRec(id) = DelRec(id)
  /\ \A id, d : Abs!StatRec(id, d) = StatRec(id, d)
  /\ \A p : Abs!NewEntry(Abs!EnforceAdmission(p)) = NewEntry(EnforceAdmission(p))
BY DEF Abs!Empty, Empty, Abs!Apply, Apply, Abs!mergeStats, mergeStats, Abs!PutRec, PutRec,
       Abs!DelRec, DelRec, Abs!StatRec, StatRec, Abs!NewEntry, NewEntry,
       Abs!EnforceAdmission, EnforceAdmission

\* The line of states from the first s lines of ls over b to all of them.
History(b, ls, s) == [i \in 1 .. Len(ls) - s + 1 |-> Replay(b, SubSeq(ls, 1, s + i - 1))]

\* How much of the bound journal an fsync has covered.
BoundSynced == IF jrnl.gen = base.gen THEN jrnl.synced ELSE 0

LEMMA DurableIs == Durable = History(base.m, Bound(base, jrnl), BoundSynced)
BY DEF Durable, History, BoundSynced

LEMMA DurableIsNext == Durable' = History(base'.m, Bound(base, jrnl)', BoundSynced')
BY DEF Durable, History, BoundSynced

\* A history is a nonempty sequence that ends with the whole journal replayed.
LEMMA HistoryType ==
  ASSUME NEW b \in States, NEW ls \in Seq(Lines), NEW s \in Nat, s <= Len(ls)
  PROVE  /\ History(b, ls, s) \in Seq(States)
         /\ Len(History(b, ls, s)) = Len(ls) - s + 1
         /\ \A i \in 1 .. Len(ls) - s + 1 :
              History(b, ls, s)[i] = Replay(b, SubSeq(ls, 1, s + i - 1))
         /\ History(b, ls, s)[Len(ls) - s + 1] = Replay(b, ls)
<1> DEFINE n == Len(ls) - s + 1
<1>1. n \in Nat /\ n >= 1 /\ s + n - 1 = Len(ls)
  OBVIOUS
<1>2. \A i \in 1 .. n : SubSeq(ls, 1, s + i - 1) \in Seq(Lines)
  OBVIOUS
<1>3. SubSeq(ls, 1, Len(ls)) = ls
  OBVIOUS
<1> HIDE DEF n
<1>4. History(b, ls, s) = [i \in 1 .. n |-> Replay(b, SubSeq(ls, 1, s + i - 1))]
  BY DEF History, n
<1>5. \A i \in 1 .. n : Replay(b, SubSeq(ls, 1, s + i - 1)) \in States
  BY <1>2, ReplayType
<1>6. /\ History(b, ls, s) \in Seq(States) /\ Len(History(b, ls, s)) = n
      /\ \A i \in 1 .. n : History(b, ls, s)[i] = Replay(b, SubSeq(ls, 1, s + i - 1))
  BY <1>1, <1>4, <1>5
<1>7. History(b, ls, s)[n] = Replay(b, ls)
  <2>1. n \in 1 .. n /\ SubSeq(ls, 1, s + n - 1) = ls
    BY <1>1, <1>3
  <2> QED BY <1>6, <2>1
<1> QED BY <1>6, <1>7 DEF n

\* With everything synced the history is one state.
LEMMA HistorySynced ==
  ASSUME NEW b \in States, NEW ls \in Seq(Lines)
  PROVE  History(b, ls, Len(ls)) = <<Replay(b, ls)>>
<1>1. Len(ls) \in Nat /\ Len(ls) <= Len(ls) /\ Len(ls) - Len(ls) + 1 = 1
  OBVIOUS
<1>2. /\ History(b, ls, Len(ls)) \in Seq(States) /\ Len(History(b, ls, Len(ls))) = 1
      /\ History(b, ls, Len(ls))[1] = Replay(b, ls)
  BY <1>1, HistoryType
<1> QED BY <1>2

\* Cutting the journal cuts the history.
LEMMA HistoryCut ==
  ASSUME NEW b \in States, NEW ls \in Seq(Lines), NEW s \in Nat, NEW k \in s .. Len(ls)
  PROVE  History(b, SubSeq(ls, 1, k), s) = SubSeq(History(b, ls, s), 1, k - s + 1)
<1> DEFINE c == SubSeq(ls, 1, k)
           H == History(b, ls, s)
           G == History(b, c, s)
           n == k - s + 1
<1>1. c \in Seq(Lines) /\ Len(c) = k /\ s <= k /\ k <= Len(ls) /\ k \in Nat
  OBVIOUS
<1>2. \A i \in 1 .. n : SubSeq(c, 1, s + i - 1) = SubSeq(ls, 1, s + i - 1)
  OBVIOUS
<1>3. /\ H \in Seq(States) /\ Len(H) = Len(ls) - s + 1
      /\ \A i \in 1 .. Len(ls) - s + 1 : H[i] = Replay(b, SubSeq(ls, 1, s + i - 1))
  BY <1>1, HistoryType
<1> HIDE DEF c
<1>4. /\ G \in Seq(States) /\ Len(G) = n
      /\ \A i \in 1 .. n : G[i] = Replay(b, SubSeq(c, 1, s + i - 1))
  BY <1>1, HistoryType
<1> HIDE DEF H, G
<1>5. n \in 1 .. Len(H) /\ n \in Nat
  BY <1>1, <1>3
<1>6. SubSeq(H, 1, n) \in Seq(States) /\ Len(SubSeq(H, 1, n)) = n
      /\ \A i \in 1 .. n : SubSeq(H, 1, n)[i] = H[i]
  <2> HIDE DEF n
  <2> QED BY <1>3, <1>5
<1>7. \A i \in 1 .. n : G[i] = SubSeq(H, 1, n)[i]
  <2> TAKE i \in 1 .. n
  <2>1. i \in 1 .. Len(ls) - s + 1
    BY <1>1
  <2> QED BY <1>2, <1>3, <1>4, <1>6, <2>1
<1> HIDE DEF n
<1>8. G = SubSeq(H, 1, n)
  <2> DEFINE F == SubSeq(H, 1, n)
  <2>1. F \in Seq(States) /\ Len(F) = n /\ \A i \in 1 .. n : G[i] = F[i]
    BY <1>6, <1>7
  <2> HIDE DEF F
  <2>2. G = F
    BY <1>4, <1>5, <2>1
  <2> QED BY <2>2 DEF F
<1> QED BY <1>8 DEF G, H, n, c

\* Appending records lengthens the history, a record at a time.
LEMMA HistoryExtend ==
  ASSUME NEW b \in States, NEW ls \in Seq(Lines), NEW u \in Seq(Lines),
         NEW s \in Nat, s <= Len(ls)
  PROVE  LET H == History(b, ls, s)
             G == History(b, ls \o u, s)
         IN  /\ Len(G) = Len(H) + Len(u)
             /\ SubSeq(G, 1, Len(H)) = H
             /\ \A i \in Len(H) .. Len(G) - 1 :
                  /\ i - Len(H) + 1 \in 1 .. Len(u)
                  /\ G[i + 1] = Apply(G[i], u[i - Len(H) + 1])
<1> DEFINE t == ls \o u
           H == History(b, ls, s)
           G == History(b, t, s)
<1>1. /\ t \in Seq(Lines) /\ Len(t) = Len(ls) + Len(u) /\ Len(ls) \in Nat /\ Len(u) \in Nat
      /\ SubSeq(t, 1, Len(ls)) = ls
      /\ \A j \in 1 .. Len(u) : t[Len(ls) + j] = u[j]
  OBVIOUS
<1>s. \A n \in 0 .. Len(t) - 1 : /\ SubSeq(t, 1, n + 1) = Append(SubSeq(t, 1, n), t[n + 1])
                                 /\ SubSeq(t, 1, n) \in Seq(Lines) /\ t[n + 1] \in Lines
  <2> HIDE DEF t
  <2> QED BY <1>1
<1> HIDE DEF t
<1>2. s <= Len(t) /\ Len(ls) \in s .. Len(t)
  BY <1>1
<1>3. Len(H) = Len(ls) - s + 1
  BY HistoryType
<1>4. /\ Len(G) = Len(t) - s + 1
      /\ \A i \in 1 .. Len(t) - s + 1 : G[i] = Replay(b, SubSeq(t, 1, s + i - 1))
  BY <1>1, <1>2, HistoryType
<1>5. SubSeq(G, 1, Len(H)) = H
  <2>1. History(b, SubSeq(t, 1, Len(ls)), s) = SubSeq(G, 1, Len(ls) - s + 1)
    BY <1>1, <1>2, HistoryCut
  <2> QED BY <1>1, <1>3, <2>1
<1>6. Len(G) = Len(H) + Len(u)
  BY <1>1, <1>3, <1>4
<1>7. ASSUME NEW i \in Len(H) .. Len(G) - 1
      PROVE  /\ i - Len(H) + 1 \in 1 .. Len(u)
             /\ G[i + 1] = Apply(G[i], u[i - Len(H) + 1])
  <2> DEFINE n == s + i - 1
             j == i - Len(H) + 1
  <2>1. /\ j \in 1 .. Len(u) /\ n \in 0 .. Len(t) - 1 /\ n + 1 = Len(ls) + j
        /\ i \in 1 .. Len(t) - s + 1 /\ i + 1 \in 1 .. Len(t) - s + 1
        /\ s + (i + 1) - 1 = n + 1
    <3>1. Len(H) = Len(ls) - s + 1 /\ Len(G) = Len(ls) + Len(u) - s + 1
      BY <1>1, <1>3, <1>4
    <3>2. i \in Len(ls) - s + 1 .. Len(ls) + Len(u) - s /\ j = i - (Len(ls) - s + 1) + 1
      BY <1>1, <3>1
    <3> HIDE DEF G, H, j
    <3> QED BY <1>1, <3>2
  <2>2. G[i] = Replay(b, SubSeq(t, 1, n)) /\ G[i + 1] = Replay(b, SubSeq(t, 1, n + 1))
    BY <1>4, <2>1
  <2> HIDE DEF n, j, G, H
  <2>3. t[n + 1] = u[j]
    BY <1>1, <2>1
  <2>4. Replay(b, SubSeq(t, 1, n + 1)) = Apply(Replay(b, SubSeq(t, 1, n)), t[n + 1])
    BY <1>s, <2>1, ReplayAppend
  <2> QED BY <2>1, <2>2, <2>3, <2>4 DEF j
<1> QED BY <1>5, <1>6, <1>7 DEF t

-----------------------------------------------------------------------------
\* The parts of the mapping that the steps speak of.
LEMMA BoundType ==
  ASSUME TypeOK
  PROVE  /\ base.m \in States /\ Bound(base, jrnl) \in Seq(Lines)
         /\ BoundSynced \in Nat /\ BoundSynced <= Len(Bound(base, jrnl))
<1>1. CASE jrnl.gen = base.gen
  BY <1>1, JournalFields DEF TypeOK, Bound, BoundSynced
<1>2. CASE jrnl.gen # base.gen
  BY <1>2 DEF TypeOK, Bound, BoundSynced
<1> QED BY <1>1, <1>2

\* The abstract current state is what the next open will load.
LEMMA CurrentIs ==
  ASSUME TypeOK
  PROVE  /\ Durable \in Seq(States) /\ Len(Durable) \in Nat \ {0}
         /\ Abs!Current = Recovered
<1>1. Durable = History(base.m, Bound(base, jrnl), BoundSynced)
  BY DurableIs
<1> DEFINE n == Len(Bound(base, jrnl)) - BoundSynced + 1
<1>2. n \in Nat \ {0}
  BY BoundType
<1>3. Durable \in Seq(States) /\ Len(Durable) = n /\ Durable[n] = Recovered
  BY <1>1, BoundType, HistoryType DEF Recovered
<1> QED BY <1>2, <1>3 DEF Abs!Current

\* A step that keeps base and bound lines, and what of them is synced, changes
\* no abstract state.
LEMMA DurableSame ==
  ASSUME base' = base, Bound(base, jrnl)' = Bound(base, jrnl), BoundSynced' = BoundSynced
  PROVE  Durable' = Durable
BY DurableIs, DurableIsNext

\* Without a line bound to the base there is one state.
LEMMA DurableBase ==
  ASSUME TypeOK, jrnl.gen # base.gen \/ jrnl.lines = <<>>
  PROVE  Bound(base, jrnl) = <<>> /\ BoundSynced = 0 /\ Recovered = base.m
<1>1. Bound(base, jrnl) = <<>>
  BY DEF Bound
<1>2. Len(Bound(base, jrnl)) = 0
  BY <1>1
<1> QED BY <1>1, <1>2, BoundType, RecoveredBase

\* The same of the next state.
LEMMA DurableBaseNext ==
  ASSUME TypeOK', jrnl'.gen # base'.gen \/ jrnl'.lines = <<>>
  PROVE  Bound(base, jrnl)' = <<>> /\ BoundSynced' = 0 /\ Durable' = <<base'.m>>
<1>1. Bound(base, jrnl)' = <<>>
  BY DEF Bound
<1>2. BoundSynced' = 0
  <2>1. jrnl' \in Journals
    BY DEF TypeOK
  <2>2. jrnl'.lines = <<>> => jrnl'.synced = 0
    <3>1. jrnl'.synced \in Nat /\ jrnl'.synced <= Len(jrnl'.lines)
      BY <2>1, JournalFields
    <3>2. Len(<<>>) = 0
      OBVIOUS
    <3> QED BY <3>1, <3>2
  <2> QED BY <2>2 DEF BoundSynced
<1>3. base'.m \in States
  BY DEF TypeOK
<1> DEFINE e == <<>>
<1>4. e \in Seq(Lines) /\ Len(e) = 0
  OBVIOUS
<1> HIDE DEF e
<1>5. History(base'.m, e, 0) = <<base'.m>>
  <2>1. History(base'.m, e, Len(e)) = <<Replay(base'.m, e)>>
    BY <1>3, <1>4, HistorySynced
  <2>2. Replay(base'.m, e) = base'.m
    BY ReplayEmpty DEF e
  <2> QED BY <1>4, <2>1, <2>2
<1> QED BY <1>1, <1>2, <1>5, DurableIsNext DEF e

-----------------------------------------------------------------------------
(***************************************************************************)
(* The abstract steps, each from what a step of the store does to the disk.*)
(***************************************************************************)

\* Records of callers that reach the bound journal are committed in order.
LEMMA CommitStep ==
  ASSUME TypeOK, jrnl.gen = base.gen, base' = base, jrnl'.gen = jrnl.gen,
         jrnl'.synced = jrnl.synced, NEW u \in Seq(CallRecs), u # <<>>,
         jrnl'.lines = jrnl.lines \o u, limbo' \subseteq limbo
  PROVE  Abs!Commit
<1> DEFINE H == History(base.m, jrnl.lines, jrnl.synced)
           G == History(base.m, jrnl.lines \o u, jrnl.synced)
<1>1. /\ jrnl.lines \in Seq(Lines) /\ base.m \in States /\ jrnl.synced \in Nat
      /\ jrnl.synced <= Len(jrnl.lines)
  BY JournalFields DEF TypeOK
<1>2. u \in Seq(Lines) /\ Len(u) \in Nat \ {0}
  <2>1. CallRecs \subseteq Lines
    BY PutRecType, OtherRecTypes DEF CallRecs, Lines
  <2> QED BY <2>1
<1>3. Durable = H
  BY DurableIs DEF Bound, BoundSynced
<1>4. Durable' = G
  BY DurableIsNext DEF Bound, BoundSynced
<1>5. /\ Len(G) = Len(H) + Len(u) /\ SubSeq(G, 1, Len(H)) = H
      /\ \A i \in Len(H) .. Len(G) - 1 :
           /\ i - Len(H) + 1 \in 1 .. Len(u)
           /\ G[i + 1] = Apply(G[i], u[i - Len(H) + 1])
  <2> DEFINE b == base.m
             ls == jrnl.lines
             s == jrnl.synced
  <2>1. b \in States /\ ls \in Seq(Lines) /\ s \in Nat /\ s <= Len(ls)
    BY <1>1
  <2> HIDE DEF b, ls, s
  <2>2. LET h == History(b, ls, s)
            g == History(b, ls \o u, s)
        IN  /\ Len(g) = Len(h) + Len(u)
            /\ SubSeq(g, 1, Len(h)) = h
            /\ \A i \in Len(h) .. Len(g) - 1 :
                 /\ i - Len(h) + 1 \in 1 .. Len(u)
                 /\ g[i + 1] = Apply(g[i], u[i - Len(h) + 1])
    BY <1>2, <2>1, HistoryExtend
  <2> QED BY <2>2 DEF b, ls, s
<1>6. Len(H) \in Nat
  BY <1>3, CurrentIs
<1> HIDE DEF G, H
<1>7. ASSUME NEW i \in Len(H) .. Len(G) - 1
      PROVE  \E id \in Ids :
               \/ \E e \in {NewEntry(EnforceAdmission(p)) : p \in Payloads} :
                    G[i + 1] = Apply(G[i], PutRec(id, e))
               \/ G[i + 1] = Apply(G[i], DelRec(id))
               \/ \E d \in Deltas : G[i + 1] = Apply(G[i], StatRec(id, d))
  <2>1. PICK r \in CallRecs : G[i + 1] = Apply(G[i], r)
    BY <1>5
  <2>2. CASE \E id \in Ids, p \in Payloads : r = PutRec(id, NewEntry(EnforceAdmission(p)))
    BY <2>1, <2>2
  <2>3. CASE \E id \in Ids : r = DelRec(id)
    BY <2>1, <2>3
  <2>4. CASE \E id \in Ids, d \in Deltas : r = StatRec(id, d)
    BY <2>1, <2>4
  <2> QED BY <2>2, <2>3, <2>4 DEF CallRecs
<1>8. Len(G) > Len(H)
  BY <1>2, <1>5, <1>6
<1>9. \A i \in Len(H) .. Len(G) - 1 : \E id \in Ids :
         \/ \E e \in {Abs!NewEntry(Abs!EnforceAdmission(p)) : p \in Payloads} :
              G[i + 1] = Abs!Apply(G[i], Abs!PutRec(id, e))
         \/ G[i + 1] = Abs!Apply(G[i], Abs!DelRec(id))
         \/ \E d \in Deltas : G[i + 1] = Abs!Apply(G[i], Abs!StatRec(id, d))
  BY <1>7, AbsSame
<1> QED BY <1>3, <1>4, <1>5, <1>8, <1>9 DEF Abs!Commit

\* An fsync of the bound journal settles the current state.
LEMMA SettleStep ==
  ASSUME TypeOK, base' = base, jrnl' = Synced(jrnl), limbo' \subseteq limbo
  PROVE  Abs!Settle
<1>0. jrnl \in Journals /\ base.m \in States
  BY DEF TypeOK
<1>1. /\ jrnl'.gen = jrnl.gen /\ jrnl'.lines = jrnl.lines
      /\ jrnl'.synced = Len(jrnl.lines) /\ jrnl.lines \in Seq(Lines)
  BY <1>0, JournalFields DEF Synced, Journal
<1>2. Bound(base, jrnl)' = Bound(base, jrnl)
  BY <1>1 DEF Bound
<1>3. BoundSynced' = Len(Bound(base, jrnl))
  <2>1. Len(<<>>) = 0
    OBVIOUS
  <2> QED BY <1>1, <2>1 DEF Bound, BoundSynced
<1>4. Durable' = <<Replay(base.m, Bound(base, jrnl))>>
  BY <1>0, <1>2, <1>3, BoundType, DurableIsNext, HistorySynced
<1>5. Durable' = <<Abs!Current>>
  BY <1>4, CurrentIs DEF Recovered
<1> QED BY <1>5 DEF Abs!Settle

\* A swap that leaves one state, without some slices, is maintenance.
LEMMA MaintainStep ==
  ASSUME TypeOK, NEW m, Durable' = <<m>>,
         \A id \in Ids : \/ m[id] \in {Recovered[id], Absent}
                         \/ id \in limbo /\ Recovered[id] = Absent,
         \A id \in limbo' : m[id] = Absent
  PROVE  Abs!Maintain
<1>1. Len(<<m>>) = 1 /\ <<m>>[1] = m
  OBVIOUS
<1>2. Abs!Current = Recovered
  BY CurrentIs
<1> QED BY <1>1, <1>2 DEF Abs!Maintain

\* A loss of power keeps a prefix of the line of states.
LEMMA ForgetStep ==
  ASSUME TypeOK, base' = base, limbo' = {}, NEW k \in jrnl.synced .. Len(jrnl.lines),
         jrnl'.gen = jrnl.gen, jrnl'.lines = SubSeq(jrnl.lines, 1, k), jrnl'.synced = jrnl.synced
  PROVE  Abs!Forget
<1>0. /\ jrnl.lines \in Seq(Lines) /\ base.m \in States /\ jrnl.synced \in Nat
      /\ jrnl.synced <= Len(jrnl.lines) /\ Len(jrnl.lines) \in Nat
  BY JournalFields DEF TypeOK
<1>c. Durable \in Seq(States) /\ Len(Durable) \in Nat \ {0}
  BY CurrentIs
<1>1. CASE jrnl.gen = base.gen
  <2> DEFINE H == History(base.m, jrnl.lines, jrnl.synced)
             n == k - jrnl.synced + 1
  <2>1. Durable = H
    BY <1>1, DurableIs DEF Bound, BoundSynced
  <2>2. Durable' = History(base.m, SubSeq(jrnl.lines, 1, k), jrnl.synced)
    BY <1>1, DurableIsNext DEF Bound, BoundSynced
  <2>3. Durable' = SubSeq(H, 1, n)
    BY <1>0, <2>2, HistoryCut
  <2>4. Len(H) = Len(jrnl.lines) - jrnl.synced + 1
    BY <1>0, HistoryType
  <2>5. n \in 1 .. Len(H)
    BY <1>0, <2>4
  <2> HIDE DEF n, H
  <2> QED BY <2>1, <2>3, <2>5 DEF Abs!Forget
<1>2. CASE jrnl.gen # base.gen
  <2>1. Durable' = Durable
    BY <1>2, DurableSame DEF Bound, BoundSynced
  <2>2. SubSeq(Durable, 1, Len(Durable)) = Durable /\ Len(Durable) \in 1 .. Len(Durable)
    BY <1>c
  <2> QED BY <2>1, <2>2 DEF Abs!Forget
<1> QED BY <1>1, <1>2

\* A step that leaves the line of states alone, and opens no eviction.
LEMMA ResolveStep ==
  ASSUME Durable' = Durable, limbo' \subseteq limbo
  PROVE  Abs!Resolve
BY DEF Abs!Resolve

\* Replacing a journal without bound lines by another one changes nothing.
LEMMA EmptySwap ==
  ASSUME TypeOK, TypeOK', base' = base, jrnl.gen # base.gen \/ jrnl.lines = <<>>,
         jrnl'.gen # base'.gen \/ jrnl'.lines = <<>>
  PROVE  Durable' = Durable
<1>1. Bound(base, jrnl) = <<>> /\ BoundSynced = 0
  BY DurableBase
<1>2. Bound(base, jrnl)' = <<>> /\ BoundSynced' = 0
  BY DurableBaseNext
<1> QED BY <1>1, <1>2, DurableSame

-----------------------------------------------------------------------------
\* What every mutation hands to BeginWrite is a caller's.
LEMMA WritesAreCalls ==
  ASSUME TypeOK
  PROVE  /\ \A id \in Ids, p \in Payloads : Put(id, p) => \E u \in Seq(CallRecs) : BeginWrite(u)
         /\ \A id \in Ids : Delete(id) => \E u \in Seq(CallRecs) : BeginWrite(u)
         /\ \A id \in Ids, d \in Deltas :
              UpdateStats(id, d) => \E u \in Seq(CallRecs) : BeginWrite(u)
         /\ \A ids \in SUBSET Ids, d \in [Ids -> Deltas] :
              UpdateStatsBatch(ids, d) => \E u \in Seq(CallRecs) : BeginWrite(u)
<1>0. \A r \in CallRecs : <<r>> \in Seq(CallRecs)
  OBVIOUS
<1>1. ASSUME NEW id \in Ids, NEW p \in Payloads, Put(id, p)
      PROVE  \E u \in Seq(CallRecs) : BeginWrite(u)
  <2>1. PutRec(id, NewEntry(EnforceAdmission(p))) \in CallRecs
    BY DEF CallRecs
  <2> QED BY <1>0, <1>1, <2>1 DEF Put
<1>2. ASSUME NEW id \in Ids, Delete(id) PROVE \E u \in Seq(CallRecs) : BeginWrite(u)
  <2>1. DelRec(id) \in CallRecs
    BY DEF CallRecs
  <2> QED BY <1>0, <1>2, <2>1 DEF Delete
<1>3. ASSUME NEW id \in Ids, NEW d \in Deltas, UpdateStats(id, d)
      PROVE  \E u \in Seq(CallRecs) : BeginWrite(u)
  <2>1. StatRec(id, d) \in CallRecs
    BY DEF CallRecs
  <2> QED BY <1>0, <1>3, <2>1 DEF UpdateStats
<1>4. ASSUME NEW ids \in SUBSET Ids, NEW d \in [Ids -> Deltas], UpdateStatsBatch(ids, d)
      PROVE  \E u \in Seq(CallRecs) : BeginWrite(u)
  <2>1. PICK order \in [1 .. Cardinality(ids) -> ids] :
          BeginWrite([i \in 1 .. Cardinality(ids) |-> StatRec(order[i], d[order[i]])])
    BY <1>4 DEF UpdateStatsBatch
  <2>2. \A i \in 1 .. Cardinality(ids) : StatRec(order[i], d[order[i]]) \in CallRecs
    <3> TAKE i \in 1 .. Cardinality(ids)
    <3>1. order[i] \in Ids /\ d[order[i]] \in Deltas
      OBVIOUS
    <3> QED BY <3>1 DEF CallRecs
  <2>3. Cardinality(ids) \in Nat
    BY IdsCardinality
  <2>4. [i \in 1 .. Cardinality(ids) |-> StatRec(order[i], d[order[i]])] \in Seq(CallRecs)
    BY <2>2, <2>3
  <2> QED BY <2>1, <2>4
<1> QED BY <1>1, <1>2, <1>3, <1>4

\* A flush cut at any record, when nothing is torn, appends a prefix.
LEMMA PartlyWrittenPrefix ==
  ASSUME HandledOnly, TypeOK, Clean, NEW j \in PartlyWritten(pend)
  PROVE  \E u \in Seq(CallRecs) :
           /\ j.gen = jrnl.gen /\ j.lines = jrnl.lines \o u /\ j.synced = jrnl.synced /\ ~j.open
           /\ u = <<>> => j = jrnl
<1>1. PICK k \in 0 .. Len(pend) : j = Written(jrnl, SubSeq(pend, 1, k))
  BY DEF PartlyWritten, HandledOnly
<1> DEFINE u == SubSeq(pend, 1, k)
<1>2. u \in Seq(CallRecs) /\ jrnl.lines \in Seq(Lines) /\ ~jrnl.open
  BY JournalFields DEF Clean, TypeOK
<1> HIDE DEF u
<1>3. CASE u = <<>>
  <2>1. j = jrnl
    BY <1>1, <1>3 DEF Written, u
  <2>2. jrnl.lines \o u = jrnl.lines
    BY <1>2, <1>3
  <2> QED BY <1>2, <2>1, <2>2
<1>4. CASE u # <<>>
  <2>1. j = Journal(jrnl.gen, jrnl.lines \o u, FALSE, jrnl.synced)
    BY <1>1, <1>2, <1>4 DEF Written, u
  <2> QED BY <1>2, <1>4, <2>1 DEF Journal
<1> QED BY <1>3, <1>4

\* A power loss, when nothing is torn, keeps a prefix of the lines.
LEMMA TruncatedPrefix ==
  ASSUME HandledOnly, NEW j, ~j.open, NEW t \in Truncated(j)
  PROVE  \E k \in j.synced .. Len(j.lines) :
           /\ t.gen = j.gen /\ t.lines = SubSeq(j.lines, 1, k) /\ t.synced = j.synced /\ ~t.open
<1>1. PICK k \in j.synced .. Len(j.lines) :
        t = Journal(j.gen, SubSeq(j.lines, 1, k), j.open /\ k = Len(j.lines), j.synced)
  BY DEF Truncated, HandledOnly
<1> QED BY <1>1 DEF Journal

\* With only handled failures the store stays clean.
LEMMA CleanStep ==
  ASSUME HandledOnly, TypeOK, Clean, Next
  PROVE  Clean'
<1>g. jrnl \in Journals /\ pend \in Seq(Recs) /\ pend \in Seq(Lines)
  BY RecsAreLines DEF TypeOK
<1>c. ~unsafe /\ ~jrnl.open /\ (pc = "down" => limbo = {}) /\ pend \in Seq(CallRecs)
  BY DEF Clean
<1>e. <<>> \in Seq(CallRecs)
  OBVIOUS
<1>n. ASSUME Gone, ~unsafe', ~jrnl'.open PROVE Clean'
  BY <1>n, <1>e DEF Gone, Clean
<1>1. CASE Open
  BY <1>1, <1>c, FreshFields DEF Open, Clean
<1>2. ASSUME NEW u \in Seq(CallRecs), BeginWrite(u) PROVE Clean'
  BY <1>2, <1>c, FreshFields DEF BeginWrite, ensureJournal, Clean
<1>3. CASE Flush
  <2>1. ~Written(jrnl, pend).open
    BY <1>c DEF Written, Journal
  <2> QED BY <1>3, <1>c, <2>1 DEF Flush, Clean
<1>4. CASE FlushFails \/ SyncFails \/ FoldReopenFails \/ FoldStatFails
  BY <1>4 DEF FlushFails, SyncFails, FoldReopenFails, FoldStatFails, HandledOnly
<1>5. CASE FinishWrite
  <2>1. jrnl' \in {jrnl, Synced(jrnl)} /\ pc' \in {"fold", "open"}
        /\ pend' = <<>> /\ unsafe' = unsafe
    BY <1>5 DEF FinishWrite
  <2> QED BY <1>c, <1>g, <1>e, <2>1, SyncedType DEF Clean
<1>6. CASE Close
  <2>1. ~jrnl'.open
    BY <1>6, <1>g, <1>c, SyncedType DEF Close
  <2> QED BY <1>6, <1>c, <1>n, <2>1 DEF Close
<1>7. CASE Compact
  BY <1>7, <1>c DEF Compact, BeginFold, Clean
<1>8. ASSUME NEW evict, GC(evict) PROVE Clean'
  BY <1>8, <1>c DEF GC, BeginFold, Clean
<1>9. CASE FoldRename
  BY <1>9, <1>c DEF FoldRename, Clean
<1>10. CASE FoldRenameFails
  BY <1>10, <1>c DEF FoldRenameFails, EndFold, Clean
<1>11. CASE FoldCloseFails
  BY <1>11, <1>c DEF FoldCloseFails, disk, Clean
<1>12. CASE FoldRemove
  BY <1>12, <1>c, FreshFields DEF FoldRemove, Clean
<1>13. CASE FoldRemoveFails
  BY <1>13, <1>c DEF FoldRemoveFails, EndFold, Clean
<1>14. CASE FoldHeader
  BY <1>14, <1>c, FreshFields DEF FoldHeader, ensureJournal, EndFold, Clean
<1>15. CASE FoldHeaderFails
  BY <1>15, <1>c, FreshFields DEF FoldHeaderFails, EndFold, Clean
<1>16. ASSUME NEW ids, PruneArchive(ids) PROVE Clean'
  BY <1>16, <1>c DEF PruneArchive, handle, Clean
<1>17. CASE PruneCommit
  BY <1>17, <1>c DEF PruneCommit, handle, Clean, Journal
<1>18. CASE PruneAbort
  BY <1>18, <1>c DEF PruneAbort, disk, handle, Clean
<1>19. CASE Crash
  <2>1. ~jrnl'.open
    <3>1. CASE pc = "write"
      BY <1>19, <3>1, PartlyWrittenPrefix DEF Crash
    <3>2. CASE pc # "write"
      BY <1>19, <1>c, <3>2 DEF Crash
    <3> QED BY <3>1, <3>2
  <2>2. ~unsafe'
    BY <1>19, <1>c DEF Crash
  <2> QED BY <1>19, <1>n, <2>1, <2>2 DEF Crash
<1>20. CASE PowerLoss
  <2>1. ~jrnl'.open
    BY <1>20, <1>c, TruncatedPrefix DEF PowerLoss
  <2> QED BY <1>20, <1>c, <1>n, <2>1 DEF PowerLoss
<1>21. CASE ensureJournalFails
  BY <1>21, <1>c, FreshFields DEF ensureJournalFails, handle, Clean
<1> QED BY <1>1, <1>2, <1>3, <1>4, <1>5, <1>6, <1>7, <1>8, <1>9, <1>10, <1>11, <1>12, <1>13,
           <1>14, <1>15, <1>16, <1>17, <1>18, <1>19, <1>20, <1>21, WritesAreCalls
        DEF Next

-----------------------------------------------------------------------------
\* What a step does to the durable map, PowerLoss apart.
KeepsRecords == \/ Abs!Commit \/ Abs!Settle \/ Abs!Resolve
                \/ MaintenanceCommits /\ Abs!Maintain

\* Every step of the store is a step of the durable map, and only a power loss
\* forgets.
LEMMA AbsStep ==
  ASSUME HandledOnly, DInv, TypeOK', Next
  PROVE  KeepsRecords \/ (PowerLoss /\ Abs!Forget)
<1> USE DEF KeepsRecords
<1>t. TypeOK
  BY DEF DInv
<1>g. /\ base.gen \in Nat \ {0} /\ jrnl.gen \in Nat /\ jrnl \in Journals
      /\ mem \in States /\ pend \in Seq(Recs) /\ jw \in BOOLEAN
  BY <1>t, JournalFields DEF TypeOK
<1>w. WriterBound /\ Agreement /\ FoldKeeps /\ ArchiveReady /\ Clean
  BY DEF DInv, Consistent
<1>le. jrnl.gen <= base.gen
  BY <1>w DEF WriterBound
<1>c. ~unsafe /\ ~jrnl.open /\ (pc = "down" => limbo = {}) /\ pend \in Seq(CallRecs)
  BY <1>w DEF Clean
<1>u. ASSUME base' = base, jrnl' = jrnl, limbo' \subseteq limbo PROVE KeepsRecords
  <2>1. Durable' = Durable
    BY <1>u, DurableSame DEF Bound, BoundSynced
  <2> QED BY <1>u, <2>1, ResolveStep
<1>s. ASSUME base' = base, limbo' \subseteq limbo, jrnl.gen # base.gen \/ jrnl.lines = <<>>,
             jrnl'.gen # base'.gen \/ jrnl'.lines = <<>>
      PROVE  KeepsRecords
  BY <1>t, <1>s, EmptySwap, ResolveStep
<1>1. CASE Open
  <2>1. CASE jrnl.gen = base.gen
    BY <1>1, <1>u, <2>1 DEF Open
  <2>2. CASE jrnl.gen # base.gen
    BY <1>1, <1>s, <2>2, FreshFields DEF Open
  <2> QED BY <2>1, <2>2
<1>2. ASSUME NEW recs, BeginWrite(recs) PROVE KeepsRecords
  <2>1. CASE jw
    BY <1>2, <1>u, <2>1 DEF BeginWrite, ensureJournal
  <2>2. CASE ~jw
    BY <1>2, <1>s, <1>w, <2>2, FreshFields DEF BeginWrite, ensureJournal, WriterBound
  <2> QED BY <1>g, <2>1, <2>2
<1>3. CASE Flush
  <2>1. jrnl.gen = base.gen /\ base' = base /\ limbo' = limbo /\ jrnl' = Written(jrnl, pend)
    BY <1>3, <1>w DEF Flush, WriterBound
  <2>2. CASE pend = <<>>
    BY <1>u, <2>1, <2>2 DEF Written
  <2>3. CASE pend # <<>>
    <3>1. jrnl' = Journal(jrnl.gen, jrnl.lines \o pend, FALSE, jrnl.synced)
      BY <1>c, <2>1, <2>3 DEF Written
    <3>2. jrnl'.gen = jrnl.gen /\ jrnl'.lines = jrnl.lines \o pend /\ jrnl'.synced = jrnl.synced
      BY <3>1 DEF Journal
    <3> QED BY <1>t, <1>c, <2>1, <2>3, <3>2, CommitStep
  <2> QED BY <2>2, <2>3
<1>4. CASE FlushFails \/ SyncFails \/ FoldReopenFails \/ FoldStatFails
  BY <1>4 DEF FlushFails, SyncFails, FoldReopenFails, FoldStatFails, HandledOnly
<1>5. CASE FinishWrite
  <2>1. jrnl' \in {jrnl, Synced(jrnl)} /\ base' = base /\ limbo' \subseteq limbo
    BY <1>5 DEF FinishWrite
  <2> QED BY <1>t, <1>u, <2>1, SettleStep
<1>6. CASE Close
  <2>1. jrnl' \in {jrnl, Synced(jrnl)} /\ base' = base /\ limbo' \subseteq limbo
    BY <1>6 DEF Close, Gone
  <2> QED BY <1>t, <1>u, <2>1, SettleStep
<1>7. CASE Compact
  BY <1>7, <1>u DEF Compact, BeginFold
<1>8. ASSUME NEW evict, GC(evict) PROVE KeepsRecords
  BY <1>8, <1>u DEF GC, BeginFold
<1>9. CASE FoldRename
  <2>1. /\ base'.m = kept /\ jrnl' = jrnl /\ base'.gen = base.gen + 1 /\ pc = "fold"
        /\ limbo' = {id \in Ids : kept[id] # mem[id]}
    BY <1>9 DEF FoldRename
  <2>2. jrnl'.gen # base'.gen
    BY <1>g, <1>le, <2>1
  <2>3. Durable' = <<kept>>
    BY <2>1, <2>2, DurableBaseNext
  <2>4. \A id \in Ids : kept[id] \in {mem[id], Absent}
    BY <1>w, <2>1 DEF FoldKeeps
  <2>5. \A id \in Ids : mem[id] = Recovered[id] \/ (id \in limbo /\ Recovered[id] = Absent)
    BY <1>w, <2>1 DEF Agreement, Match
  <2>6. \A id \in Ids : \/ kept[id] \in {Recovered[id], Absent}
                        \/ id \in limbo /\ Recovered[id] = Absent
    BY <2>4, <2>5
  <2>7. \A id \in limbo' : kept[id] = Absent
    BY <2>1, <2>4
  <2> QED BY <1>t, <1>9, <2>3, <2>6, <2>7, MaintainStep DEF MaintenanceCommits
<1>10. CASE FoldRenameFails
  BY <1>10, <1>u DEF FoldRenameFails, EndFold
<1>11. CASE FoldCloseFails
  BY <1>11, <1>u DEF FoldCloseFails, disk
<1>12. CASE FoldRemove
  BY <1>12, <1>s, <1>g, <1>w, FreshFields DEF FoldRemove, WriterBound
<1>13. CASE FoldRemoveFails
  BY <1>13, <1>u DEF FoldRemoveFails, EndFold
<1>14. CASE FoldHeader
  <2>1. ~jw /\ (jrnl.gen # base.gen \/ jrnl.lines = <<>>)
    BY <1>14, <1>w, <1>g DEF FoldHeader, WriterBound
  <2> QED BY <1>14, <1>s, <2>1, FreshFields DEF FoldHeader, ensureJournal, EndFold
<1>15. CASE FoldHeaderFails
  <2>1. jrnl.gen # base.gen \/ jrnl.lines = <<>>
    BY <1>15, <1>w, <1>g DEF FoldHeaderFails, WriterBound
  <2> QED BY <1>15, <1>s, <2>1, FreshFields DEF FoldHeaderFails, EndFold
<1>16. ASSUME NEW ids, PruneArchive(ids) PROVE KeepsRecords
  BY <1>16, <1>u DEF PruneArchive, handle
<1>17. CASE PruneCommit
  <2>1. /\ base' = base /\ jrnl'.gen = base.gen /\ jrnl'.synced = Len(jrnl'.lines)
        /\ jrnl'.lines \in Seq(Lines)
        /\ \A id \in Ids : Recovered'[id] \in {Recovered[id], Absent}
    BY <1>t, <1>w, <1>17, PruneCommitRecovers
  <2>2. limbo' = {}
    BY <1>17, <1>w, <1>c DEF PruneCommit, FoldKeeps, handle
  <2>3. Durable' = <<Recovered'>>
    <3>1. Durable' = History(base.m, jrnl'.lines, Len(jrnl'.lines))
      BY <2>1, DurableIsNext DEF Bound, BoundSynced
    <3>2. Recovered' = Replay(base.m, jrnl'.lines)
      BY <2>1 DEF Recovered, Bound
    <3>3. base.m \in States
      BY <1>t DEF TypeOK
    <3> QED BY <2>1, <3>1, <3>2, <3>3, HistorySynced
  <2> QED BY <1>t, <1>17, <2>1, <2>2, <2>3, MaintainStep DEF MaintenanceCommits
<1>18. CASE PruneAbort
  BY <1>18, <1>u DEF PruneAbort, disk, handle
<1>19. CASE Crash
  <2>1. base' = base /\ limbo' \subseteq limbo
    BY <1>19 DEF Crash, Gone
  <2>2. CASE pc = "write"
    <3>1. jrnl.gen = base.gen /\ jrnl' \in PartlyWritten(pend)
      BY <1>19, <1>w, <2>2 DEF Crash, WriterBound
    <3>2. PICK u \in Seq(CallRecs) :
            /\ jrnl'.gen = jrnl.gen /\ jrnl'.lines = jrnl.lines \o u
            /\ jrnl'.synced = jrnl.synced /\ (u = <<>> => jrnl' = jrnl)
      BY <1>t, <1>w, <3>1, PartlyWrittenPrefix
    <3>3. CASE u = <<>>
      BY <1>u, <2>1, <3>2, <3>3
    <3>4. CASE u # <<>>
      BY <1>t, <2>1, <3>1, <3>2, <3>4, CommitStep
    <3> QED BY <3>3, <3>4
  <2>3. CASE pc # "write"
    BY <1>19, <1>u, <2>1, <2>3 DEF Crash
  <2> QED BY <2>2, <2>3
<1>20. CASE PowerLoss
  <2>1. base' = base /\ limbo' = {} /\ jrnl' \in Truncated(jrnl)
    BY <1>20 DEF PowerLoss, Gone
  <2>2. PICK k \in jrnl.synced .. Len(jrnl.lines) :
          /\ jrnl'.gen = jrnl.gen /\ jrnl'.lines = SubSeq(jrnl.lines, 1, k)
          /\ jrnl'.synced = jrnl.synced
    BY <1>c, <2>1, TruncatedPrefix
  <2>3. Abs!Forget
    BY <1>t, <2>1, <2>2, ForgetStep
  <2> QED BY <1>20, <2>3
<1>21. CASE ensureJournalFails
  BY <1>21, <1>s, <1>w, FreshFields DEF ensureJournalFails, handle, WriterBound
<1> QED BY <1>1, <1>2, <1>3, <1>4, <1>5, <1>6, <1>7, <1>8, <1>9, <1>10, <1>11, <1>12, <1>13,
           <1>14, <1>15, <1>16, <1>17, <1>18, <1>19, <1>20, <1>21
        DEF Next, Put, Delete, UpdateStats, UpdateStatsBatch

\* The invariant the refinement rests on holds in every reachable state.
THEOREM HandledStaysClean == ASSUME HandledOnly PROVE Spec => []DInv
<1>1. Init => Clean
  <2> SUFFICES ASSUME Init PROVE Clean
    OBVIOUS
  <2>1. <<>> \in Seq(CallRecs)
    OBVIOUS
  <2> QED BY <2>1, FreshFields DEF Init, Clean
<1> DEFINE A == IInv /\ (~unsafe => ArchiveReady)
<1>2. A /\ Clean /\ [Next]_vars => Clean'
  <2> SUFFICES ASSUME A, Clean, [Next]_vars PROVE Clean'
    OBVIOUS
  <2>1. CASE Next
    BY <2>1, CleanStep DEF IInv
  <2>2. CASE UNCHANGED vars
    BY <2>2 DEF vars, disk, handle, Clean
  <2> QED BY <2>1, <2>2
<1>3. A /\ Clean => DInv
  BY DEF IInv, Clean, DInv
<1> HIDE DEF A
<1>4. Spec => []A
  BY ArchiveIsReady DEF A
<1> QED BY <1>1, <1>2, <1>3, <1>4, PTL DEF Spec

(***************************************************************************)
(* The store implements the durable map, for every number of slices,       *)
(* journal length and threshold, as long as only failures the code handles *)
(* happen: every step of every operation, crash, failed fold and loss of   *)
(* power is, on the disk, a step of SliceStoreAbs or a stutter.            *)
(***************************************************************************)
THEOREM StoreImplementsMap == ASSUME HandledOnly PROVE Spec => ImplementsAbs
<1>1. Init => Abs!AInit
  <2> SUFFICES ASSUME Init PROVE Durable = <<Empty>> /\ limbo = {}
    BY AbsSame DEF Abs!AInit
  <2>1. TypeOK /\ base.m = Empty /\ base.gen = 1 /\ limbo = {} /\ jrnl.gen = 0 /\ jrnl.lines = <<>>
    BY InitType, FreshFields DEF Init
  <2>2. Bound(base, jrnl) = <<>> /\ BoundSynced = 0 /\ Recovered = base.m
    BY <2>1, DurableBase
  <2>3. Durable \in Seq(States) /\ Len(Durable) = 1 /\ Durable[1] = Empty
    <3>1. Len(Bound(base, jrnl)) - BoundSynced + 1 = 1
      BY <2>2
    <3>2. Len(Durable) = 1
      BY <2>1, <3>1, BoundType, DurableIs, HistoryType
    <3>3. Durable \in Seq(States) /\ Durable[Len(Durable)] = Recovered
      BY <2>1, CurrentIs DEF Abs!Current
    <3> QED BY <2>1, <2>2, <3>2, <3>3
  <2> QED BY <2>1, <2>3
<1>2. DInv /\ DInv' /\ [Next]_vars => [Abs!ANext]_(Abs!avars)
  <2> SUFFICES ASSUME DInv, DInv', [Next]_vars PROVE [Abs!ANext]_(Abs!avars)
    OBVIOUS
  <2>1. CASE Next
    BY <2>1, AbsStep DEF DInv, KeepsRecords, Abs!ANext
  <2>2. CASE UNCHANGED vars
    <3>1. Durable' = Durable
      BY <2>2, DurableSame DEF vars, disk, Bound, BoundSynced
    <3> QED BY <2>2, <3>1 DEF vars, handle, Abs!avars
  <2> QED BY <2>1, <2>2
<1> QED BY <1>1, <1>2, HandledStaysClean, PTL DEF Spec, ImplementsAbs, Abs!ASpec

(***************************************************************************)
(* A record that reached the file is forgotten by nothing but a loss of    *)
(* power and taken out by nothing but the base swap of a fold or the       *)
(* journal swap of a prune, under the same assumption on the failures.     *)
(***************************************************************************)
THEOREM OnlyPowerForgets == ASSUME HandledOnly PROVE Spec => KeptUnlessPowerLoss
<1> DEFINE K == ~PowerLoss => [\/ Abs!Commit \/ Abs!Settle
                               \/ MaintenanceCommits /\ Abs!Maintain]_Durable
<1>1. DInv /\ DInv' /\ [Next]_vars => [K]_vars
  <2> SUFFICES ASSUME DInv, DInv', Next, ~PowerLoss
               PROVE  [\/ Abs!Commit \/ Abs!Settle
                       \/ MaintenanceCommits /\ Abs!Maintain]_Durable
    OBVIOUS
  <2>1. KeepsRecords
    BY AbsStep DEF DInv
  <2> QED BY <2>1 DEF KeepsRecords, Abs!Resolve
<1> HIDE DEF K
<1>2. Spec => [][K]_vars
  BY <1>1, HandledStaysClean, PTL DEF Spec
<1> QED BY <1>2 DEF K, KeptUnlessPowerLoss
=============================================================================
